---------------------------- MODULE DaemonProofs -----------------------------
(***************************************************************************)
(* Theorems about Daemon, for every number of invocations, of backends     *)
(* started by hand, of attempts and of processes killed from outside.      *)
(*                                                                         *)
(* The types and the exclusive claim hold whether invocations overlap or   *)
(* not and whether backends are slow or not.  That no backend is orphaned  *)
(* and that every spawn succeeds hold of invocations that run one after    *)
(* the other (~Overlap) and backends that answer in time (Timely).         *)
(***************************************************************************)
EXTENDS Daemon, FiniteSetTheorems, TLAPS

(* Where an invocation looks at the process that the record it read names. *)
Named == {"await", "follow await", "signal", "grace"}

(* From where an invocation may still come to spawn its backend.           *)
Early == {"idle", "reuse", "check", "remove", "await", "probe", "acquire",
          "sentinel", "spawn", "follow", "follow await", "loop"}
Ahead(l) == IF l.pc \in {"release", "judge"} THEN l.after ELSE l.pc

(* Locals as the steps leave them: the record looked at names a backend,   *)
(* a release leads on to one of four places, and no invocation that has    *)
(* spawned one comes to spawn another.                                     *)
Invocation ==
  {l \in Local : /\ l.pc \in Named => Valid(l.rec)
                 /\ l.after \in {"idle", "probe", "loop", "ok", "failed"}
                 /\ Ahead(l) \in Early => ~l.spawned}

ServingPC == {"claim", "weigh", "bind", "publish", "replace", "up", "close"}
HolderPC  == {"bind", "publish", "replace", "up"} \cup Closing

FilePart ==
  /\ file \in Record /\ written \subseteq Cli
  /\ claim \in Backend \cup {Nobody} /\ sock \in Backend \cup {Nobody}
  /\ litter \subseteq Record \cup Backend
  /\ kills \in Nat /\ crashes \in Nat /\ kills + crashes <= MaxFaults

CliPart == cli \in [Cli -> Invocation]

BackPart == back \in [Backend -> Process]

(* The backend of an invocation does not run before it spawns it.          *)
SpawnPart == \A c \in Cli : ~cli[c].spawned => back[c].pc = "none"

TypeInv == FilePart /\ CliPart /\ BackPart /\ SpawnPart

(* What keeps the claim exclusive: the port admits one backend at a time   *)
(* to where the claim is taken; while one looks at a claim it moved away,  *)
(* there is none; and the claim of a holder is in its place or being       *)
(* looked at, unless a process died that was looking.                      *)
OneServes == \A b, d \in Backend :
               back[b].pc \in ServingPC /\ back[d].pc \in ServingPC => b = d

NoneWhileWeighed ==
  \A d \in Backend : back[d].pc = "weigh" => claim = Nobody /\ back[d].rival \in Backend

Weighed(b) == \E d \in Backend : back[d].pc = "weigh" /\ back[d].rival = b

ClaimsKept ==
  litter \cap Backend = {} =>
    \A b \in Backend : back[b].pc \in HolderPC => claim = b \/ Weighed(b)

ClaimInv == OneServes /\ NoneWhileWeighed /\ ClaimsKept

-----------------------------------------------------------------------------
(* An invocation that moves on keeps its locals sound.                     *)

LEMMA LocalChanges ==
  ASSUME CliPart, NEW c \in Cli, NEW l \in Invocation,
         cli' = [cli EXCEPT ![c] = l]
  PROVE  CliPart'
BY DEF CliPart

LEMMA GotoSound ==
  ASSUME CliPart, NEW c \in Cli, NEW pc \in CliPC \ {"release", "judge"},
         Goto(c, pc),
         pc \in Named => Valid(cli[c].rec),
         pc \in Early => Ahead(cli[c]) \in Early
  PROVE  CliPart'
<1> DEFINE l == [cli[c] EXCEPT !.pc = pc]
<1>1. cli[c] \in Invocation
  BY DEF CliPart
<1>2. cli[c] \in Local
  BY <1>1 DEF Invocation
<1>3. /\ l \in Local /\ l.pc = pc /\ l.rec = cli[c].rec
      /\ l.spawned = cli[c].spawned /\ l.after = cli[c].after
  BY <1>2 DEF Local
<1>4. l \in Invocation
  BY <1>1, <1>3 DEF Invocation, Ahead
<1>5. cli' = [cli EXCEPT ![c] = l]
  BY DEF Goto
<1> QED
  BY <1>4, <1>5, LocalChanges

LEMMA WithSound ==
  ASSUME CliPart, NEW c \in Cli, NEW pc \in CliPC \ {"release", "judge"},
         NEW r \in Record, With(c, pc, r),
         pc \in Named => Valid(r),
         pc \in Early => Ahead(cli[c]) \in Early
  PROVE  CliPart'
<1> DEFINE l == [cli[c] EXCEPT !.pc = pc, !.rec = r]
<1>1. cli[c] \in Invocation
  BY DEF CliPart
<1>2. cli[c] \in Local
  BY <1>1 DEF Invocation
<1>3. /\ l \in Local /\ l.pc = pc /\ l.rec = r
      /\ l.spawned = cli[c].spawned /\ l.after = cli[c].after
  BY <1>2 DEF Local
<1>4. l \in Invocation
  BY <1>1, <1>3 DEF Invocation, Ahead
<1>5. cli' = [cli EXCEPT ![c] = l]
  BY DEF With
<1> QED
  BY <1>4, <1>5, LocalChanges

LEMMA ReleaseSound ==
  ASSUME CliPart, NEW c \in Cli, NEW after \in {"probe", "loop", "ok", "failed"},
         NEW r \in Record, Release(c, r, after),
         after \in Early => Ahead(cli[c]) \in Early
  PROVE  CliPart'
<1> DEFINE l == [cli[c] EXCEPT !.pc = "release", !.rec = r, !.after = after]
<1>1. cli[c] \in Invocation
  BY DEF CliPart
<1>2. cli[c] \in Local
  BY <1>1 DEF Invocation
<1>3. /\ l \in Local /\ l.pc = "release" /\ l.after = after
      /\ l.spawned = cli[c].spawned
  BY <1>2 DEF Local, CliPC
<1>4. l \in Invocation
  BY <1>1, <1>3 DEF Invocation, Ahead, Named
<1>5. cli' = [cli EXCEPT ![c] = l]
  BY DEF Release
<1> QED
  BY <1>4, <1>5, LocalChanges

(* Steps that change only where an invocation stands.                      *)
LEMMA OnlyKeeps ==
  ASSUME TypeInv, NEW c \in Cli, Only, CliPart',
         \A d \in Cli : cli'[d].spawned = cli[d].spawned
  PROVE  TypeInv'
BY DEF Only, limits, TypeInv, FilePart, BackPart, SpawnPart

LEMMA SpawnedKept ==
  ASSUME CliPart, NEW c \in Cli,
         \/ \E pc : Goto(c, pc)
         \/ \E pc, r : With(c, pc, r)
         \/ \E r, after : Release(c, r, after)
  PROVE  \A d \in Cli : cli'[d].spawned = cli[d].spawned
<1>1. \A d \in Cli : cli[d] \in Local
  BY DEF CliPart, Invocation
<1>2. ASSUME NEW pc, Goto(c, pc)
      PROVE  \A d \in Cli : cli'[d].spawned = cli[d].spawned
  BY <1>1, <1>2 DEF CliPart, Local, Goto
<1>3. ASSUME NEW pc, NEW r, With(c, pc, r)
      PROVE  \A d \in Cli : cli'[d].spawned = cli[d].spawned
  BY <1>1, <1>3 DEF CliPart, Local, With
<1>4. ASSUME NEW r, NEW after, Release(c, r, after)
      PROVE  \A d \in Cli : cli'[d].spawned = cli[d].spawned
  <2> DEFINE l == [cli[c] EXCEPT !.pc = "release", !.rec = r, !.after = after]
  <2>1. l.spawned = cli[c].spawned
    BY <1>1 DEF Local
  <2>2. cli' = [cli EXCEPT ![c] = l]
    BY <1>4 DEF Release
  <2> HIDE DEF l
  <2> QED
    BY <2>1, <2>2 DEF CliPart
<1> QED
  BY <1>2, <1>3, <1>4, Zenon

LEMMA RecordFacts ==
  /\ NoFile \in Record
  /\ \A c \in Cli : c \in Backend
  /\ \A p \in Backend \cup {Sentinel, Nobody}, t \in Cli \cup {Nobody}, s \in BOOLEAN :
       [pid |-> p, token |-> t, socket |-> s] \in Record
  /\ \A r \in Record, t \in Cli \cup {Nobody} : [r EXCEPT !.token = t] \in Record
  /\ \A r \in Record, p \in Backend \cup {Sentinel, Nobody} : [r EXCEPT !.pid = p] \in Record
BY DEF NoFile, Record, Backend

(* The steps of an invocation that only look.                              *)
Looks(c) ==
  \/ Run(c) \/ ReadRecord(c) \/ CheckFile(c) \/ RemoveState(c) \/ Probe(c)
  \/ Ready(c, "await") \/ Ready(c, "follow await")
  \/ Stale(c, "await", "probe") \/ Stale(c, "follow await", "loop")
  \/ ReadExisting(c) \/ Live(c) \/ ChildAlive(c) \/ Confirm(c)
  \/ Follow(c) \/ Loop(c) \/ StopRead(c) \/ StopCheck(c)

LEMMA ReuseSteps ==
  ASSUME TypeInv, NEW c \in Cli,
         \/ Run(c) \/ ReadRecord(c) \/ CheckFile(c) \/ RemoveState(c) \/ Probe(c)
         \/ Ready(c, "await") \/ Ready(c, "follow await")
         \/ Stale(c, "await", "probe") \/ Stale(c, "follow await", "loop")
  PROVE  CliPart' /\ \A d \in Cli : cli'[d].spawned = cli[d].spawned
<1>1. CliPart /\ file \in Record
  BY DEF TypeInv, FilePart
<1>2. CASE Run(c)
  <2>1. PICK pc \in {"reuse", "stop"} : Goto(c, pc)
    BY <1>2 DEF Run
  <2>2. Ahead(cli[c]) \in Early
    BY <1>2 DEF Run, At, Ahead, Early
  <2> QED
    BY <1>1, <2>1, <2>2, GotoSound, SpawnedKept DEF CliPC, Named
<1>3. CASE ReadRecord(c)
  <2>1. Ahead(cli[c]) \in Early
    BY <1>3 DEF ReadRecord, At, Ahead, Early
  <2>2. CASE Valid(file)
    <3>1. With(c, "await", file)
      BY <1>3, <2>2 DEF ReadRecord
    <3> QED
      BY <1>1, <2>1, <2>2, <3>1, WithSound, SpawnedKept DEF CliPC
  <2>3. CASE ~Valid(file)
    <3>1. Goto(c, "check")
      BY <1>3, <2>3 DEF ReadRecord
    <3> QED
      BY <1>1, <2>1, <3>1, GotoSound, SpawnedKept DEF CliPC, Named
  <2> QED
    BY <2>2, <2>3
<1>4. CASE CheckFile(c)
  <2>1. Ahead(cli[c]) \in Early
    BY <1>4 DEF CheckFile, At, Ahead, Early
  <2>2. Goto(c, "probe") \/ Goto(c, "remove")
    BY <1>4 DEF CheckFile
  <2> QED
    BY <1>1, <2>1, <2>2, GotoSound, SpawnedKept DEF CliPC, Named
<1>5. CASE RemoveState(c)
  <2>1. Ahead(cli[c]) \in Early
    BY <1>5 DEF RemoveState, At, Ahead, Early
  <2>2. PICK r \in Record : Release(c, r, "probe")
    BY <1>1, <1>5, RecordFacts DEF RemoveState
  <2> QED
    BY <1>1, <2>1, <2>2, ReleaseSound, SpawnedKept
<1>6. CASE Probe(c)
  <2>1. Ahead(cli[c]) \in Early
    BY <1>6 DEF Probe, At, Ahead, Early
  <2>2. Goto(c, "ok") \/ Goto(c, "acquire")
    BY <1>6 DEF Probe
  <2> QED
    BY <1>1, <2>1, <2>2, GotoSound, SpawnedKept DEF CliPC, Named
<1>7. CASE Ready(c, "await") \/ Ready(c, "follow await")
  <2>1. Goto(c, "ok")
    BY <1>7 DEF Ready
  <2> QED
    BY <1>1, <2>1, GotoSound, SpawnedKept DEF CliPC, Named, Early
<1>8. CASE Stale(c, "await", "probe") \/ Stale(c, "follow await", "loop")
  <2>1. Ahead(cli[c]) \in Early
    BY <1>8 DEF Stale, At, Ahead, Early
  <2>2. cli[c].rec \in Record
    BY <1>1 DEF CliPart, Invocation, Local
  <2>3. Release(c, cli[c].rec, "probe") \/ Release(c, cli[c].rec, "loop")
    BY <1>8 DEF Stale
  <2> QED
    BY <1>1, <2>1, <2>2, <2>3, ReleaseSound, SpawnedKept
<1> QED
  BY <1>2, <1>3, <1>4, <1>5, <1>6, <1>7, <1>8

LEMMA RecordSteps ==
  ASSUME TypeInv, NEW c \in Cli,
         ReadExisting(c) \/ Live(c) \/ ChildAlive(c) \/ Confirm(c)
  PROVE  CliPart' /\ \A d \in Cli : cli'[d].spawned = cli[d].spawned
<1>1. CliPart /\ file \in Record
  BY DEF TypeInv, FilePart
<1>2. CASE ReadExisting(c)
  <2> DEFINE r == IF file.pid = c
                  THEN [file EXCEPT !.token = IF @ = Nobody THEN c ELSE @]
                  ELSE [pid |-> c, token |-> c, socket |-> FALSE]
  <2>1. r \in Record
    BY <1>1, RecordFacts DEF Record
  <2>2. With(c, "rename", r) \/ With(c, "rerename", r)
    BY <1>2 DEF ReadExisting
  <2> HIDE DEF r
  <2> QED
    BY <1>1, <2>1, <2>2, WithSound, SpawnedKept DEF CliPC, Named, Early
<1>3. CASE Live(c) \/ ChildAlive(c) \/ Confirm(c)
  <2>1. \/ Goto(c, "alive") \/ Goto(c, "catch") \/ Goto(c, "confirm")
        \/ Goto(c, "ok") \/ Goto(c, "rewrite")
    BY <1>3, Zenon DEF Live, ChildAlive, Confirm
  <2> QED
    BY <1>1, <2>1, GotoSound, SpawnedKept DEF CliPC, Named, Early
<1> QED
  BY <1>2, <1>3

LEMMA LoopSteps ==
  ASSUME TypeInv, NEW c \in Cli,
         Follow(c) \/ Loop(c) \/ StopRead(c) \/ StopCheck(c)
  PROVE  CliPart' /\ \A d \in Cli : cli'[d].spawned = cli[d].spawned
<1>1. CliPart /\ file \in Record
  BY DEF TypeInv, FilePart
<1>2. CASE Follow(c)
  <2>1. Ahead(cli[c]) \in Early
    BY <1>2 DEF Follow, At, Ahead, Early
  <2>2. CASE Valid(file)
    <3>1. With(c, "follow await", file)
      BY <1>2, <2>2 DEF Follow
    <3> QED
      BY <1>1, <2>1, <2>2, <3>1, WithSound, SpawnedKept DEF CliPC
  <2>3. CASE ~Valid(file)
    <3>1. PICK r \in Record : Release(c, r, "loop")
      BY <1>2, <2>3, RecordFacts DEF Follow
    <3> QED
      BY <1>1, <2>1, <3>1, ReleaseSound, SpawnedKept
  <2> QED
    BY <2>2, <2>3
<1>3. CASE Loop(c)
  <2>1. Ahead(cli[c]) \in Early
    BY <1>3 DEF Loop, At, Ahead, Early
  <2>2. CASE cli[c].tries + 1 < MaxAttempts
    <3> DEFINE l == [cli[c] EXCEPT !.tries = cli[c].tries + 1, !.pc = "reuse"]
    <3>1. cli[c] \in Local /\ cli[c] \in Invocation
      BY <1>1 DEF CliPart, Invocation
    <3>2. cli[c].tries + 1 \in 0 .. MaxAttempts - 1
      BY <2>2, <3>1, DaemonConstants DEF Local
    <3>3. /\ l \in Local /\ l.pc = "reuse"
          /\ l.spawned = cli[c].spawned /\ l.after = cli[c].after
      BY <3>1, <3>2 DEF Local, CliPC
    <3>4. l \in Invocation
      BY <2>1, <3>1, <3>3 DEF Invocation, Named, Ahead
    <3>5. cli' = [cli EXCEPT ![c] = l]
      BY <1>3, <2>2 DEF Loop
    <3>6. CliPart'
      BY <1>1, <3>4, <3>5, LocalChanges
    <3>7. \A d \in Cli : cli'[d].spawned = cli[d].spawned
      BY <1>1, <3>3, <3>5 DEF CliPart
    <3> QED
      BY <3>6, <3>7
  <2>3. CASE ~(cli[c].tries + 1 < MaxAttempts)
    <3>1. Goto(c, "contended")
      BY <1>3, <2>3 DEF Loop
    <3> QED
      BY <1>1, <3>1, GotoSound, SpawnedKept DEF CliPC, Named, Early
  <2> QED
    BY <2>2, <2>3
<1>4. CASE StopRead(c)
  <2>1. CASE Valid(file)
    <3>1. With(c, "signal", file) \/ With(c, "stop check", file)
      BY <1>4, <2>1 DEF StopRead
    <3> QED
      BY <1>1, <2>1, <3>1, WithSound, SpawnedKept DEF CliPC, Early, Named
  <2>2. CASE ~Valid(file)
    <3>1. Goto(c, "stop check")
      BY <1>4, <2>2 DEF StopRead
    <3> QED
      BY <1>1, <3>1, GotoSound, SpawnedKept DEF CliPC, Named, Early
  <2> QED
    BY <2>1, <2>2
<1>5. CASE StopCheck(c)
  <2>1. cli[c].rec \in Record
    BY <1>1 DEF CliPart, Invocation, Local
  <2>2. [NoFile EXCEPT !.pid = IF Valid(file) THEN file.pid ELSE Nobody] \in Record
    BY RecordFacts DEF Valid
  <2>3. Goto(c, "ok") \/ \E r \in Record : Release(c, r, "ok")
    BY <1>5, <2>1, <2>2 DEF StopCheck
  <2>4. CASE Goto(c, "ok")
    BY <1>1, <2>4, GotoSound, SpawnedKept DEF CliPC, Named, Early
  <2>5. ASSUME NEW r \in Record, Release(c, r, "ok")
        PROVE  CliPart' /\ \A d \in Cli : cli'[d].spawned = cli[d].spawned
    BY <1>1, <2>5, ReleaseSound, SpawnedKept DEF Early
  <2> QED
    BY <2>3, <2>4, <2>5
<1> QED
  BY <1>2, <1>3, <1>4, <1>5

LEMMA LooksTyped ==
  ASSUME TypeInv, NEW c \in Cli, Looks(c)
  PROVE  TypeInv' /\ Only
<1>1. CliPart' /\ \A d \in Cli : cli'[d].spawned = cli[d].spawned
  BY ReuseSteps, RecordSteps, LoopSteps, Zenon DEF Looks
<1>2. Only
  BY Zenon DEF Looks, Run, ReadRecord, CheckFile, RemoveState, Probe, Ready, Stale,
     ReadExisting, Live, ChildAlive, Confirm, Follow, Loop, StopRead, StopCheck
<1> QED
  BY <1>1, <1>2, OnlyKeeps

-----------------------------------------------------------------------------
(* The steps of an invocation on files and processes.                      *)

LEMMA FileWrites ==
  ASSUME TypeInv, NEW c \in Cli,
         Acquire(c) \/ WriteSentinel(c) \/ RenameRecord(c) \/ MoveAway(c) \/ Judge(c)
  PROVE  TypeInv' /\ UNCHANGED <<claim, sock, back, litter, limits>>
<1>1. CliPart /\ FilePart /\ cli[c] \in Invocation /\ cli[c] \in Local
  BY DEF TypeInv, CliPart, Invocation
<1>2. UNCHANGED <<claim, sock, back, litter, limits>>
  BY Zenon DEF Acquire, WriteSentinel, RenameRecord, MoveAway, Judge
<1>3. file' \in Record /\ written' \subseteq Cli
  <2>1. CASE Acquire(c)
    BY <1>1, <2>1, RecordFacts DEF Acquire, FilePart
  <2>2. CASE WriteSentinel(c)
    BY <1>1, <2>2 DEF WriteSentinel, FilePart
  <2>3. CASE RenameRecord(c)
    BY <1>1, <2>3 DEF RenameRecord, FilePart, Local
  <2>4. CASE MoveAway(c)
    BY <1>1, <2>4, RecordFacts DEF MoveAway, FilePart
  <2>5. CASE Judge(c)
    BY <1>1, <2>5 DEF Judge, FilePart, Local
  <2> QED
    BY <2>1, <2>2, <2>3, <2>4, <2>5
<1>4. CliPart' /\ \A d \in Cli : cli'[d].spawned = cli[d].spawned
  <2>1. CASE Acquire(c)
    <3>1. Ahead(cli[c]) \in Early
      BY <2>1 DEF Acquire, At, Ahead, Early
    <3>2. Goto(c, "sentinel") \/ Goto(c, "follow")
      BY <2>1 DEF Acquire
    <3> QED
      BY <1>1, <3>1, <3>2, GotoSound, SpawnedKept DEF CliPC, Named
  <2>2. CASE WriteSentinel(c)
    <3>1. Ahead(cli[c]) \in Early /\ Goto(c, "spawn")
      BY <2>2 DEF WriteSentinel, At, Ahead, Early
    <3> QED
      BY <1>1, <3>1, GotoSound, SpawnedKept DEF CliPC, Named
  <2>3. CASE RenameRecord(c)
    <3>1. Goto(c, "live") \/ Goto(c, "recheck")
      BY <2>3 DEF RenameRecord
    <3> QED
      BY <1>1, <3>1, GotoSound, SpawnedKept DEF CliPC, Named, Early
  <2>4. CASE MoveAway(c)
    <3> DEFINE l == IF file = NoFile THEN [cli[c] EXCEPT !.pc = cli[c].after]
                    ELSE [cli[c] EXCEPT !.pc = "judge", !.moved = file]
    <3>1. cli[c].pc = "release" /\ cli[c].after \in CliPC
      BY <1>1, <2>4 DEF MoveAway, At, Local
    <3>2. /\ l \in Local /\ l.spawned = cli[c].spawned
          /\ l.after = cli[c].after /\ l.rec = cli[c].rec
          /\ l.pc = IF file = NoFile THEN cli[c].after ELSE "judge"
      BY <1>1, <3>1 DEF FilePart, Local, CliPC
    <3>3. cli' = [cli EXCEPT ![c] = l]
      BY <2>4 DEF MoveAway, Goto
    <3> HIDE DEF l
    <3>4. cli[c].after \notin Named
      BY <1>1 DEF Invocation, Named
    <3>5. l \in Invocation
      BY <1>1, <3>1, <3>2, <3>4 DEF Invocation, Ahead, Early, Named
    <3>6. CliPart'
      BY <1>1, <3>3, <3>5, LocalChanges
    <3>7. \A d \in Cli : cli'[d].spawned = cli[d].spawned
      BY <1>1, <3>2, <3>3 DEF CliPart
    <3> QED
      BY <3>6, <3>7
  <2>5. CASE Judge(c)
    <3> DEFINE l == [cli[c] EXCEPT !.pc = cli[c].after, !.moved = NoFile]
    <3>1. cli[c].pc = "judge" /\ cli[c].after \in CliPC
      BY <1>1, <2>5 DEF Judge, At, Local
    <3>2. /\ l \in Local /\ l.spawned = cli[c].spawned
          /\ l.after = cli[c].after /\ l.rec = cli[c].rec
          /\ l.pc = cli[c].after
      BY <1>1, <3>1, RecordFacts DEF Local
    <3>3. cli' = [cli EXCEPT ![c] = l]
      BY <2>5 DEF Judge
    <3> HIDE DEF l
    <3>4. cli[c].after \notin Named
      BY <1>1 DEF Invocation, Named
    <3>5. l \in Invocation
      BY <1>1, <3>1, <3>2, <3>4 DEF Invocation, Ahead, Early, Named
    <3>6. CliPart'
      BY <1>1, <3>3, <3>5, LocalChanges
    <3>7. \A d \in Cli : cli'[d].spawned = cli[d].spawned
      BY <1>1, <3>2, <3>3 DEF CliPart
    <3> QED
      BY <3>6, <3>7
  <2> QED
    BY <2>1, <2>2, <2>3, <2>4, <2>5
<1> QED
  BY <1>2, <1>3, <1>4 DEF TypeInv, FilePart, BackPart, SpawnPart, limits

(* A process that dies, wherever it is.                                    *)
LEMMA DiesTyped ==
  ASSUME FilePart, BackPart, NEW b \in Backend, Dies(b)
  PROVE  /\ BackPart' /\ litter' \subseteq Record \cup Backend
         /\ back' = [back EXCEPT ![b] = Gone(b)] /\ Gone(b) \in Process
         /\ Gone(b).pc = "dead" /\ litter \subseteq litter'
         /\ back[b].rival \in Backend => back[b].rival \in litter'
<1>1. back[b] \in Process
  BY DEF BackPart
<1>2. Gone(b) \in Process /\ Gone(b).pc = "dead"
  BY <1>1, RecordFacts DEF Gone, Process, BackPC
<1>3. back' = [back EXCEPT ![b] = Gone(b)]
  BY DEF Dies
<1>4. BackPart'
  BY <1>2, <1>3 DEF BackPart
<1>5. litter' = litter \cup ({back[b].moved} \ {NoFile}) \cup ({back[b].rival} \ {Nobody})
  BY DEF Dies, Left
<1>6. back[b].moved \in Record /\ back[b].rival \in Backend \cup {Nobody}
  BY <1>1 DEF Process
<1>7. litter' \subseteq Record \cup Backend
  BY <1>5, <1>6 DEF FilePart
<1>8. back[b].rival \in Backend => back[b].rival \in litter'
  BY <1>5, DaemonConstants
<1> QED
  BY <1>2, <1>3, <1>4, <1>5, <1>7, <1>8

(* What changes only the process b, which has started or is started by hand. *)
LEMMA ProcessChanges ==
  ASSUME TypeInv, NEW b \in Backend, NEW p \in Process,
         back[b].pc # "none" \/ b \in Manual,
         back' = [back EXCEPT ![b] = p],
         CliPart', \A d \in Cli : cli'[d].spawned = cli[d].spawned
  PROVE  CliPart' /\ BackPart' /\ SpawnPart'
<1>1. BackPart'
  BY DEF TypeInv, BackPart
<1>2. ASSUME NEW d \in Cli, ~cli'[d].spawned PROVE back'[d].pc = "none"
  <2>1. back[d].pc = "none" /\ d \in Backend
    BY <1>2, RecordFacts DEF TypeInv, SpawnPart
  <2>2. b # d
    BY <2>1, DaemonConstants
  <2> QED
    BY <2>1, <2>2 DEF TypeInv, BackPart
<1> QED
  BY <1>1, <1>2 DEF SpawnPart

LEMMA SpawnTyped ==
  ASSUME TypeInv, NEW c \in Cli, SpawnDaemon(c)
  PROVE  /\ TypeInv' /\ UNCHANGED <<claim, litter>>
         /\ UNCHANGED back
              \/ (/\ back[c].pc = "none" /\ c \in Backend
                  /\ back' = [back EXCEPT ![c].pc = "boot"])
<1>1. /\ CliPart /\ cli[c] \in Invocation /\ cli[c] \in Local
      /\ cli[c].pc = "spawn" /\ c \in Backend
  BY RecordFacts DEF TypeInv, CliPart, Invocation, SpawnDaemon, At
<1>2. ~cli[c].spawned /\ back[c].pc = "none"
  BY <1>1 DEF Invocation, Ahead, Early, TypeInv, SpawnPart
<1>3. UNCHANGED <<file, written, claim, sock, litter, limits>>
  BY DEF SpawnDaemon
<1>4. FilePart'
  BY <1>3 DEF TypeInv, FilePart, limits
<1>5. CASE Goto(c, "catch") /\ UNCHANGED back
  <2>1. CliPart' /\ \A d \in Cli : cli'[d].spawned = cli[d].spawned
    BY <1>1, <1>5, GotoSound, SpawnedKept DEF CliPC, Named, Early
  <2> QED
    BY <1>3, <1>4, <1>5, <2>1 DEF TypeInv, BackPart, SpawnPart
<1>6. CASE /\ back' = [back EXCEPT ![c].pc = "boot"]
           /\ cli' = [cli EXCEPT ![c].pc = "write", ![c].spawned = TRUE]
  <2> DEFINE l == [cli[c] EXCEPT !.pc = "write", !.spawned = TRUE]
             p == [back[c] EXCEPT !.pc = "boot"]
  <2>1. l \in Local /\ l.pc = "write" /\ l.spawned /\ l.after = cli[c].after
    BY <1>1 DEF Local, CliPC
  <2>2. l \in Invocation
    BY <1>1, <2>1 DEF Invocation, Ahead, Early, Named
  <2>3. cli' = [cli EXCEPT ![c] = l] /\ back' = [back EXCEPT ![c] = p]
    BY <1>6
  <2>4. p \in Process
    BY <1>1 DEF TypeInv, BackPart, Process, BackPC
  <2>5. CliPart' /\ BackPart'
    BY <1>1, <2>2, <2>3, <2>4, LocalChanges DEF TypeInv, BackPart
  <2>6. ASSUME NEW d \in Cli, ~cli'[d].spawned PROVE back'[d].pc = "none"
    <3>1. d # c
      BY <1>1, <2>1, <2>3, <2>6 DEF CliPart
    <3>2. cli'[d] = cli[d] /\ back'[d] = back[d]
      BY <1>1, <2>3, <3>1, RecordFacts DEF CliPart, TypeInv, BackPart
    <3> QED
      BY <2>6, <3>2 DEF TypeInv, SpawnPart
  <2> QED
    BY <1>1, <1>2, <1>3, <1>4, <1>6, <2>5, <2>6 DEF TypeInv, SpawnPart
<1> QED
  BY <1>5, <1>6 DEF SpawnDaemon

(* The steps that signal a process.                                        *)
LEMMA SignalsTyped ==
  ASSUME TypeInv, NEW c \in Cli, Catch(c) \/ StopSignal(c) \/ StopGrace(c)
  PROVE  /\ TypeInv' /\ UNCHANGED claim
         /\ \/ UNCHANGED <<back, litter>>
            \/ \E b \in Backend : Dies(b)
            \/ \E b \in Backend : Is(b, "up") /\ Moves(b, "close") /\ UNCHANGED litter
<1>1. /\ CliPart /\ FilePart /\ BackPart /\ c \in Backend
      /\ cli[c] \in Invocation /\ cli[c] \in Local /\ cli[c].rec \in Record
  BY RecordFacts DEF TypeInv, CliPart, Invocation, Local
<1>2. UNCHANGED <<file, written, claim, sock, limits>>
  BY DEF Catch, StopSignal, StopGrace
<1>3. CliPart' /\ \A d \in Cli : cli'[d].spawned = cli[d].spawned
  <2>1. CASE Catch(c)
    <3>1. PICK r \in Record : Release(c, r, "failed")
      BY <1>1, <2>1, RecordFacts DEF Catch
    <3> QED
      BY <1>1, <3>1, ReleaseSound, SpawnedKept DEF Early
  <2>2. CASE StopSignal(c) \/ StopGrace(c)
    <3>1. Goto(c, "grace") \/ Release(c, cli[c].rec, "ok")
      BY <2>2 DEF StopSignal, StopGrace
    <3>2. cli[c].pc \in {"signal", "grace"}
      BY <2>2 DEF StopSignal, StopGrace, At
    <3>3. Valid(cli[c].rec)
      BY <1>1, <3>2 DEF Invocation, Named
    <3> QED
      BY <1>1, <3>1, <3>3, GotoSound, ReleaseSound, SpawnedKept DEF CliPC, Early
  <2> QED
    BY <2>1, <2>2
<1>4. \/ UNCHANGED <<back, litter>>
      \/ \E b \in Backend : Alive(b) /\ Dies(b)
      \/ \E b \in Backend : Is(b, "up") /\ Moves(b, "close") /\ UNCHANGED litter
  <2>1. CASE Catch(c)
    BY <1>1, <2>1 DEF Catch
  <2>2. CASE StopSignal(c) \/ StopGrace(c)
    <3>1. cli[c].rec.pid \in Backend
      <4>1. cli[c].pc \in {"signal", "grace"}
        BY <2>2 DEF StopSignal, StopGrace, At
      <4> QED
        BY <1>1, <4>1 DEF Invocation, Named, Valid
    <3> QED
      BY <2>2, <3>1, Zenon DEF StopSignal, StopGrace
  <2> QED
    BY <2>1, <2>2
<1>5. CASE UNCHANGED <<back, litter>>
  BY <1>2, <1>3, <1>5 DEF TypeInv, FilePart, BackPart, SpawnPart, limits
<1>6. ASSUME NEW b \in Backend, Alive(b), Dies(b)
      PROVE  TypeInv'
  <2>1. back[b].pc # "none"
    BY <1>6 DEF Alive
  <2>2. /\ back' = [back EXCEPT ![b] = Gone(b)] /\ Gone(b) \in Process
        /\ litter' \subseteq Record \cup Backend
    BY <1>1, <1>6, DiesTyped
  <2>3. BackPart' /\ SpawnPart'
    BY <1>3, <2>1, <2>2, ProcessChanges
  <2> QED
    BY <1>2, <1>3, <2>2, <2>3 DEF TypeInv, FilePart, limits
<1>7. ASSUME NEW b \in Backend, Is(b, "up"), Moves(b, "close"), UNCHANGED litter
      PROVE  TypeInv'
  <2> DEFINE p == [back[b] EXCEPT !.pc = "close"]
  <2>1. p \in Process /\ back' = [back EXCEPT ![b] = p] /\ back[b].pc # "none"
    BY <1>1, <1>7 DEF BackPart, Process, BackPC, Moves, Is
  <2>2. BackPart' /\ SpawnPart'
    BY <1>3, <2>1, ProcessChanges
  <2> QED
    BY <1>2, <1>3, <1>7, <2>2 DEF TypeInv, FilePart, limits
<1> QED
  BY <1>2, <1>4, <1>5, <1>6, <1>7

LEMMA FaultsTyped ==
  ASSUME TypeInv,
         (\E c \in Cli : KillCli(c)) \/ \E b \in Backend : CrashBackend(b)
  PROVE  /\ TypeInv' /\ UNCHANGED claim /\ litter \subseteq litter'
         /\ UNCHANGED back \/ \E b \in Backend : Dies(b)
<1>1. FilePart /\ BackPart /\ CliPart
  BY DEF TypeInv
<1>2. kills + crashes + 1 <= MaxFaults
  <2>1. kills + crashes < MaxFaults
    BY Zenon DEF KillCli, CrashBackend
  <2> QED
    BY <1>1, <2>1, DaemonConstants DEF FilePart
<1>3. ASSUME NEW c \in Cli, KillCli(c)
      PROVE  TypeInv' /\ UNCHANGED <<back, claim>> /\ litter \subseteq litter'
  <2> DEFINE l == [cli[c] EXCEPT !.pc = "dead", !.moved = NoFile]
  <2>1. cli[c] \in Invocation /\ cli[c] \in Local /\ cli[c].moved \in Record
    BY <1>1 DEF CliPart, Invocation, Local
  <2>2. /\ l \in Local /\ l.pc = "dead" /\ l.spawned = cli[c].spawned
        /\ l.after = cli[c].after
    BY <2>1, RecordFacts DEF Local, CliPC
  <2>3. l \in Invocation
    BY <2>1, <2>2 DEF Invocation, Ahead, Early, Named
  <2>4. cli' = [cli EXCEPT ![c] = l]
    BY <1>3 DEF KillCli
  <2> HIDE DEF l
  <2>5. CliPart' /\ \A d \in Cli : cli'[d].spawned = cli[d].spawned
    BY <1>1, <2>2, <2>3, <2>4, LocalChanges DEF CliPart
  <2>6. litter' = litter \cup ({cli[c].moved} \ {NoFile})
    BY <1>3 DEF KillCli, Left
  <2>7. FilePart'
    BY <1>1, <1>2, <1>3, <2>1, <2>6 DEF KillCli, FilePart
  <2> QED
    BY <1>3, <2>5, <2>6, <2>7 DEF KillCli, TypeInv, BackPart, SpawnPart
<1>4. ASSUME NEW b \in Backend, CrashBackend(b)
      PROVE  TypeInv' /\ UNCHANGED claim /\ litter \subseteq litter' /\ Dies(b)
  <2>1. Dies(b) /\ back[b].pc # "none" /\ UNCHANGED <<file, written, claim, sock, cli, kills>>
    BY <1>4 DEF CrashBackend, Alive
  <2>2. /\ back' = [back EXCEPT ![b] = Gone(b)] /\ Gone(b) \in Process
        /\ litter' \subseteq Record \cup Backend /\ litter \subseteq litter'
    BY <1>1, <2>1, DiesTyped
  <2>3. CliPart' /\ \A d \in Cli : cli'[d].spawned = cli[d].spawned
    BY <1>1, <2>1 DEF CliPart
  <2>4. BackPart' /\ SpawnPart'
    BY <2>1, <2>2, <2>3, ProcessChanges
  <2>5. FilePart'
    BY <1>1, <1>2, <1>4, <2>1, <2>2 DEF CrashBackend, FilePart
  <2> QED
    BY <2>1, <2>2, <2>3, <2>4, <2>5 DEF TypeInv
<1> QED
  BY <1>3, <1>4

(* The steps of a backend.                                                 *)
LEMMA BackTyped ==
  ASSUME TypeInv, NEW b \in Backend, Launch(b) \/ BackStep(b)
  PROVE  TypeInv' /\ UNCHANGED litter
<1>1. /\ FilePart /\ BackPart /\ CliPart /\ back[b] \in Process
  BY DEF TypeInv, BackPart
<1>2. UNCHANGED <<written, cli, litter, limits>>
  BY Zenon DEF Launch, BackStep, ListenTCP, CreateClaim, WeighRival, ListenUnix, ReadOwner,
     WriteDaemonState, CloseListeners, RemoveOwn, JudgeOwn, ReleaseClaim, files
<1>3. CliPart' /\ \A d \in Cli : cli'[d].spawned = cli[d].spawned
  BY <1>1, <1>2 DEF CliPart
<1>4. back[b].pc # "none" \/ b \in Manual
  BY Zenon DEF Launch, BackStep, ListenTCP, CreateClaim, WeighRival, ListenUnix, ReadOwner,
     WriteDaemonState, CloseListeners, RemoveOwn, JudgeOwn, ReleaseClaim, Is
<1>5. \E p \in Process : back' = [back EXCEPT ![b] = p]
  <2>1. ASSUME NEW pc \in BackPC, Moves(b, pc)
        PROVE  \E p \in Process : back' = [back EXCEPT ![b] = p]
    <3>1. [back[b] EXCEPT !.pc = pc] \in Process
      BY <1>1 DEF Process
    <3> QED
      BY <2>1, <3>1 DEF Moves
  <2>2. CASE Launch(b) \/ ListenTCP(b) \/ WriteDaemonState(b) \/ ReleaseClaim(b)
    <3>1. Moves(b, "boot") \/ Moves(b, "dead") \/ Moves(b, "claim") \/ Moves(b, "up")
      BY <2>2 DEF Launch, ListenTCP, WriteDaemonState, ReleaseClaim
    <3> QED
      BY <2>1, <3>1 DEF BackPC
  <2>3. CASE CreateClaim(b)
    <3>1. [back[b] EXCEPT !.pc = "weigh", !.rival = claim] \in Process
      BY <1>1 DEF Process, BackPC, FilePart
    <3> QED
      BY <2>1, <2>3, <3>1 DEF CreateClaim, BackPC
  <2>4. CASE WeighRival(b)
    <3>1. [back[b] EXCEPT !.rival = Nobody, !.pc = "dead"] \in Process
      BY <1>1 DEF Process, BackPC
    <3>2. ASSUME NEW pc \in BackPC
          PROVE  [back[b] EXCEPT !.rival = Nobody, !.tries = 2, !.pc = pc] \in Process
      BY <1>1, <3>2, 2 \in 1 .. 2 DEF Process
    <3>3. CASE back' = [back EXCEPT ![b].rival = Nobody, ![b].pc = "dead"]
      BY <3>1, <3>3
    <3>4. CASE back' = [back EXCEPT ![b].rival = Nobody, ![b].tries = 2,
                          ![b].pc = IF back[b].tries = 1 THEN "claim" ELSE "dead"]
      <4>1. PICK pc \in BackPC :
              back' = [back EXCEPT ![b].rival = Nobody, ![b].tries = 2, ![b].pc = pc]
        BY <3>4 DEF BackPC
      <4> QED
        BY <3>2, <4>1
    <3> QED
      BY <2>4, <3>3, <3>4 DEF WeighRival
  <2>5. CASE ListenUnix(b)
    <3>1. [back[b] EXCEPT !.pc = "publish", !.bound = TRUE] \in Process
      BY <1>1 DEF Process, BackPC
    <3> QED
      BY <2>1, <2>5, <3>1 DEF ListenUnix, BackPC
  <2>6. CASE ReadOwner(b)
    <3>1. [back[b] EXCEPT !.pc = "replace",
                          !.token = IF Torn(file) THEN Nobody ELSE file.token] \in Process
      BY <1>1 DEF Process, BackPC, FilePart, Record
    <3>2. CASE Moves(b, "up")
      BY <2>1, <3>2 DEF BackPC
    <3>3. CASE ~Moves(b, "up")
      <4>1. back' = [back EXCEPT ![b].pc = "replace",
                                 ![b].token = IF Torn(file) THEN Nobody ELSE file.token]
        BY <2>6, <3>3, Zenon DEF ReadOwner
      <4> QED
        BY <3>1, <4>1
    <3> QED
      BY <3>2, <3>3
  <2>7. CASE CloseListeners(b)
    <3>1. [back[b] EXCEPT !.pc = "remove own", !.bound = FALSE] \in Process
      BY <1>1 DEF Process, BackPC, Closing
    <3> QED
      BY <2>7, <3>1 DEF CloseListeners
  <2>8. CASE RemoveOwn(b)
    <3>1. [back[b] EXCEPT !.pc = "judge own", !.moved = file] \in Process
      BY <1>1 DEF Process, BackPC, FilePart
    <3> QED
      BY <2>1, <2>8, <3>1 DEF RemoveOwn, BackPC
  <2>9. CASE JudgeOwn(b)
    <3>1. [back[b] EXCEPT !.pc = "unclaim", !.moved = NoFile] \in Process
      BY <1>1, RecordFacts DEF Process, BackPC
    <3> QED
      BY <2>9, <3>1 DEF JudgeOwn
  <2> QED
    BY <2>2, <2>3, <2>4, <2>5, <2>6, <2>7, <2>8, <2>9, Zenon DEF BackStep
<1>6. /\ file' \in Record
      /\ claim' \in Backend \cup {Nobody} /\ sock' \in Backend \cup {Nobody}
  <2>1. CASE Launch(b) \/ ListenTCP(b) \/ ReadOwner(b)
    BY <1>1, <2>1 DEF Launch, ListenTCP, ReadOwner, files, FilePart
  <2>2. CASE CreateClaim(b) \/ ReleaseClaim(b)
    BY <1>1, <2>2 DEF CreateClaim, ReleaseClaim, files, FilePart
  <2>3. CASE WeighRival(b)
    BY <1>1, <2>3 DEF WeighRival, files, FilePart, Process
  <2>4. CASE ListenUnix(b) \/ CloseListeners(b)
    BY <1>1, <2>4 DEF ListenUnix, CloseListeners, files, FilePart
  <2>5. CASE WriteDaemonState(b)
    BY <1>1, <2>5, RecordFacts DEF WriteDaemonState, FilePart, Process
  <2>6. CASE RemoveOwn(b)
    BY <1>1, <2>6, RecordFacts DEF RemoveOwn, FilePart
  <2>7. CASE JudgeOwn(b)
    BY <1>1, <2>7 DEF JudgeOwn, FilePart, Process
  <2> QED
    BY <2>1, <2>2, <2>3, <2>4, <2>5, <2>6, <2>7, Zenon DEF BackStep
<1>7. BackPart' /\ SpawnPart'
  BY <1>3, <1>4, <1>5, ProcessChanges
<1> QED
  BY <1>1, <1>2, <1>3, <1>6, <1>7 DEF TypeInv, FilePart, limits

LEMMA InitTyped == Init => TypeInv
<1> SUFFICES ASSUME Init PROVE TypeInv
  OBVIOUS
<1>1. FilePart
  BY RecordFacts, DaemonConstants DEF Init, FilePart
<1>2. [pc |-> "idle", tries |-> 0, rec |-> NoFile, moved |-> NoFile,
       after |-> "idle", spawned |-> FALSE] \in Invocation
  <2> DEFINE l == [pc |-> "idle", tries |-> 0, rec |-> NoFile, moved |-> NoFile,
                   after |-> "idle", spawned |-> FALSE]
  <2>1. 0 \in 0 .. MaxAttempts - 1
    BY DaemonConstants
  <2>2. l \in Local
    BY <2>1, RecordFacts DEF Local, CliPC
  <2>3. l.pc = "idle" /\ l.after = "idle" /\ ~l.spawned
    OBVIOUS
  <2> HIDE DEF l
  <2>4. l \in Invocation
    BY <2>2, <2>3 DEF Invocation, Named
  <2> QED
    BY <2>4 DEF l
<1>3. [pc |-> "none", tries |-> 1, rival |-> Nobody, bound |-> FALSE,
       token |-> Nobody, moved |-> NoFile] \in Process
  BY RecordFacts DEF Process, BackPC
<1>4. SpawnPart
  BY RecordFacts DEF Init, SpawnPart
<1> QED
  BY <1>1, <1>2, <1>3, <1>4 DEF Init, TypeInv, CliPart, BackPart

LEMMA NextTyped == TypeInv /\ [Next]_vars => TypeInv'
<1> SUFFICES ASSUME TypeInv, [Next]_vars PROVE TypeInv'
  OBVIOUS
<1>1. CASE \E c \in Cli : Run(c) \/ CliStep(c)
  BY <1>1, LooksTyped, FileWrites, SpawnTyped, SignalsTyped, Zenon DEF CliStep, Looks
<1>2. CASE (\E c \in Cli : KillCli(c)) \/ \E b \in Backend : CrashBackend(b)
  BY <1>2, FaultsTyped
<1>3. CASE \E b \in Backend : Launch(b) \/ BackStep(b)
  BY <1>3, BackTyped
<1>4. CASE UNCHANGED vars
  BY <1>4 DEF vars, files, limits, TypeInv, FilePart, CliPart, BackPart, SpawnPart
<1> QED
  BY <1>1, <1>2, <1>3, <1>4, Zenon DEF Next

-----------------------------------------------------------------------------
(* The claim.                                                              *)

LEMMA ClaimSame ==
  ASSUME ClaimInv, UNCHANGED <<back, claim>>, litter \subseteq litter'
  PROVE  ClaimInv'
BY DEF ClaimInv, OneServes, NoneWhileWeighed, ClaimsKept, Weighed

(* A process that takes neither the port nor the claim, and that leaves a   *)
(* trace of a claim it was looking at.                                     *)
LEMMA ProcessLeaves ==
  ASSUME BackPart, ClaimInv, NEW b \in Backend, NEW p \in Process,
         back' = [back EXCEPT ![b] = p],
         claim' = claim, litter \subseteq litter',
         p.pc \in ServingPC => back[b].pc \in ServingPC,
         p.pc \in HolderPC => back[b].pc \in HolderPC,
         p.pc # "weigh",
         back[b].pc = "weigh" => back[b].rival \in litter'
  PROVE  ClaimInv'
<1>1. \A d \in Backend : back'[d] = IF d = b THEN p ELSE back[d]
  BY DEF BackPart
<1>2. OneServes'
  BY <1>1 DEF ClaimInv, OneServes
<1>3. NoneWhileWeighed'
  BY <1>1 DEF ClaimInv, NoneWhileWeighed
<1>4. ClaimsKept'
  <2> SUFFICES ASSUME litter' \cap Backend = {}, NEW h \in Backend,
                      back'[h].pc \in HolderPC
               PROVE  claim = h \/ Weighed(h)'
    BY DEF ClaimsKept
  <2>1. back[h].pc \in HolderPC /\ litter \cap Backend = {}
    BY <1>1
  <2>2. CASE claim = h
    BY <2>2
  <2>3. CASE Weighed(h)
    <3>1. PICK d \in Backend : back[d].pc = "weigh" /\ back[d].rival = h
      BY <2>3 DEF Weighed
    <3>2. d # b
      BY <3>1
    <3> QED
      BY <1>1, <3>1, <3>2 DEF Weighed
  <2> QED
    BY <2>1, <2>2, <2>3 DEF ClaimInv, ClaimsKept
<1> QED
  BY <1>2, <1>3, <1>4 DEF ClaimInv

LEMMA CliClaims ==
  ASSUME TypeInv, ClaimInv, NEW c \in Cli, Run(c) \/ CliStep(c) \/ KillCli(c)
  PROVE  ClaimInv'
<1>1. FilePart /\ BackPart
  BY DEF TypeInv
<1>2. ASSUME NEW b \in Backend, Dies(b), claim' = claim PROVE ClaimInv'
  <2>1. back[b].pc = "weigh" => back[b].rival \in Backend
    BY DEF ClaimInv, NoneWhileWeighed
  <2> QED
    BY <1>1, <1>2, <2>1, DiesTyped, ProcessLeaves DEF ServingPC, HolderPC, Closing
<1>3. CASE Looks(c) \/ KillCli(c)
  BY <1>2, <1>3, LooksTyped, FaultsTyped, ClaimSame DEF Only
<1>4. CASE Acquire(c) \/ WriteSentinel(c) \/ RenameRecord(c) \/ MoveAway(c) \/ Judge(c)
  BY <1>4, FileWrites, ClaimSame
<1>5. CASE SpawnDaemon(c)
  <2>1. CASE UNCHANGED back
    BY <1>5, <2>1, SpawnTyped, ClaimSame
  <2>2. CASE /\ back[c].pc = "none" /\ c \in Backend
             /\ back' = [back EXCEPT ![c].pc = "boot"]
    <3> DEFINE p == [back[c] EXCEPT !.pc = "boot"]
    <3>1. p \in Process /\ p.pc = "boot" /\ back' = [back EXCEPT ![c] = p]
      BY <1>1, <2>2 DEF BackPart, Process, BackPC
    <3> QED
      BY <1>1, <1>5, <2>2, <3>1, SpawnTyped, ProcessLeaves
         DEF ServingPC, HolderPC, Closing
  <2> QED
    BY <1>5, <2>1, <2>2, SpawnTyped
<1>6. CASE Catch(c) \/ StopSignal(c) \/ StopGrace(c)
  <2>1. claim' = claim
    BY <1>6, SignalsTyped
  <2>2. CASE UNCHANGED <<back, litter>>
    BY <2>1, <2>2, ClaimSame
  <2>3. ASSUME NEW b \in Backend, Is(b, "up"), Moves(b, "close"), UNCHANGED litter
        PROVE  ClaimInv'
    <3> DEFINE p == [back[b] EXCEPT !.pc = "close"]
    <3>1. p \in Process /\ p.pc = "close" /\ back' = [back EXCEPT ![b] = p]
      BY <1>1, <2>3 DEF BackPart, Process, BackPC, Moves
    <3> QED
      BY <1>1, <2>1, <2>3, <3>1, ProcessLeaves DEF ServingPC, HolderPC, Closing, Is
  <2> QED
    BY <1>2, <1>6, <2>1, <2>2, <2>3, SignalsTyped
<1> QED
  BY <1>3, <1>4, <1>5, <1>6, Zenon DEF CliStep, Looks

(* The steps of a backend that do not touch the claim.                     *)
LEMMA BackMoves ==
  ASSUME TypeInv, ClaimInv, NEW b \in Backend,
         \/ Launch(b) \/ ListenUnix(b) \/ ReadOwner(b) \/ WriteDaemonState(b)
         \/ CloseListeners(b) \/ RemoveOwn(b) \/ JudgeOwn(b)
         \/ ListenTCP(b) /\ Moves(b, "dead")
  PROVE  ClaimInv'
<1>1. BackPart /\ back[b] \in Process
  BY DEF TypeInv, BackPart
<1>2. UNCHANGED <<claim, litter>>
  BY Zenon DEF Launch, ListenTCP, ListenUnix, ReadOwner, WriteDaemonState, CloseListeners,
     RemoveOwn, JudgeOwn
<1>3. \E p \in Process : back' = [back EXCEPT ![b] = p]
  <2>1. PICK p : back' = [back EXCEPT ![b] = p]
    BY Zenon DEF Launch, ListenTCP, ListenUnix, ReadOwner, WriteDaemonState,
       CloseListeners, RemoveOwn, JudgeOwn, Moves
  <2>2. back'[b] \in Process
    BY BackTyped DEF BackStep, TypeInv, BackPart
  <2>3. p \in Process
    BY <1>1, <2>1, <2>2 DEF BackPart
  <2> QED
    BY <2>1, <2>3
<1>4. PICK p \in Process : back' = [back EXCEPT ![b] = p]
  BY <1>3
<1>5. back'[b] = p
  BY <1>1, <1>4 DEF BackPart
<1>6. /\ p.pc \in ServingPC => back[b].pc \in ServingPC
      /\ p.pc \in HolderPC => back[b].pc \in HolderPC
      /\ p.pc # "weigh" /\ back[b].pc # "weigh"
  <2>1. \A pc : Moves(b, pc) => p.pc = pc
    BY <1>1, <1>5 DEF BackPart, Process, Moves
  <2>2. CASE Launch(b) \/ WriteDaemonState(b) \/ (ListenTCP(b) /\ Moves(b, "dead"))
    <3>1. \/ back[b].pc = "none" /\ p.pc = "boot"
          \/ back[b].pc = "replace" /\ p.pc = "up"
          \/ back[b].pc = "boot" /\ p.pc = "dead"
      BY <2>1, <2>2, Zenon DEF Launch, WriteDaemonState, ListenTCP, Is
    <3> QED
      BY <3>1 DEF ServingPC, HolderPC, Closing
  <2>3. CASE ListenUnix(b)
    <3>1. back[b].pc = "bind"
      BY <2>3 DEF ListenUnix, Is
    <3>2. p.pc = "publish"
      <4>1. CASE Moves(b, "publish")
        BY <2>1, <4>1
      <4>2. CASE back' = [back EXCEPT ![b].pc = "publish", ![b].bound = TRUE]
        BY <1>1, <1>5, <4>2 DEF BackPart, Process
      <4> QED
        BY <2>3, <4>1, <4>2, Zenon DEF ListenUnix
    <3> QED
      BY <3>1, <3>2 DEF ServingPC, HolderPC
  <2>4. CASE ReadOwner(b)
    <3>1. back[b].pc = "publish"
      BY <2>4 DEF ReadOwner, Is
    <3>2. p.pc \in {"up", "replace"}
      <4>1. CASE Moves(b, "up")
        BY <2>1, <4>1
      <4>2. CASE ~Moves(b, "up")
        <5>1. back' = [back EXCEPT ![b].pc = "replace",
                         ![b].token = IF Torn(file) THEN Nobody ELSE file.token]
          BY <2>4, <4>2, Zenon DEF ReadOwner
        <5> QED
          BY <1>1, <1>5, <5>1 DEF BackPart, Process
      <4> QED
        BY <4>1, <4>2
    <3> QED
      BY <3>1, <3>2 DEF ServingPC, HolderPC
  <2>5. CASE CloseListeners(b) \/ RemoveOwn(b) \/ JudgeOwn(b)
    <3>1. back[b].pc \in {"close", "remove own", "judge own"}
      BY <2>5 DEF CloseListeners, RemoveOwn, JudgeOwn, Is
    <3>2. p.pc \in {"remove own", "judge own", "unclaim"}
      <4>1. CASE CloseListeners(b)
        BY <1>1, <1>5, <4>1 DEF BackPart, Process, CloseListeners
      <4>2. CASE RemoveOwn(b)
        <5>1. CASE Moves(b, "unclaim")
          BY <2>1, <5>1
        <5>2. CASE back' = [back EXCEPT ![b].pc = "judge own", ![b].moved = file]
          BY <1>1, <1>5, <5>2 DEF BackPart, Process
        <5> QED
          BY <4>2, <5>1, <5>2, Zenon DEF RemoveOwn
      <4>3. CASE JudgeOwn(b)
        BY <1>1, <1>5, <4>3 DEF BackPart, Process, JudgeOwn
      <4> QED
        BY <2>5, <4>1, <4>2, <4>3
    <3> QED
      BY <3>1, <3>2 DEF ServingPC, HolderPC, Closing
  <2> QED
    BY <2>2, <2>3, <2>4, <2>5
<1> QED
  BY <1>1, <1>2, <1>4, <1>6, ProcessLeaves

(* The port lets one backend at a time through to the claim.               *)
LEMMA PortTaken ==
  ASSUME TypeInv, ClaimInv, Elsewhere = {}, NEW b \in Backend,
         ListenTCP(b), Moves(b, "claim"), ~Answers(b)
  PROVE  ClaimInv'
<1>1. BackPart /\ UNCHANGED <<claim, litter>> /\ back[b].pc = "boot"
  BY DEF TypeInv, ListenTCP, Is
<1>2. \A d \in Backend : back[d].pc \notin ServingPC
  BY DEF Answers, SamePort, Serving, ServingPC
<1>3. \A d \in Backend : d # b => back'[d] = back[d]
  BY <1>1 DEF Moves, BackPart
<1>4. back'[b].pc = "claim"
  BY <1>1 DEF Moves, BackPart, Process
<1>5. OneServes'
  BY <1>2, <1>3 DEF OneServes
<1>6. NoneWhileWeighed'
  BY <1>2, <1>3, <1>4 DEF NoneWhileWeighed, ServingPC
<1>7. ClaimsKept'
  <2> SUFFICES ASSUME litter' \cap Backend = {}, NEW h \in Backend,
                      back'[h].pc \in HolderPC
               PROVE  claim' = h
    BY DEF ClaimsKept
  <2>1. h # b /\ back[h].pc \in HolderPC
    BY <1>3, <1>4 DEF HolderPC, Closing
  <2>2. ~Weighed(h)
    BY <1>2 DEF Weighed, ServingPC
  <2> QED
    BY <1>1, <2>1, <2>2 DEF ClaimInv, ClaimsKept
<1> QED
  BY <1>5, <1>6, <1>7 DEF ClaimInv

LEMMA CreateKeeps ==
  ASSUME TypeInv, ClaimInv, NEW b \in Backend, CreateClaim(b)
  PROVE  ClaimInv'
<1>1. /\ BackPart /\ UNCHANGED litter /\ back[b].pc = "claim"
      /\ back[b] \in Process /\ claim \in Backend \cup {Nobody}
  BY DEF TypeInv, CreateClaim, Is, BackPart, FilePart
<1>2. \A d \in Backend : back[d].pc \in ServingPC => d = b
  BY <1>1 DEF ClaimInv, OneServes, ServingPC
<1>3. \A h \in Backend : ~Weighed(h)
  BY <1>1, <1>2 DEF Weighed, ServingPC
<1>4. \A h \in Backend :
        litter \cap Backend = {} /\ back[h].pc \in HolderPC => claim = h
  BY <1>3 DEF ClaimInv, ClaimsKept
<1>5. \A d \in Backend : d # b => back'[d] = back[d]
  BY <1>1 DEF CreateClaim, Moves, BackPart
<1>6. \A d \in Backend : d # b => back'[d].pc # "weigh" /\ back'[d].pc \notin ServingPC
  BY <1>2, <1>5 DEF ServingPC
<1>7. CASE claim = Nobody
  <2>1. claim' = b /\ back'[b].pc = "bind"
    BY <1>1, <1>7 DEF CreateClaim, Moves, BackPart, Process
  <2>2. OneServes' /\ NoneWhileWeighed'
    BY <1>6, <2>1 DEF OneServes, NoneWhileWeighed
  <2>3. ClaimsKept'
    BY <1>1, <1>4, <1>5, <1>7, <2>1, DaemonConstants DEF ClaimsKept
  <2> QED
    BY <2>2, <2>3 DEF ClaimInv
<1>8. CASE claim # Nobody
  <2>1. claim' = Nobody /\ back'[b].pc = "weigh" /\ back'[b].rival = claim
    BY <1>1, <1>8 DEF CreateClaim, BackPart, Process
  <2>2. OneServes' /\ NoneWhileWeighed'
    BY <1>1, <1>6, <1>8, <2>1 DEF OneServes, NoneWhileWeighed
  <2>3. ClaimsKept'
    <3> SUFFICES ASSUME litter' \cap Backend = {}, NEW h \in Backend,
                        back'[h].pc \in HolderPC
                 PROVE  Weighed(h)'
      BY DEF ClaimsKept
    <3>1. h # b
      BY <2>1 DEF HolderPC, Closing
    <3>2. claim = h
      BY <1>1, <1>4, <1>5, <3>1
    <3> QED
      BY <2>1, <3>2 DEF Weighed
  <2> QED
    BY <2>2, <2>3 DEF ClaimInv
<1> QED
  BY <1>7, <1>8

LEMMA WeighKeeps ==
  ASSUME TypeInv, ClaimInv, NEW b \in Backend, WeighRival(b)
  PROVE  ClaimInv'
<1>1. /\ BackPart /\ UNCHANGED litter /\ back[b].pc = "weigh"
      /\ back[b] \in Process /\ claim = Nobody /\ back[b].rival \in Backend
  BY DEF TypeInv, WeighRival, Is, BackPart, ClaimInv, NoneWhileWeighed
<1>2. \A d \in Backend : back[d].pc \in ServingPC => d = b
  BY <1>1 DEF ClaimInv, OneServes, ServingPC
<1>3. \A h \in Backend :
        litter \cap Backend = {} /\ back[h].pc \in HolderPC => h = back[b].rival
  <2> SUFFICES ASSUME NEW h \in Backend, litter \cap Backend = {},
                      back[h].pc \in HolderPC
               PROVE  h = back[b].rival
    OBVIOUS
  <2>1. Weighed(h)
    BY <1>1, DaemonConstants DEF ClaimInv, ClaimsKept
  <2>2. PICK d \in Backend : back[d].pc = "weigh" /\ back[d].rival = h
    BY <2>1 DEF Weighed
  <2> QED
    BY <1>2, <2>2 DEF ServingPC
<1>4. \A d \in Backend : d # b => back'[d] = back[d]
  BY <1>1, Zenon DEF WeighRival, BackPart
<1>5. \A d \in Backend : d # b => back'[d].pc # "weigh" /\ back'[d].pc \notin ServingPC
  BY <1>2, <1>4 DEF ServingPC
<1>6. back'[b].pc \in {"dead", "claim"}
  BY <1>1 DEF WeighRival, BackPart, Process
<1>7. OneServes' /\ NoneWhileWeighed'
  BY <1>5, <1>6 DEF OneServes, NoneWhileWeighed
<1>8. ClaimsKept'
  <2> SUFFICES ASSUME litter' \cap Backend = {}, NEW h \in Backend,
                      back'[h].pc \in HolderPC
               PROVE  claim' = h
    BY DEF ClaimsKept
  <2>1. h # b /\ back[h].pc \in HolderPC
    BY <1>4, <1>6 DEF HolderPC, Closing
  <2>2. h = back[b].rival
    BY <1>1, <1>3, <2>1
  <2>3. Alive(back[b].rival)
    BY <2>1, <2>2 DEF Alive, HolderPC, Closing
  <2> QED
    BY <1>1, <2>2, <2>3, Zenon DEF WeighRival
<1> QED
  BY <1>7, <1>8 DEF ClaimInv

(* Whoever gives its claim back is the only holder.                        *)
LEMMA ReleaseKeeps ==
  ASSUME TypeInv, ClaimInv, NEW b \in Backend, ReleaseClaim(b)
  PROVE  ClaimInv'
<1>1. /\ BackPart /\ UNCHANGED litter /\ back[b].pc = "unclaim" /\ claim' = Nobody
      /\ back[b] \in Process /\ claim \in Backend \cup {Nobody}
  BY DEF TypeInv, ReleaseClaim, Is, BackPart, FilePart
<1>2. \A d \in Backend : d # b => back'[d] = back[d]
  BY <1>1 DEF ReleaseClaim, Moves, BackPart
<1>3. back'[b].pc = "dead"
  BY <1>1 DEF ReleaseClaim, Moves, BackPart, Process
<1>4. OneServes'
  BY <1>2, <1>3 DEF ClaimInv, OneServes, ServingPC
<1>5. NoneWhileWeighed'
  BY <1>1, <1>2, <1>3 DEF ClaimInv, NoneWhileWeighed
<1>6. ClaimsKept'
  <2> SUFFICES ASSUME litter' \cap Backend = {}, NEW h \in Backend,
                      back'[h].pc \in HolderPC
               PROVE  Weighed(h)'
    BY DEF ClaimsKept
  <2>1. h # b /\ back[h].pc \in HolderPC
    BY <1>2, <1>3 DEF HolderPC, Closing
  <2>2. claim = h \/ Weighed(h)
    BY <1>1, <2>1 DEF ClaimInv, ClaimsKept
  <2>3. claim = b \/ Weighed(b)
    BY <1>1 DEF ClaimInv, ClaimsKept, HolderPC, Closing
  <2>4. claim # h
    <3>1. CASE claim = b
      BY <2>1, <3>1
    <3>2. CASE Weighed(b)
      <4>1. claim = Nobody
        BY <3>2 DEF Weighed, ClaimInv, NoneWhileWeighed
      <4> QED
        BY <4>1, DaemonConstants
    <3> QED
      BY <2>3, <3>1, <3>2
  <2>5. PICK d \in Backend : back[d].pc = "weigh" /\ back[d].rival = h
    BY <2>2, <2>4 DEF Weighed
  <2>6. d # b
    BY <1>1, <2>5
  <2> QED
    BY <1>2, <2>5, <2>6 DEF Weighed
<1> QED
  BY <1>4, <1>5, <1>6 DEF ClaimInv

LEMMA NextClaims == Elsewhere = {} /\ TypeInv /\ ClaimInv /\ [Next]_vars => ClaimInv'
<1> SUFFICES ASSUME Elsewhere = {}, TypeInv, ClaimInv, [Next]_vars PROVE ClaimInv'
  OBVIOUS
<1>1. CASE \E c \in Cli : Run(c) \/ CliStep(c) \/ KillCli(c)
  BY <1>1, CliClaims
<1>2. ASSUME NEW b \in Backend, CrashBackend(b) PROVE ClaimInv'
  <2>1. Dies(b) /\ claim' = claim /\ FilePart /\ BackPart
    BY <1>2 DEF CrashBackend, TypeInv
  <2>2. back[b].pc = "weigh" => back[b].rival \in Backend
    BY DEF ClaimInv, NoneWhileWeighed
  <2> QED
    BY <2>1, <2>2, DiesTyped, ProcessLeaves DEF ServingPC, HolderPC, Closing
<1>3. ASSUME NEW b \in Backend, Launch(b) \/ BackStep(b) PROVE ClaimInv'
  <2>1. CASE ListenTCP(b)
    BY <2>1, BackMoves, PortTaken DEF ListenTCP
  <2>2. CASE CreateClaim(b) \/ WeighRival(b) \/ ReleaseClaim(b)
    BY <2>2, CreateKeeps, WeighKeeps, ReleaseKeeps
  <2> QED
    BY <1>3, <2>1, <2>2, BackMoves, Zenon DEF BackStep
<1>4. CASE UNCHANGED vars
  BY <1>4, ClaimSame DEF vars
<1> QED
  BY <1>1, <1>2, <1>3, <1>4, Zenon DEF Next

LEMMA InitClaims == Init => ClaimInv
<1> SUFFICES ASSUME Init PROVE ClaimInv
  OBVIOUS
<1>1. \A b \in Backend : back[b].pc = "none"
  BY DEF Init
<1> QED
  BY <1>1 DEF ClaimInv, OneServes, NoneWhileWeighed, ClaimsKept, ServingPC, HolderPC, Closing

LEMMA HoldersAlone == TypeInv /\ ClaimInv => OneClaim
<1> SUFFICES ASSUME TypeInv, ClaimInv, litter \cap Backend = {}
             PROVE  Cardinality(Holders) <= 1
  BY DEF OneClaim
<1>1. \A b \in Holders : b \in Backend /\ (claim = b \/ Weighed(b))
  BY DEF Holders, HolderPC, ClaimInv, ClaimsKept
<1>2. ASSUME NEW b \in Holders, NEW d \in Holders PROVE b = d
  <2>1. CASE claim = b \/ claim = d
    <3>1. claim # Nobody
      BY <1>1, <2>1, DaemonConstants
    <3>2. ~Weighed(b) /\ ~Weighed(d)
      BY <3>1 DEF ClaimInv, NoneWhileWeighed, Weighed
    <3> QED
      BY <1>1, <3>2
  <2>2. CASE Weighed(b) /\ Weighed(d)
    BY <2>2 DEF Weighed, ClaimInv, OneServes, ServingPC
  <2> QED
    BY <1>1, <2>1, <2>2
<1>3. CASE Holders = {}
  BY <1>3, FS_EmptySet
<1>4. ASSUME NEW b \in Holders PROVE Cardinality(Holders) <= 1
  <2>1. Holders = {b}
    BY <1>2, <1>4
  <2>2. Cardinality({b}) = 1
    BY FS_Singleton
  <2> QED
    BY <2>1, <2>2
<1> QED
  BY <1>3, <1>4

-----------------------------------------------------------------------------
(* The files, the invocations and the backends keep their types (daemon.ts, *)
(* main.go): an invocation only ever waits for, signals and kills a process *)
(* that a record names, never the sentinel of a lock.                      *)
THEOREM TypeCorrect == Spec => []TypeOK
<1>1. TypeInv => TypeOK
  <2> SUFFICES ASSUME TypeInv PROVE TypeOK
    OBVIOUS
  <2>1. cli \in [Cli -> Local]
    BY DEF TypeInv, CliPart, Invocation
  <2>2. {kills, crashes} \subseteq 0 .. MaxFaults
    BY DaemonConstants DEF TypeInv, FilePart
  <2> QED
    BY <2>1, <2>2 DEF TypeInv, FilePart, BackPart, TypeOK
<1> QED
  BY <1>1, InitTyped, NextTyped, PTL DEF Spec

(* The claim serializes the starts of backends that share a port (main.go,  *)
(* claimDaemonState): for any number of them and of invocations of the CLI, *)
(* overlapping or not, at most one holds it, unless a process died while it *)
(* had a claim moved away.                                                 *)
THEOREM ClaimIsExclusive == ASSUME Elsewhere = {} PROVE Spec => []OneClaim
<1>1. Init => TypeInv /\ ClaimInv
  BY InitTyped, InitClaims
<1>2. (TypeInv /\ ClaimInv) /\ [Next]_vars => (TypeInv /\ ClaimInv)'
  BY NextTyped, NextClaims
<1>3. TypeInv /\ ClaimInv => OneClaim
  BY HoldersAlone
<1> QED
  BY <1>1, <1>2, <1>3, PTL DEF Spec

-----------------------------------------------------------------------------
(* Invocations one after the other, none killed, no backend by hand, and   *)
(* backends that answer in time: what a later invocation finds.            *)

(* From the spawn to the end of an invocation that brings up its backend.  *)
Bringing == {"write", "rename", "live", "alive", "confirm", "rewrite",
             "rerename", "recheck"}

NoneAlive == \A b \in Backend : ~Alive(b)

(* Only one invocation runs, and at most one backend.                      *)
Alone ==
  /\ \A c, d \in Cli : Active(c) /\ Active(d) => c = d
  /\ \A b, d \in Backend : Alive(b) /\ Alive(d) => b = d

(* The lock is held from its creation to the spawn.                        *)
LockHeld ==
  \A c \in Cli :
    cli[c].pc \in {"sentinel", "spawn"} =>
      /\ file.pid = Sentinel /\ file.token = c
      /\ At(c, "spawn") => c \in written

(* A living backend was spawned by an invocation that brings it up still   *)
(* or has succeeded; the record carries its token, and its pid too unless  *)
(* that invocation has not written it yet; another invocation takes it for *)
(* running, or stops it; only one that waits for its end has it close.     *)
KnownLive(b) ==
  /\ b \in Cli /\ cli[b].pc \in Bringing \cup {"ok"}
  /\ \A c \in Cli \ {b} :
       \/ ~Active(c) \/ cli[c].pc \in {"reuse", "stop"}
       \/ cli[c].pc \in {"await", "signal", "grace"} /\ cli[c].rec.pid = b
  /\ back[b].pc \in Closing => \E c \in Cli \ {b} : At(c, "grace")
  /\ back[b].pc \notin Closing =>
       /\ file.token = b
       /\ \/ file.pid = b
          \/ /\ file.pid = Sentinel /\ b \in written
             /\ cli[b].pc \in {"write", "rename"}
  /\ Is(b, "boot") => cli[b].pc \in {"write", "rename", "live"}
  /\ Is(b, "replace") => back[b].token = b
  /\ cli[b].pc \in {"rename", "rerename"} =>
       cli[b].rec.pid = b /\ cli[b].rec.token = b

LivingKnown == \A b \in Backend : Alive(b) => KnownLive(b)

SequelInv == Undisturbed => Alone /\ LockHeld /\ LivingKnown

(* If no backend crashed either: an invocation that goes on to spawn finds *)
(* no file, what it leaves is its own, and a backend that starts finds at  *)
(* most the claim of a dead one.                                           *)
Spotless(l) ==
  /\ l.pc \notin {"remove", "follow", "follow await", "loop", "contended"}
  /\ l.pc \in {"check", "probe", "acquire", "stop check"} => NoneAlive /\ file = NoFile
  /\ l.pc \in {"sentinel", "spawn", "catch"} => NoneAlive
  /\ l.pc \in {"await", "signal"} => Alive(l.rec.pid)
  /\ l.pc = "signal" => l.rec.token = l.rec.pid
  /\ l.pc = "grace" => /\ l.rec.token = l.rec.pid
                       /\ file = NoFile \/ file.token = l.rec.token
  /\ l.pc \in {"release", "judge"} => NoneAlive /\ l.after \in {"ok", "failed"}
  /\ l.pc = "release" =>
       file = NoFile \/ (file.token = l.rec.token /\ l.rec.token \in Cli)
  /\ l.pc = "judge" => /\ file = NoFile /\ l.rec.token \in Cli
                       /\ l.moved.token = l.rec.token
  /\ Ahead(l) = "failed" => ~l.spawned

CleanClaim(b) ==
  /\ back[b].pc \in {"none", "boot"} => back[b].tries = 1
  /\ back[b].pc \in {"none", "boot", "claim"} => claim # b
  /\ back[b].pc = "claim" /\ back[b].tries = 2 => claim = Nobody
  /\ back[b].pc = "weigh" => /\ back[b].tries = 1 /\ claim = Nobody
                             /\ back[b].rival \in Backend \ {b}
  /\ back[b].pc = "judge own" => back[b].moved.token = b

NeatCli(c) ==
  /\ Spotless(cli[c])
  /\ cli[c].pc \in Bringing => Alive(c)
  /\ At(c, "catch") => /\ ~cli[c].spawned
                       /\ file.pid = Sentinel /\ file.token = c

NeatRest ==
  NoneAlive /\ (\A c \in Cli : ~Active(c) \/ cli[c].pc \in {"reuse", "stop"})
    => file = NoFile

Neat == /\ \A c \in Cli : NeatCli(c)
        /\ \A b \in Backend : CleanClaim(b)
        /\ NeatRest

NeatInv == Undisturbed /\ crashes = 0 => Neat

(* What a step does to the locals of its invocation, and of no other.      *)
Apart(c) == \A d \in Cli \ {c} : cli'[d] = cli[d]

LEMMA GotoFields ==
  ASSUME CliPart, NEW c \in Cli, NEW pc, Goto(c, pc)
  PROVE  /\ cli'[c].pc = pc /\ Apart(c)
         /\ cli'[c].rec = cli[c].rec /\ cli'[c].moved = cli[c].moved
         /\ cli'[c].after = cli[c].after /\ cli'[c].spawned = cli[c].spawned
BY DEF Goto, Apart, CliPart, Invocation, Local

LEMMA WithFields ==
  ASSUME CliPart, NEW c \in Cli, NEW pc, NEW r, With(c, pc, r)
  PROVE  /\ cli'[c].pc = pc /\ cli'[c].rec = r /\ Apart(c)
         /\ cli'[c].spawned = cli[c].spawned /\ cli'[c].after = cli[c].after
BY DEF With, Apart, CliPart, Invocation, Local

LEMMA ReleaseFields ==
  ASSUME CliPart, NEW c \in Cli, NEW after, NEW r, Release(c, r, after)
  PROVE  /\ cli'[c].pc = "release" /\ cli'[c].rec = r /\ cli'[c].after = after
         /\ cli'[c].spawned = cli[c].spawned /\ Apart(c)
<1>1. cli[c] \in Local
  BY DEF CliPart, Invocation
<1> DEFINE l == [cli[c] EXCEPT !.pc = "release", !.rec = r, !.after = after]
<1>2. /\ l.pc = "release" /\ l.rec = r /\ l.after = after
      /\ l.spawned = cli[c].spawned
  BY <1>1 DEF Local
<1>3. cli' = [cli EXCEPT ![c] = l]
  BY DEF Release
<1> HIDE DEF l
<1> QED
  BY <1>2, <1>3 DEF Apart, CliPart

LEMMA SpawnFields ==
  ASSUME TypeInv, NEW c \in Cli, SpawnDaemon(c)
  PROVE  /\ Apart(c) /\ UNCHANGED <<file, written, claim>>
         /\ cli[c].pc = "spawn"
         /\ \A d \in Backend \ {c} : back'[d] = back[d]
         /\ \/ /\ cli'[c].pc = "write" /\ back'[c].pc = "boot"
               /\ back'[c].tries = back[c].tries
            \/ /\ cli'[c].pc = "catch" /\ cli'[c].spawned = cli[c].spawned
               /\ back' = back
<1>1. CliPart /\ cli[c] \in Local /\ back[c] \in Process /\ c \in Backend
  BY RecordFacts DEF TypeInv, CliPart, Invocation, BackPart
<1>2. CASE Goto(c, "catch") /\ UNCHANGED back
  BY <1>1, <1>2, GotoFields DEF SpawnDaemon, At
<1>3. CASE /\ back' = [back EXCEPT ![c].pc = "boot"]
           /\ cli' = [cli EXCEPT ![c].pc = "write", ![c].spawned = TRUE]
  <2>1. back'[c].pc = "boot" /\ back'[c].tries = back[c].tries
    BY <1>1, <1>3 DEF TypeInv, BackPart, Process
  <2>2. \A d \in Backend \ {c} : back'[d] = back[d]
    BY <1>1, <1>3 DEF TypeInv, BackPart
  <2>3. cli'[c].pc = "write" /\ Apart(c)
    BY <1>1, <1>3 DEF CliPart, Local, Apart
  <2> QED
    BY <2>1, <2>2, <2>3 DEF SpawnDaemon, At
<1> QED
  BY <1>2, <1>3 DEF SpawnDaemon

LEMMA ReleasingFields ==
  ASSUME TypeInv, NEW c \in Cli, MoveAway(c) \/ Judge(c)
  PROVE  /\ Apart(c) /\ cli'[c].rec = cli[c].rec
         /\ cli'[c].after = cli[c].after /\ cli'[c].spawned = cli[c].spawned
         /\ \/ /\ cli[c].pc = "release" /\ file = NoFile /\ file' = NoFile
               /\ cli'[c].pc = cli[c].after
            \/ /\ cli[c].pc = "release" /\ file # NoFile /\ file' = NoFile
               /\ cli'[c].pc = "judge" /\ cli'[c].moved = file
            \/ /\ cli[c].pc = "judge" /\ cli'[c].pc = cli[c].after
               /\ file' \in {file, cli[c].moved}
               /\ Owns(cli[c].moved, cli[c].rec.pid, cli[c].rec.token) => file' = file
<1>1. CliPart /\ cli[c] \in Local
  BY DEF TypeInv, CliPart, Invocation
<1>2. CASE MoveAway(c) /\ file = NoFile
  BY <1>1, <1>2, GotoFields DEF MoveAway, At
<1>3. CASE MoveAway(c) /\ file # NoFile
  <2>1. /\ cli[c].pc = "release" /\ file' = NoFile
        /\ cli' = [cli EXCEPT ![c].pc = "judge", ![c].moved = file]
    BY <1>3 DEF MoveAway, At
  <2> QED
    BY <1>1, <1>3, <2>1 DEF CliPart, Local, Apart
<1>4. CASE Judge(c)
  <2>1. /\ cli[c].pc = "judge"
        /\ cli' = [cli EXCEPT ![c].pc = cli[c].after, ![c].moved = NoFile]
        /\ file' \in {file, cli[c].moved}
        /\ Owns(cli[c].moved, cli[c].rec.pid, cli[c].rec.token) => file' = file
    BY <1>4 DEF Judge, At
  <2>2. /\ cli'[c].pc = cli[c].after /\ cli'[c].rec = cli[c].rec /\ Apart(c)
        /\ cli'[c].after = cli[c].after /\ cli'[c].spawned = cli[c].spawned
    BY <1>1, <2>1 DEF CliPart, Local, Apart
  <2> QED
    BY <2>1, <2>2
<1> QED
  BY <1>2, <1>3, <1>4

(* A backend that dies, or that is told to close.                          *)
LEMMA DyingFields ==
  ASSUME TypeInv, NEW b \in Backend
  PROVE  /\ Dies(b) => /\ back'[b].pc = "dead"
                       /\ \A d \in Backend \ {b} : back'[d] = back[d]
         /\ Moves(b, "close") => /\ back'[b].pc = "close"
                                 /\ \A d \in Backend \ {b} : back'[d] = back[d]
<1>1. back[b] \in Process /\ back \in [Backend -> Process]
  BY DEF TypeInv, BackPart
<1>2. ASSUME Dies(b)
      PROVE  back'[b].pc = "dead" /\ \A d \in Backend \ {b} : back'[d] = back[d]
  BY <1>1, <1>2, DiesTyped DEF TypeInv
<1>3. ASSUME Moves(b, "close")
      PROVE  back'[b].pc = "close" /\ \A d \in Backend \ {b} : back'[d] = back[d]
  BY <1>1, <1>3 DEF Moves, Process
<1> QED
  BY <1>2, <1>3

LEMMA BackFields ==
  ASSUME TypeInv, NEW b \in Backend, BackStep(b)
  PROVE  /\ Alive(b) /\ UNCHANGED <<cli, written, litter, limits>>
         /\ \A d \in Backend \ {b} : back'[d] = back[d]
         /\ \/ /\ back[b].pc = "boot" /\ file' = file /\ claim' = claim
               /\ back'[b].pc = IF Answers(b) THEN "dead" ELSE "claim"
               /\ back'[b].tries = back[b].tries
            \/ /\ back[b].pc = "claim" /\ file' = file
               /\ IF claim = Nobody
                  THEN claim' = b /\ back'[b].pc = "bind"
                  ELSE /\ claim' = Nobody /\ back'[b].pc = "weigh"
                       /\ back'[b].rival = claim /\ back'[b].tries = back[b].tries
            \/ /\ back[b].pc = "weigh" /\ file' = file
               /\ \/ Alive(back[b].rival) /\ back'[b].pc = "dead"
                  \/ /\ ~Alive(back[b].rival) /\ claim' = claim /\ back'[b].tries = 2
                     /\ back'[b].pc = IF back[b].tries = 1 THEN "claim" ELSE "dead"
            \/ /\ back[b].pc = "bind" /\ back'[b].pc = "publish"
               /\ file' = file /\ claim' = claim
            \/ /\ back[b].pc = "publish" /\ back'[b].pc = "up"
               /\ file' = file /\ claim' = claim
            \/ /\ back[b].pc = "publish" /\ back'[b].pc = "replace"
               /\ back'[b].token = IF Torn(file) THEN Nobody ELSE file.token
               /\ file' = file /\ claim' = claim
            \/ /\ back[b].pc = "replace" /\ back'[b].pc = "up" /\ claim' = claim
               /\ file'.pid = b /\ file'.token = back[b].token
            \/ /\ back[b].pc = "close" /\ back'[b].pc = "remove own"
               /\ file' = file /\ claim' = claim
            \/ /\ back[b].pc = "remove own" /\ file' = NoFile /\ claim' = claim
               /\ \/ file = NoFile /\ back'[b].pc = "unclaim"
                  \/ /\ file # NoFile
                     /\ back'[b].pc = "judge own" /\ back'[b].moved = file
            \/ /\ back[b].pc = "judge own" /\ back'[b].pc = "unclaim" /\ claim' = claim
               /\ file' \in {file, back[b].moved}
            \/ /\ back[b].pc = "unclaim" /\ back'[b].pc = "dead"
               /\ file' = file /\ claim' = Nobody
<1> DEFINE Rest == \A d \in Backend \ {b} : back'[d] = back[d]
<1>1. back[b] \in Process /\ back \in [Backend -> Process]
  BY DEF TypeInv, BackPart
<1>2. ASSUME NEW pc, Moves(b, pc)
      PROVE  back'[b].pc = pc /\ Rest /\ back'[b].tries = back[b].tries
  BY <1>1, <1>2 DEF Moves, Process
<1>3. Alive(b) /\ UNCHANGED <<cli, written, litter, limits>>
  BY DEF Alive, BackStep, ListenTCP, CreateClaim, WeighRival, ListenUnix, ReadOwner,
     WriteDaemonState, CloseListeners, RemoveOwn, JudgeOwn, ReleaseClaim, Is, files
<1>4. CASE ListenTCP(b)
  <2>1. /\ back[b].pc = "boot" /\ file' = file /\ claim' = claim
        /\ Moves(b, IF Answers(b) THEN "dead" ELSE "claim")
    BY <1>4 DEF ListenTCP, Is, files
  <2> QED
    BY <1>2, <1>3, <2>1
<1>5. CASE CreateClaim(b)
  <2>1. CASE claim = Nobody
    BY <1>2, <1>3, <1>5, <2>1 DEF CreateClaim, Is, files
  <2>2. CASE claim # Nobody
    <3>1. /\ back[b].pc = "claim" /\ file' = file /\ claim' = Nobody
          /\ back' = [back EXCEPT ![b].pc = "weigh", ![b].rival = claim]
      BY <1>5, <2>2 DEF CreateClaim, Is, files
    <3>2. /\ back'[b].pc = "weigh" /\ back'[b].rival = claim
          /\ back'[b].tries = back[b].tries /\ Rest
      BY <1>1, <3>1 DEF Process
    <3> QED
      BY <1>3, <2>2, <3>1, <3>2
  <2> QED
    BY <2>1, <2>2
<1>6. CASE WeighRival(b)
  <2>1. back[b].pc = "weigh" /\ file' = file
    BY <1>6 DEF WeighRival, Is, files
  <2>2. CASE Alive(back[b].rival)
    <3>1. back' = [back EXCEPT ![b].rival = Nobody, ![b].pc = "dead"]
      BY <1>6, <2>2 DEF WeighRival
    <3>2. back'[b].pc = "dead" /\ Rest
      BY <1>1, <3>1 DEF Process
    <3> QED
      BY <1>3, <2>1, <2>2, <3>2
  <2>3. CASE ~Alive(back[b].rival)
    <3> DEFINE pc == IF back[b].tries = 1 THEN "claim" ELSE "dead"
    <3>1. /\ back' = [back EXCEPT ![b].rival = Nobody, ![b].tries = 2, ![b].pc = pc]
          /\ claim' = claim
      BY <1>6, <2>3 DEF WeighRival
    <3>2. back'[b].pc = pc /\ back'[b].tries = 2 /\ Rest
      BY <1>1, <3>1 DEF Process
    <3> QED
      BY <1>3, <2>1, <2>3, <3>1, <3>2
  <2> QED
    BY <2>2, <2>3
<1>7. CASE ListenUnix(b)
  <2>1. back'[b].pc = "publish" /\ Rest
    BY <1>1, <1>2, <1>7 DEF ListenUnix, Process
  <2> QED
    BY <1>3, <1>7, <2>1 DEF ListenUnix, Is, files
<1>8. CASE ReadOwner(b)
  <2>1. CASE Moves(b, "up")
    BY <1>2, <1>3, <1>8, <2>1 DEF ReadOwner, Is, files
  <2>2. CASE back' = [back EXCEPT ![b].pc = "replace",
                        ![b].token = IF Torn(file) THEN Nobody ELSE file.token]
    <3>1. /\ back'[b].pc = "replace" /\ Rest
          /\ back'[b].token = IF Torn(file) THEN Nobody ELSE file.token
      BY <1>1, <2>2 DEF Process
    <3> QED
      BY <1>3, <1>8, <3>1 DEF ReadOwner, Is, files
  <2> QED
    BY <1>8, <2>1, <2>2, Zenon DEF ReadOwner
<1>9. CASE WriteDaemonState(b)
  <2>1. /\ back[b].pc = "replace" /\ claim' = claim /\ Moves(b, "up")
        /\ file'.pid = b /\ file'.token = back[b].token
    BY <1>9 DEF WriteDaemonState, Is
  <2> QED
    BY <1>2, <1>3, <2>1
<1>10. CASE CloseListeners(b)
  BY <1>1, <1>3, <1>10 DEF CloseListeners, Is, files, Process
<1>11. CASE RemoveOwn(b)
  <2>1. CASE file = NoFile
    BY <1>2, <1>3, <1>11, <2>1 DEF RemoveOwn, Is
  <2>2. CASE file # NoFile
    <3>1. /\ back[b].pc = "remove own" /\ claim' = claim /\ file' = NoFile
          /\ back' = [back EXCEPT ![b].pc = "judge own", ![b].moved = file]
      BY <1>11, <2>2 DEF RemoveOwn, Is
    <3>2. back'[b].pc = "judge own" /\ back'[b].moved = file /\ Rest
      BY <1>1, <3>1 DEF Process
    <3> QED
      BY <1>3, <2>2, <3>1, <3>2
  <2> QED
    BY <2>1, <2>2
<1>12. CASE JudgeOwn(b)
  <2>1. /\ back[b].pc = "judge own" /\ claim' = claim
        /\ file' \in {file, back[b].moved}
        /\ back' = [back EXCEPT ![b].pc = "unclaim", ![b].moved = NoFile]
    BY <1>12 DEF JudgeOwn, Is
  <2>2. back'[b].pc = "unclaim" /\ Rest
    BY <1>1, <2>1 DEF Process
  <2> QED
    BY <1>3, <2>1, <2>2
<1>13. CASE ReleaseClaim(b)
  BY <1>2, <1>3, <1>13 DEF ReleaseClaim, Is, files
<1> QED
  BY <1>4, <1>5, <1>6, <1>7, <1>8, <1>9, <1>10, <1>11, <1>12, <1>13, Zenon DEF BackStep

(* Nothing undoes a disturbance.                                           *)
LEMMA UndisturbedFrom ==
  ASSUME TypeInv, [Next]_vars, Undisturbed'
  PROVE  /\ Undisturbed
         /\ \A c \in Cli : ~KillCli(c)
         /\ \A b \in Backend : ~Launch(b)
<1>1. kills \in Nat /\ kills' = 0 /\ \A m \in Manual : back'[m].pc = "none"
  BY DEF TypeInv, FilePart, Undisturbed, Is
<1>2. \A c \in Cli : ~KillCli(c)
  BY <1>1 DEF KillCli
<1>3. /\ \A m \in Manual : m \in Backend /\ m \notin Cli
      /\ back \in [Backend -> Process]
  BY DaemonConstants DEF Backend, TypeInv, BackPart
<1>4. \A b \in Backend : ~Launch(b)
  <2> SUFFICES ASSUME NEW b \in Backend, Launch(b) PROVE FALSE
    OBVIOUS
  <2>1. b \in Manual /\ back'[b].pc = "boot"
    BY <1>3 DEF Launch, Moves, Process
  <2> QED
    BY <1>1, <2>1
<1>5. kills = 0
  <2>1. CASE \E c \in Cli : Run(c) \/ CliStep(c)
    <3>1. kills' = kills
      BY <2>1, LooksTyped, FileWrites DEF Looks, CliStep, Only, limits, SpawnDaemon,
         Catch, StopSignal, StopGrace
    <3> QED
      BY <1>1, <3>1
  <2>2. CASE \E b \in Backend : BackStep(b) \/ CrashBackend(b)
    <3>1. kills' = kills
      BY <2>2, BackFields DEF limits, CrashBackend
    <3> QED
      BY <1>1, <3>1
  <2>3. CASE UNCHANGED vars
    BY <1>1, <2>3 DEF vars, limits
  <2> QED
    BY <1>2, <1>4, <2>1, <2>2, <2>3 DEF Next
<1>6. ASSUME NEW m \in Manual, back[m].pc # "none" PROVE FALSE
  <2>1. back'[m] # back[m]
    BY <1>1, <1>6
  <2>2. \A b \in Backend : Dies(b) \/ Moves(b, "close") => back' = back \/ m # b
    BY <1>1, <1>3, DyingFields
  <2>3. \A b \in Backend : ~Dies(b) /\ ~Moves(b, "close")
    BY <1>3, <2>1, <2>2, DyingFields
  <2>4. \A c \in Cli : Run(c) \/ CliStep(c) => FALSE
    BY <1>3, <2>1, <2>3, LooksTyped, FileWrites, SpawnFields, SignalsTyped
    DEF Looks, CliStep, Only
  <2>5. \A b \in Backend : BackStep(b) => FALSE
    BY <1>1, <1>3, <2>1, BackFields
  <2> QED
    BY <1>2, <1>4, <2>1, <2>3, <2>4, <2>5 DEF Next, CrashBackend, vars
<1> QED
  BY <1>2, <1>4, <1>5, <1>6 DEF Undisturbed, Is

(* A step of a backend is that of the living one, one of an invocation     *)
(* that of the active one or the start of one.                             *)
LEMMA OneMoves ==
  ASSUME TypeInv, ~Overlap, [Next]_vars, Undisturbed', NEW c \in Cli
  PROVE  /\ Run(c) => /\ \A d \in Cli : ~Active(d)
                      /\ cli'[c].pc \in {"reuse", "stop"}
                      /\ cli[c].pc = "idle" /\ Apart(c) /\ Only
         /\ CliStep(c) => Active(c)
<1>1. CliPart
  BY DEF TypeInv
<1>2. Run(c) => /\ \A d \in Cli : ~Active(d)
                /\ cli'[c].pc \in {"reuse", "stop"}
                /\ cli[c].pc = "idle" /\ Apart(c) /\ Only
  BY <1>1, GotoFields DEF Run, At
<1>3. CliStep(c) => Active(c)
  BY DEF CliStep, ReadRecord, CheckFile, RemoveState, Probe, Ready, Stale, Acquire,
     WriteSentinel, SpawnDaemon, ReadExisting, RenameRecord, Live, ChildAlive,
     Confirm, Catch, Follow, Loop, MoveAway, Judge, StopRead, StopCheck,
     StopSignal, StopGrace, At, Active, Over
<1> QED
  BY <1>2, <1>3

(* An invocation that brings up its backend.                               *)
LEMMA BringingFields ==
  ASSUME TypeInv, NEW c \in Cli, CliStep(c), cli[c].pc \in Bringing
  PROVE  /\ UNCHANGED <<back, written, claim, limits>> /\ Apart(c)
         /\ cli'[c].spawned = cli[c].spawned
         /\ \/ /\ \/ cli[c].pc = "write" /\ cli'[c].pc = "rename"
                  \/ cli[c].pc = "rewrite" /\ cli'[c].pc = "rerename"
               /\ file' = file /\ cli'[c].rec.pid = c
               /\ cli'[c].rec.token = c \/ cli'[c].rec.token = file.token
            \/ /\ \/ cli[c].pc = "rename" /\ cli'[c].pc = "live"
                  \/ cli[c].pc = "rerename" /\ cli'[c].pc = "recheck"
               /\ file' = cli[c].rec
            \/ /\ cli[c].pc = "live" /\ cli'[c].pc = "alive" /\ DefaultAnswers
               /\ file' = file
            \/ /\ cli[c].pc = "live" /\ cli'[c].pc = "catch"
               /\ ~Timely \/ ~Alive(c)
               /\ file' = file
            \/ /\ cli[c].pc = "alive" /\ file' = file
               /\ cli'[c].pc = IF Alive(c) THEN "confirm" ELSE "catch"
            \/ /\ cli[c].pc = "confirm" /\ file' = file
               /\ cli'[c].pc = IF file.pid = c THEN "ok" ELSE "rewrite"
            \/ /\ cli[c].pc = "recheck" /\ file' = file
               /\ cli'[c].pc = IF file.pid = c THEN "ok" ELSE "catch"
<1>1. CliPart /\ file \in Record
  BY DEF TypeInv, FilePart
<1>2. ReadExisting(c) \/ RenameRecord(c) \/ Live(c) \/ ChildAlive(c) \/ Confirm(c)
  BY DEF CliStep, ReadRecord, CheckFile, RemoveState, Probe, Ready, Stale, Acquire,
     WriteSentinel, SpawnDaemon, Catch, Follow, Loop, MoveAway, Judge, StopRead,
     StopCheck, StopSignal, StopGrace, At, Bringing
<1>3. CASE ReadExisting(c)
  <2> DEFINE r == IF file.pid = c
                  THEN [file EXCEPT !.token = IF @ = Nobody THEN c ELSE @]
                  ELSE [pid |-> c, token |-> c, socket |-> FALSE]
  <2>1. r.pid = c /\ (r.token = c \/ r.token = file.token)
    BY <1>1 DEF Record
  <2>2. \/ cli[c].pc = "write" /\ With(c, "rename", r)
        \/ cli[c].pc = "rewrite" /\ With(c, "rerename", r)
    BY <1>3 DEF ReadExisting, At
  <2>3. UNCHANGED <<file, back, written, claim, limits>>
    BY <1>3 DEF ReadExisting, Only
  <2> HIDE DEF r
  <2> QED
    BY <1>1, <2>1, <2>2, <2>3, WithFields
<1>4. CASE RenameRecord(c)
  <2>1. \/ cli[c].pc = "rename" /\ Goto(c, "live")
        \/ cli[c].pc = "rerename" /\ Goto(c, "recheck")
    BY <1>4 DEF RenameRecord, At
  <2>2. file' = cli[c].rec /\ UNCHANGED <<back, written, claim, limits>>
    BY <1>4 DEF RenameRecord
  <2> QED
    BY <1>1, <2>1, <2>2, GotoFields
<1>5. CASE Live(c)
  <2>1. /\ cli[c].pc = "live" /\ UNCHANGED <<file, back, written, claim, limits>>
        /\ \/ DefaultAnswers /\ Goto(c, "alive")
           \/ (~Timely \/ ~Alive(c)) /\ Goto(c, "catch")
    BY <1>5 DEF Live, At, Only
  <2> QED
    BY <1>1, <2>1, GotoFields
<1>6. CASE ChildAlive(c)
  <2>1. /\ cli[c].pc = "alive" /\ UNCHANGED <<file, back, written, claim, limits>>
        /\ Goto(c, IF Alive(c) THEN "confirm" ELSE "catch")
    BY <1>6 DEF ChildAlive, At, Only
  <2> QED
    BY <1>1, <2>1, GotoFields
<1>7. CASE Confirm(c)
  <2>1. /\ UNCHANGED <<file, back, written, claim, limits>>
        /\ \/ /\ cli[c].pc = "confirm"
              /\ Goto(c, IF file.pid = c THEN "ok" ELSE "rewrite")
           \/ /\ cli[c].pc = "recheck"
              /\ Goto(c, IF file.pid = c THEN "ok" ELSE "catch")
    BY <1>7 DEF Confirm, At, Only
  <2> QED
    BY <1>1, <2>1, GotoFields
<1> QED
  BY <1>2, <1>3, <1>4, <1>5, <1>6, <1>7

(* An invocation that may find a backend of another.                       *)
Visiting == {"reuse", "await", "stop", "signal", "grace"}

LEMMA VisitingFields ==
  ASSUME TypeInv, NEW c \in Cli, CliStep(c), cli[c].pc \in Visiting
  PROVE  /\ UNCHANGED <<file, written, claim, limits>> /\ Apart(c)
         /\ cli'[c].spawned = cli[c].spawned
         /\ \/ /\ cli[c].pc = "reuse" /\ back' = back
               /\ \/ Valid(file) /\ cli'[c].pc = "await" /\ cli'[c].rec = file
                  \/ ~Valid(file) /\ cli'[c].pc = "check"
            \/ /\ cli[c].pc = "await" /\ back' = back
               /\ \/ cli'[c].pc = "ok"
                  \/ /\ cli'[c].pc = "release" /\ cli'[c].after = "probe"
                     /\ \/ ~Alive(cli[c].rec.pid) \/ ~Timely
                        \/ back[cli[c].rec.pid].pc \in Closing \ {"close"}
            \/ /\ cli[c].pc = "stop" /\ back' = back
               /\ \/ /\ Valid(file) /\ Alive(file.pid)
                     /\ cli'[c].pc = "signal" /\ cli'[c].rec = file
                  \/ /\ ~(Valid(file) /\ Alive(file.pid))
                     /\ cli'[c].pc = "stop check"
            \/ /\ cli[c].pc = "signal" /\ cli[c].rec.pid \in Backend
               /\ cli'[c].rec = cli[c].rec
               /\ \/ ~Alive(cli[c].rec.pid) /\ cli'[c].pc = "release" /\ back' = back
                     /\ cli'[c].after = "ok"
                  \/ /\ back[cli[c].rec.pid].pc \in Closing
                     /\ cli'[c].pc = "grace" /\ back' = back
                  \/ /\ Is(cli[c].rec.pid, "up") /\ Moves(cli[c].rec.pid, "close")
                     /\ cli'[c].pc = "grace"
                  \/ Dies(cli[c].rec.pid) /\ cli'[c].pc = "grace"
            \/ /\ cli[c].pc = "grace" /\ cli[c].rec.pid \in Backend
               /\ cli'[c].pc = "release" /\ cli'[c].after = "ok"
               /\ cli'[c].rec = cli[c].rec
               /\ \/ ~Alive(cli[c].rec.pid) /\ back' = back
                  \/ Dies(cli[c].rec.pid)
<1>1. CliPart /\ file \in Record /\ cli[c] \in Invocation
  BY DEF TypeInv, FilePart, CliPart
<1>2. \/ ReadRecord(c) \/ Ready(c, "await") \/ Stale(c, "await", "probe")
      \/ StopRead(c) \/ StopSignal(c) \/ StopGrace(c)
  BY DEF CliStep, CheckFile, RemoveState, Probe, Ready, Stale, Acquire,
     WriteSentinel, SpawnDaemon, Catch, Follow, Loop, MoveAway, Judge,
     StopCheck, ReadExisting, RenameRecord, Live, ChildAlive, Confirm, At, Visiting
<1>3. CASE ReadRecord(c)
  <2>1. /\ cli[c].pc = "reuse" /\ UNCHANGED <<file, back, written, claim, limits>>
        /\ \/ Valid(file) /\ With(c, "await", file)
           \/ ~Valid(file) /\ Goto(c, "check")
    BY <1>3 DEF ReadRecord, At, Only
  <2> QED
    BY <1>1, <2>1, WithFields, GotoFields
<1>4. CASE Ready(c, "await")
  <2>1. /\ cli[c].pc = "await" /\ UNCHANGED <<file, back, written, claim, limits>>
        /\ Goto(c, "ok")
    BY <1>4 DEF Ready, At, Only
  <2> QED
    BY <1>1, <2>1, GotoFields
<1>5. CASE Stale(c, "await", "probe")
  <2>1. /\ cli[c].pc = "await" /\ UNCHANGED <<file, back, written, claim, limits>>
        /\ Release(c, cli[c].rec, "probe")
        /\ \/ ~Alive(cli[c].rec.pid) \/ ~Timely
           \/ back[cli[c].rec.pid].pc \in Closing \ {"close"}
    BY <1>5 DEF Stale, At, Only
  <2> QED
    BY <1>1, <2>1, ReleaseFields
<1>6. CASE StopRead(c)
  <2>1. /\ cli[c].pc = "stop" /\ UNCHANGED <<file, back, written, claim, limits>>
        /\ \/ Valid(file) /\ Alive(file.pid) /\ With(c, "signal", file)
           \/ Valid(file) /\ ~Alive(file.pid) /\ With(c, "stop check", file)
           \/ ~Valid(file) /\ Goto(c, "stop check")
    BY <1>6 DEF StopRead, At, Only
  <2>2. /\ Apart(c) /\ cli'[c].spawned = cli[c].spawned
        /\ \/ /\ Valid(file) /\ Alive(file.pid)
              /\ cli'[c].pc = "signal" /\ cli'[c].rec = file
           \/ /\ ~(Valid(file) /\ Alive(file.pid))
              /\ cli'[c].pc = "stop check"
    <3>1. CASE Valid(file) /\ Alive(file.pid) /\ With(c, "signal", file)
      BY <1>1, <3>1, WithFields
    <3>2. CASE Valid(file) /\ ~Alive(file.pid) /\ With(c, "stop check", file)
      BY <1>1, <3>2, WithFields
    <3>3. CASE ~Valid(file) /\ Goto(c, "stop check")
      BY <1>1, <3>3, GotoFields
    <3> QED
      BY <2>1, <3>1, <3>2, <3>3
  <2> QED
    BY <2>1, <2>2
<1>7. CASE StopSignal(c)
  <2>1. cli[c].pc = "signal" /\ UNCHANGED <<file, written, claim, limits>>
    BY <1>7 DEF StopSignal, At
  <2>2. cli[c].rec.pid \in Backend
    BY <1>1, <2>1 DEF Invocation, Named, Valid
  <2>3. \/ ~Alive(cli[c].rec.pid) /\ Release(c, cli[c].rec, "ok") /\ back' = back
        \/ back[cli[c].rec.pid].pc \in Closing /\ Goto(c, "grace") /\ back' = back
        \/ /\ Is(cli[c].rec.pid, "up") /\ Moves(cli[c].rec.pid, "close")
           /\ Goto(c, "grace")
        \/ Dies(cli[c].rec.pid) /\ Goto(c, "grace")
    BY <1>7, Zenon DEF StopSignal
  <2> QED
    BY <1>1, <2>1, <2>2, <2>3, ReleaseFields, GotoFields
<1>8. CASE StopGrace(c)
  <2>1. cli[c].pc = "grace" /\ UNCHANGED <<file, written, claim, limits>>
    BY <1>8 DEF StopGrace, At
  <2>2. cli[c].rec.pid \in Backend
    BY <1>1, <2>1 DEF Invocation, Named, Valid
  <2>3. /\ Release(c, cli[c].rec, "ok")
        /\ \/ ~Alive(cli[c].rec.pid) /\ back' = back
           \/ Dies(cli[c].rec.pid)
    BY <1>8 DEF StopGrace
  <2> QED
    BY <1>1, <2>1, <2>2, <2>3, ReleaseFields
<1> QED
  BY <1>2, <1>3, <1>4, <1>5, <1>6, <1>7, <1>8

(* The other steps of an invocation.                                       *)
LEMMA OtherFields ==
  ASSUME TypeInv, NEW c \in Cli, CliStep(c), cli[c].pc \notin Visiting \cup Bringing
  PROVE  /\ Apart(c) /\ UNCHANGED <<claim, limits>>
         /\ \/ SpawnDaemon(c)
            \/ /\ cli'[c].spawned = cli[c].spawned
               /\ \/ /\ cli[c].pc = "check" /\ UNCHANGED <<file, written, back>>
                     /\ cli'[c].pc = IF file = NoFile \/ IsLock(file)
                                     THEN "probe" ELSE "remove"
                  \/ /\ cli[c].pc = "probe" /\ UNCHANGED <<file, written, back>>
                     /\ \/ cli'[c].pc = "ok"
                        \/ /\ cli'[c].pc = "acquire"
                           /\ ~DefaultAnswers \/ ~Timely
                  \/ /\ cli[c].pc = "acquire" /\ UNCHANGED <<written, back>>
                     /\ \/ /\ file = NoFile /\ cli'[c].pc = "sentinel"
                           /\ file'.pid = Sentinel /\ file'.token = c
                        \/ /\ file # NoFile /\ cli'[c].pc = "follow" /\ file' = file
                  \/ /\ cli[c].pc = "sentinel" /\ cli'[c].pc = "spawn"
                     /\ written' = written \cup {c} /\ UNCHANGED <<file, back>>
                  \/ /\ cli[c].pc = "catch" /\ cli'[c].pc = "release"
                     /\ UNCHANGED <<file, written>>
                     /\ cli'[c].after = "failed" /\ cli'[c].rec.token = c
                     /\ \/ back' = back /\ ~(cli[c].spawned /\ Alive(c))
                        \/ Dies(c) /\ Alive(c)
                  \/ /\ cli[c].pc = "stop check" /\ UNCHANGED <<file, written, back>>
                     /\ \/ cli'[c].pc = "ok"
                        \/ cli'[c].pc = "release" /\ cli'[c].after = "ok"
                  \/ /\ cli[c].pc \in {"remove", "follow", "follow await", "loop"}
                     /\ UNCHANGED <<file, written, back>>
                     /\ cli'[c].pc \notin Bringing \cup {"sentinel", "spawn", "acquire"}
                  \/ /\ MoveAway(c) \/ Judge(c)
                     /\ UNCHANGED <<written, back>>
<1>1. CliPart /\ file \in Record
  BY DEF TypeInv, FilePart
<1>2. \/ CheckFile(c) \/ RemoveState(c) \/ Probe(c) \/ Acquire(c) \/ WriteSentinel(c)
      \/ SpawnDaemon(c) \/ Catch(c) \/ Follow(c) \/ Loop(c) \/ MoveAway(c)
      \/ Judge(c) \/ StopCheck(c) \/ Ready(c, "follow await")
      \/ Stale(c, "follow await", "loop")
  BY DEF CliStep, ReadRecord, Ready, Stale, StopRead, StopSignal, StopGrace,
     ReadExisting, RenameRecord, Live, ChildAlive, Confirm, At, Visiting, Bringing
<1>3. CASE CheckFile(c)
  <2>1. /\ cli[c].pc = "check" /\ UNCHANGED <<file, back, written, claim, limits>>
        /\ Goto(c, IF file = NoFile \/ IsLock(file) THEN "probe" ELSE "remove")
    BY <1>3 DEF CheckFile, At, Only
  <2> QED
    BY <1>1, <2>1, GotoFields
<1>4. CASE Probe(c)
  <2>1. /\ cli[c].pc = "probe" /\ UNCHANGED <<file, back, written, claim, limits>>
        /\ Goto(c, "ok") \/ (Goto(c, "acquire") /\ (~DefaultAnswers \/ ~Timely))
    BY <1>4 DEF Probe, At, Only
  <2> QED
    BY <1>1, <2>1, GotoFields
<1>5. CASE Acquire(c)
  <2>1. /\ cli[c].pc = "acquire" /\ UNCHANGED <<back, written, claim, limits>>
        /\ \/ /\ file = NoFile /\ Goto(c, "sentinel")
              /\ file'.pid = Sentinel /\ file'.token = c
           \/ file # NoFile /\ Goto(c, "follow") /\ file' = file
    BY <1>5 DEF Acquire, At
  <2> QED
    BY <1>1, <2>1, GotoFields
<1>6. CASE WriteSentinel(c)
  <2>1. /\ cli[c].pc = "sentinel" /\ UNCHANGED <<back, file, claim, limits>>
        /\ written' = written \cup {c} /\ Goto(c, "spawn")
    BY <1>6 DEF WriteSentinel, At
  <2> QED
    BY <1>1, <2>1, GotoFields
<1>7. CASE Catch(c)
  <2>1. /\ cli[c].pc = "catch" /\ UNCHANGED <<file, written, claim, limits>>
        /\ \/ back' = back /\ ~(cli[c].spawned /\ Alive(c))
           \/ Dies(c) /\ Alive(c)
    BY <1>7 DEF Catch, At
  <2>2. PICK r : r.token = c /\ Release(c, r, "failed")
    BY <1>7 DEF Catch
  <2> QED
    BY <1>1, <2>1, <2>2, ReleaseFields
<1>8. CASE StopCheck(c)
  <2>1. cli[c].pc = "stop check" /\ UNCHANGED <<file, back, written, claim, limits>>
    BY <1>8 DEF StopCheck, At, Only
  <2>2. Goto(c, "ok") \/ \E r : Release(c, r, "ok")
    BY <1>8 DEF StopCheck
  <2> QED
    BY <1>1, <2>1, <2>2, GotoFields, ReleaseFields
<1>9. CASE RemoveState(c) \/ Follow(c) \/ Stale(c, "follow await", "loop")
  <2>1. /\ cli[c].pc \in {"remove", "follow", "follow await"}
        /\ UNCHANGED <<file, back, written, claim, limits>>
    BY <1>9 DEF RemoveState, Follow, Stale, At, Only
  <2>2. \/ \E r, after : Release(c, r, after)
        \/ With(c, "follow await", file)
    BY <1>9, Zenon DEF RemoveState, Follow, Stale
  <2>3. /\ Apart(c) /\ cli'[c].spawned = cli[c].spawned
        /\ cli'[c].pc \in {"release", "follow await"}
    BY <1>1, <2>2, WithFields, ReleaseFields
  <2> QED
    BY <2>1, <2>3 DEF Bringing
<1>10. CASE Ready(c, "follow await")
  <2>1. /\ cli[c].pc = "follow await" /\ Goto(c, "ok")
        /\ UNCHANGED <<file, back, written, claim, limits>>
    BY <1>10 DEF Ready, At, Only
  <2>2. Apart(c) /\ cli'[c].spawned = cli[c].spawned /\ cli'[c].pc = "ok"
    BY <1>1, <2>1, GotoFields
  <2> QED
    BY <2>1, <2>2 DEF Bringing
<1>11. CASE Loop(c)
  <2>1. cli[c].pc = "loop" /\ UNCHANGED <<file, back, written, claim, limits>>
    BY <1>11 DEF Loop, At, Only
  <2>2. CASE Goto(c, "contended")
    BY <1>1, <2>1, <2>2, GotoFields DEF Bringing
  <2>3. CASE cli' = [cli EXCEPT ![c].tries = @ + 1, ![c].pc = "reuse"]
    <3>1. cli'[c].pc = "reuse" /\ cli'[c].spawned = cli[c].spawned /\ Apart(c)
      BY <1>1, <2>3 DEF CliPart, Invocation, Local, Apart
    <3> QED
      BY <2>1, <3>1 DEF Bringing
  <2> QED
    BY <1>11, <2>2, <2>3 DEF Loop
<1>12. CASE MoveAway(c) \/ Judge(c)
  <2>1. UNCHANGED <<written, back, claim, limits>>
    BY <1>12 DEF MoveAway, Judge
  <2> QED
    BY <1>12, <2>1, ReleasingFields
<1>13. CASE SpawnDaemon(c)
  BY <1>13, SpawnFields DEF SpawnDaemon
<1> QED
  BY <1>2, <1>3, <1>4, <1>5, <1>6, <1>7, <1>8, <1>9, <1>10, <1>11, <1>12, <1>13

LEMMA StepApart ==
  ASSUME TypeInv, NEW c \in Cli, CliStep(c)
  PROVE  Apart(c)
BY BringingFields, VisitingFields, OtherFields

(* A backend that lives lived before or has just been spawned.             *)
LEMMA LivingFrom ==
  ASSUME TypeInv, [Next]_vars, Undisturbed', NEW b \in Backend, Alive(b)'
  PROVE  Alive(b) \/ (b \in Cli /\ SpawnDaemon(b) /\ cli'[b].pc = "write"
                       /\ back'[b].pc = "boot")
<1>1. back \in [Backend -> Process]
  BY DEF TypeInv, BackPart
<1> SUFFICES ASSUME ~Alive(b)
             PROVE  b \in Cli /\ SpawnDaemon(b) /\ cli'[b].pc = "write"
                    /\ back'[b].pc = "boot"
  OBVIOUS
<1>2. back'[b] # back[b]
  BY DEF Alive
<1>3. \A d \in Backend : ~BackStep(d)
  BY <1>2, BackFields
<1>4. \A d \in Backend : ~CrashBackend(d)
  <2> SUFFICES ASSUME NEW d \in Backend, CrashBackend(d) PROVE FALSE
    OBVIOUS
  <2>1. Dies(d)
    BY DEF CrashBackend
  <2> QED
    BY <1>2, <2>1, DyingFields DEF Alive
<1>5. \A c \in Cli : ~Run(c)
  BY <1>2 DEF Run, Only
<1>6. PICK c \in Cli : CliStep(c)
  BY <1>2, <1>3, <1>4, <1>5, UndisturbedFrom DEF Next, vars
<1>7. cli[c].pc \notin Bringing
  BY <1>2, <1>6, BringingFields
<1>8. cli[c].pc \notin Visiting
  <2> SUFFICES ASSUME cli[c].pc \in Visiting PROVE FALSE
    OBVIOUS
  <2>1. /\ cli[c].rec.pid \in Backend
        /\ \/ Is(cli[c].rec.pid, "up") /\ Moves(cli[c].rec.pid, "close")
           \/ Dies(cli[c].rec.pid)
    BY <1>2, <1>6, VisitingFields
  <2> QED
    BY <1>2, <2>1, DyingFields DEF Alive, Is
<1>9. SpawnDaemon(c)
  <2>1. \/ SpawnDaemon(c) \/ back' = back \/ Dies(c)
    BY <1>6, <1>7, <1>8, OtherFields
  <2>2. c \in Backend
    BY RecordFacts
  <2> QED
    BY <1>2, <2>1, <2>2, DyingFields DEF Alive
<1> QED
  BY <1>2, <1>9, SpawnFields

LEMMA AloneKept ==
  ASSUME TypeInv, ~Overlap, Timely, SequelInv, [Next]_vars, Undisturbed'
  PROVE  Alone'
<1>1. Undisturbed /\ Alone /\ LockHeld /\ LivingKnown
  BY UndisturbedFrom DEF SequelInv
<1>2. ASSUME NEW c \in Cli, NEW d \in Cli, Active(c)', Active(d)' PROVE c = d
  <2>1. \A e \in Cli : Active(e)' => Active(e) \/ Run(e)
    <3> SUFFICES ASSUME NEW e \in Cli, Active(e)', ~Active(e), ~Run(e) PROVE FALSE
      OBVIOUS
    <3>1. cli'[e] # cli[e]
      BY DEF Active
    <3>2. PICK f \in Cli : Run(f) \/ CliStep(f)
      BY <3>1, UndisturbedFrom, BackFields DEF Next, vars, CrashBackend
    <3>3. f = e
      BY <3>1, <3>2, OneMoves, StepApart DEF Apart
    <3> QED
      BY <3>2, <3>3, OneMoves
  <2>2. CASE Active(c) /\ Active(d)
    BY <1>1, <2>2 DEF Alone
  <2>3. ASSUME NEW e \in Cli, NEW f \in Cli, Run(e), Active(f)' PROVE f = e
    <3>1. ~Active(f) /\ Apart(e)
      BY <2>3, OneMoves
    <3> QED
      BY <2>3, <3>1 DEF Apart, Active
  <2> QED
    BY <1>2, <2>1, <2>2, <2>3
<1>3. ASSUME NEW b \in Backend, NEW d \in Backend, Alive(b)', Alive(d)' PROVE b = d
  <2>1. ASSUME NEW e \in Backend, e \in Cli, SpawnDaemon(e), NEW f \in Backend, Alive(f)
        PROVE  FALSE
    <3>1. cli[e].pc = "spawn"
      BY <2>1, SpawnFields
    <3>2. KnownLive(f)
      BY <1>1, <2>1 DEF LivingKnown
    <3>3. Active(e) /\ f # e
      BY <3>1, <3>2 DEF KnownLive, Bringing, Active, Over
    <3>4. cli[e].pc \in {"reuse", "stop", "await", "signal", "grace"}
      BY <2>1, <3>2, <3>3 DEF KnownLive
    <3> QED
      BY <3>1, <3>4
  <2>2. ASSUME NEW e \in Backend, e \in Cli, SpawnDaemon(e),
               NEW f \in Backend, f \in Cli, SpawnDaemon(f)
        PROVE  e = f
    <3>1. Active(e) /\ Active(f)
      BY <2>2, SpawnFields DEF Active, Over
    <3> QED
      BY <1>1, <2>2, <3>1 DEF Alone
  <2> QED
    BY <1>1, <1>3, <2>1, <2>2, LivingFrom DEF Alone
<1> QED
  BY <1>2, <1>3 DEF Alone

(* While the lock is held for a spawn nobody else moves.                   *)
LEMMA LockKept ==
  ASSUME TypeInv, ~Overlap, Timely, SequelInv, [Next]_vars, Undisturbed'
  PROVE  LockHeld'
<1>1. Undisturbed /\ Alone /\ LockHeld /\ LivingKnown
  BY UndisturbedFrom DEF SequelInv
<1> SUFFICES ASSUME NEW c \in Cli, cli'[c].pc \in {"sentinel", "spawn"}
             PROVE  /\ file'.pid = Sentinel /\ file'.token = c
                    /\ cli'[c].pc = "spawn" => c \in written'
  BY DEF LockHeld, At
<1>2. CASE cli'[c] = cli[c]
  <2>1. Active(c) /\ cli[c].pc \notin Visiting \cup Bringing \cup {"ok"}
    BY <1>2 DEF Active, Over, Visiting, Bringing
  <2>2. NoneAlive
    BY <1>1, <2>1 DEF LivingKnown, KnownLive, NoneAlive, Visiting
  <2>3. \A d \in Cli : ~Run(d) /\ (CliStep(d) => d = c)
    BY <1>1, <2>1, OneMoves DEF Alone
  <2>4. \A b \in Backend : ~BackStep(b) /\ ~CrashBackend(b)
    BY <2>2, BackFields DEF NoneAlive, CrashBackend
  <2>5. CliStep(c) => FALSE
    BY <1>2, <2>1, OtherFields, SpawnFields, ReleasingFields
  <2>6. UNCHANGED vars
    BY <2>3, <2>4, <2>5, UndisturbedFrom DEF Next
  <2> QED
    BY <1>1, <1>2, <2>6 DEF LockHeld, vars, At
<1>3. CASE cli'[c] # cli[c]
  <2>1. PICK d \in Cli : Run(d) \/ CliStep(d)
    BY <1>3, UndisturbedFrom, BackFields DEF Next, vars, CrashBackend
  <2>2. d = c
    BY <1>3, <2>1, OneMoves, StepApart DEF Apart
  <2>3. CliStep(c) /\ cli[c].pc \notin Visiting \cup Bringing
    BY <2>1, <2>2, OneMoves, VisitingFields, BringingFields
  <2>4. \/ /\ cli[c].pc = "acquire" /\ cli'[c].pc = "sentinel"
           /\ file'.pid = Sentinel /\ file'.token = c
        \/ /\ cli[c].pc = "sentinel" /\ cli'[c].pc = "spawn"
           /\ written' = written \cup {c} /\ file' = file
        \/ MoveAway(c) \/ Judge(c)
    BY <2>3, OtherFields, SpawnFields
  <2>5. ~MoveAway(c) /\ ~Judge(c)
    <3>1. cli[c] \in Invocation
      BY DEF TypeInv, CliPart
    <3> QED
      BY <3>1, ReleasingFields DEF Invocation
  <2> QED
    BY <1>1, <2>4, <2>5 DEF LockHeld, At
<1> QED
  BY <1>2, <1>3

(* What is known of a living backend stays known, by whose step it is.     *)
LEMMA KnownBringing ==
  ASSUME TypeInv, Timely, Alone, LivingKnown, NEW b \in Backend, Alive(b),
         b \in Cli, CliStep(b)
  PROVE  KnownLive(b)'
<1>1. KnownLive(b) /\ Active(b) /\ cli[b].pc \in Bringing
  <2>1. Active(b)
    BY DEF CliStep, ReadRecord, CheckFile, RemoveState, Probe, Ready, Stale, Acquire,
       WriteSentinel, SpawnDaemon, ReadExisting, RenameRecord, Live, ChildAlive,
       Confirm, Catch, Follow, Loop, MoveAway, Judge, StopRead, StopCheck,
       StopSignal, StopGrace, At, Active, Over
  <2>2. KnownLive(b)
    BY DEF LivingKnown
  <2> QED
    BY <2>1, <2>2 DEF KnownLive, Active, Over
<1>2. \A c \in Cli \ {b} : ~Active(c) /\ ~Active(c)'
  BY <1>1, BringingFields DEF Alone, Apart, Active
<1>3. back[b].pc \notin Closing
  BY <1>1, <1>2 DEF KnownLive, At, Active, Over
<1>4. /\ file.token = b
      /\ \/ file.pid = b
         \/ /\ file.pid = Sentinel /\ b \in written
            /\ cli[b].pc \in {"write", "rename"}
      /\ Is(b, "boot") => cli[b].pc \in {"write", "rename", "live"}
      /\ Is(b, "replace") => back[b].token = b
      /\ cli[b].pc \in {"rename", "rerename"} =>
           cli[b].rec.pid = b /\ cli[b].rec.token = b
  BY <1>1, <1>3 DEF KnownLive
<1>5. back' = back /\ written' = written
  BY <1>1, BringingFields
<1>6. /\ cli'[b].pc \in Bringing \cup {"ok"}
      /\ file'.token = b
      /\ \/ file'.pid = b
         \/ /\ file'.pid = Sentinel /\ b \in written
            /\ cli'[b].pc \in {"write", "rename"}
      /\ Is(b, "boot") => cli'[b].pc \in {"write", "rename", "live"}
      /\ cli'[b].pc \in {"rename", "rerename"} =>
           cli'[b].rec.pid = b /\ cli'[b].rec.token = b
  <2>1. DefaultAnswers => ~Is(b, "boot")
    BY DEF DefaultAnswers, Serving, Alone, Alive, Is
  <2> QED
    BY <1>1, <1>4, <2>1, BringingFields DEF Bringing
<1> QED
  BY <1>2, <1>3, <1>4, <1>5, <1>6 DEF KnownLive, Is

LEMMA KnownVisiting ==
  ASSUME TypeInv, Timely, Alone, LivingKnown, NEW b \in Backend, Alive(b), Alive(b)',
         NEW c \in Cli, c # b, CliStep(c), Active(c)
  PROVE  KnownLive(b)'
<1>1. KnownLive(b)
  BY DEF LivingKnown
<1>2. /\ b \in Cli /\ cli[b].pc = "ok" /\ cli'[b] = cli[b]
      /\ \A d \in Cli \ {c} : ~Active(d) /\ cli'[d] = cli[d]
  BY <1>1, StepApart DEF KnownLive, Alone, Active, Over, Bringing, Apart
<1>3. /\ cli[c].pc \in Visiting
      /\ cli[c].pc \in {"await", "signal", "grace"} => cli[c].rec.pid = b
  BY <1>1 DEF KnownLive, Visiting
<1>4. back[b].pc \in Closing => cli[c].pc = "grace"
  BY <1>1, <1>2 DEF KnownLive, At, Active, Over
<1>5. back[b].pc \notin Closing => file.token = b /\ file.pid = b
  BY <1>1, <1>2 DEF KnownLive
<1>6. file' = file /\ written' = written
  BY <1>3, VisitingFields
<1>7. cli[c].pc # "grace"
  <2> SUFFICES ASSUME cli[c].pc = "grace" PROVE FALSE
    OBVIOUS
  <2>1. Dies(b)
    BY <1>3, VisitingFields
  <2> QED
    BY <2>1, DyingFields DEF Alive
<1>8. Valid(file) /\ file.pid = b
  BY <1>4, <1>5, <1>7 DEF Valid
<1>9. /\ \/ cli'[c].pc = "ok"
         \/ cli'[c].pc \in {"await", "signal", "grace"} /\ cli'[c].rec.pid = b
      /\ \/ back'[b] = back[b]
         \/ cli'[c].pc = "grace" /\ back'[b].pc = "close"
  <2>1. ~Dies(b)
    BY DyingFields DEF Alive
  <2>2. Moves(b, "close") => back'[b].pc = "close"
    BY DyingFields
  <2>3. back[b].pc \notin Closing
    BY <1>4, <1>7
  <2> QED
    BY <1>3, <1>7, <1>8, <2>1, <2>2, <2>3, VisitingFields
<1>10. ~Is(b, "boot") /\ (Is(b, "replace") => back[b].token = b)
  BY <1>1, <1>2 DEF KnownLive
<1>11. \A d \in Cli \ {b} :
          \/ ~Active(d)' \/ cli'[d].pc \in {"reuse", "stop"}
          \/ cli'[d].pc \in {"await", "signal", "grace"} /\ cli'[d].rec.pid = b
  BY <1>2, <1>9 DEF Active, Over
<1>12. back'[b].pc \in Closing => \E d \in Cli \ {b} : cli'[d].pc = "grace"
  BY <1>4, <1>7, <1>9
<1>13. ~Is(b, "boot")' /\ (Is(b, "replace")' => back'[b].token = b)
  BY <1>9, <1>10 DEF Is
<1>14. file'.token = b /\ file'.pid = b
  BY <1>4, <1>5, <1>6, <1>7
<1>15. cli'[b].pc = "ok"
  BY <1>2
<1> QED
  BY <1>2, <1>11, <1>12, <1>13, <1>14, <1>15 DEF KnownLive, At

LEMMA KnownBack ==
  ASSUME TypeInv, Alone, LivingKnown, NEW b \in Backend, BackStep(b), Alive(b)'
  PROVE  KnownLive(b)'
<1>1. Alive(b) /\ KnownLive(b) /\ cli' = cli /\ written' = written
  BY BackFields DEF LivingKnown
<1>2. CASE back[b].pc \in Closing
  <2>1. back'[b].pc \in Closing
    BY <1>2, BackFields DEF Closing, Alive
  <2> QED
    BY <1>1, <1>2, <2>1 DEF KnownLive, Is, Closing, At, Active
<1>3. CASE back[b].pc \notin Closing
  <2>1. ~Torn(file) /\ file.token = b
    BY <1>1, <1>3, DaemonConstants DEF KnownLive, Torn
  <2>2. /\ back'[b].pc \notin Closing \cup {"boot"}
        /\ back'[b].pc = "replace" => back'[b].token = b
        /\ file' = file \/ (file'.pid = b /\ file'.token = b)
    BY <1>1, <1>3, <2>1, BackFields DEF KnownLive, Is, Closing, Alive
  <2> QED
    BY <1>1, <1>3, <2>1, <2>2 DEF KnownLive, Is, At, Active
<1> QED
  BY <1>2, <1>3

LEMMA LivingKept ==
  ASSUME TypeInv, ~Overlap, Timely, SequelInv, [Next]_vars, Undisturbed'
  PROVE  LivingKnown'
<1>1. Undisturbed /\ Alone /\ LockHeld /\ LivingKnown
  BY UndisturbedFrom DEF SequelInv
<1> SUFFICES ASSUME NEW b \in Backend, Alive(b)' PROVE KnownLive(b)'
  BY DEF LivingKnown
<1>2. CASE ~Alive(b)
  <2>1. /\ b \in Cli /\ cli'[b].pc = "write" /\ back'[b].pc = "boot"
        /\ cli[b].pc = "spawn" /\ Apart(b) /\ UNCHANGED <<file, written>>
    BY <1>2, LivingFrom, SpawnFields
  <2>2. \A c \in Cli \ {b} : ~Active(c)'
    BY <1>1, <2>1 DEF Alone, Active, Over, Apart
  <2>3. file.pid = Sentinel /\ file.token = b /\ b \in written
    BY <1>1, <2>1 DEF LockHeld, At
  <2> QED
    BY <2>1, <2>2, <2>3 DEF KnownLive, Bringing, Is, Closing
<1>3. CASE Alive(b)
  <2>1. KnownLive(b)
    BY <1>1, <1>3 DEF LivingKnown
  <2>2. CASE UNCHANGED vars
    BY <2>1, <2>2 DEF vars, KnownLive, Is, At, Active
  <2>3. ASSUME NEW c \in Cli, Run(c) PROVE KnownLive(b)'
    <3>1. c # b /\ cli'[c].pc \in {"reuse", "stop"} /\ Apart(c) /\ Only
      BY <2>1, <2>3, OneMoves DEF KnownLive, Bringing
    <3>2. cli'[b] = cli[b] /\ b \in Cli
      BY <2>1, <3>1 DEF KnownLive, Apart
    <3>3. \A d \in Cli \ {b} : ~Active(d)' \/ cli'[d].pc \in {"reuse", "stop"}
      BY <2>3, <3>1, OneMoves DEF Apart, Active
    <3>4. back[b].pc \notin Closing
      BY <2>1, <2>3, OneMoves DEF KnownLive, At, Active, Over
    <3> QED
      BY <2>1, <3>1, <3>2, <3>3, <3>4 DEF KnownLive, Only, Is
  <2>4. ASSUME NEW c \in Cli, CliStep(c) PROVE KnownLive(b)'
    BY <1>1, <1>3, <2>4, KnownBringing, KnownVisiting, OneMoves
  <2>5. ASSUME NEW d \in Backend, BackStep(d) PROVE KnownLive(b)'
    BY <1>1, <1>3, <2>5, KnownBack, BackFields, DaemonConstants DEF Alone
  <2>6. ASSUME NEW d \in Backend, CrashBackend(d) PROVE KnownLive(b)'
    BY <1>1, <1>3, <2>6, DyingFields DEF Alone, CrashBackend, Alive
  <2> QED
    BY <2>2, <2>3, <2>4, <2>5, <2>6, UndisturbedFrom DEF Next
<1> QED
  BY <1>2, <1>3

LEMMA SequelInit == Init => SequelInv
<1> SUFFICES ASSUME Init PROVE SequelInv
  OBVIOUS
<1>1. /\ \A b \in Backend : ~Alive(b)
      /\ \A c \in Cli : cli[c].pc = "idle" /\ ~Active(c)
  BY DEF Init, Alive, Active
<1> QED
  BY <1>1 DEF SequelInv, Alone, LockHeld, LivingKnown

LEMMA SequelKept ==
  ~Overlap /\ Timely /\ TypeInv /\ SequelInv /\ [Next]_vars => SequelInv'
BY AloneKept, LockKept, LivingKept DEF SequelInv

(* Invocations that run one after the other and wait long enough leave no  *)
(* orphan (daemon.ts, outcome 5.3): when all is quiet the state file names *)
(* the backend that runs, whatever invocations and backends there were and *)
(* wherever backends crashed, unless an invocation was killed or a backend *)
(* was started by hand.                                                    *)
THEOREM NoneIsOrphaned ==
  ASSUME ~Overlap, Timely PROVE Spec => []NoOrphan
<1>1. Init => TypeInv /\ SequelInv
  BY InitTyped, SequelInit
<1>2. (TypeInv /\ SequelInv) /\ [Next]_vars => (TypeInv /\ SequelInv)'
  BY NextTyped, SequelKept
<1>3. TypeInv /\ SequelInv => NoOrphan
  <2> SUFFICES ASSUME TypeInv, SequelInv, Quiet, Undisturbed,
                      NEW c \in Cli, Is(c, "up")
               PROVE  file.pid = c
    BY DEF NoOrphan
  <2>1. c \in Backend /\ Alive(c) /\ ~Active(c)
    BY RecordFacts DEF Is, Alive, Quiet
  <2>2. KnownLive(c)
    BY <2>1 DEF SequelInv, LivingKnown
  <2> QED
    BY <2>1, <2>2 DEF KnownLive, Is, Closing, Active, Over
<1> QED
  BY <1>1, <1>2, <1>3, PTL DEF Spec

-----------------------------------------------------------------------------
(* What an invocation finds where no backend crashed.                      *)

LEMMA Found ==
  ASSUME Alone, LivingKnown, NEW b \in Backend, Alive(b), NEW c \in Cli, c # b,
         Active(c), cli[c].pc # "grace"
  PROVE  /\ cli[c].pc \in Visiting /\ b \in Cli
         /\ back[b].pc \notin Closing /\ file.pid = b /\ file.token = b
         /\ cli[c].pc \in {"await", "signal"} => cli[c].rec.pid = b
<1>1. KnownLive(b)
  BY DEF LivingKnown
<1>2. \A d \in Cli \ {c} : ~Active(d)
  BY DEF Alone
<1>3. back[b].pc \notin Closing
  BY <1>1, <1>2 DEF KnownLive, At, Active, Over
<1>4. cli[b].pc \notin {"write", "rename"}
  BY <1>1, <1>2 DEF KnownLive, Active, Over
<1> QED
  BY <1>1, <1>3, <1>4 DEF KnownLive, Visiting

LEMMA RivalDead ==
  ASSUME Alone, NEW b \in Backend, CleanClaim(b), back[b].pc = "weigh"
  PROVE  ~Alive(back[b].rival)
<1>1. back[b].rival \in Backend /\ back[b].rival # b /\ Alive(b)
  BY DEF CleanClaim, Alive
<1> QED
  BY <1>1 DEF Alone

(* A backend on its way up stays up: its port is free, and the claim that  *)
(* it may find is that of a dead one.                                      *)
LEMMA StaysUp ==
  ASSUME TypeInv, Alone, NEW b \in Backend, BackStep(b), CleanClaim(b),
         back[b].pc # "unclaim"
  PROVE  Alive(b)'
<1>1. ~Answers(b) \/ back[b].pc # "boot"
  BY BackFields DEF Answers, Serving, Alone, Alive
<1>2. back[b].pc = "weigh" => ~Alive(back[b].rival)
  BY RivalDead
<1>3. back[b].pc = "weigh" => back[b].tries = 1
  BY DEF CleanClaim
<1> QED
  BY <1>1, <1>2, <1>3, BackFields DEF Alive

LEMMA ClaimsClean ==
  ASSUME TypeInv, Alone, LivingKnown, Neat, [Next]_vars, Undisturbed', crashes' = 0,
         NEW b \in Backend
  PROVE  CleanClaim(b)'
<1>1. CleanClaim(b) /\ back[b] \in Process /\ claim \in Backend \cup {Nobody}
  BY DEF Neat, TypeInv, BackPart, FilePart
<1>2. ASSUME BackStep(b) PROVE CleanClaim(b)'
  <2>1. back[b].pc = "remove own" /\ file # NoFile => file.token = b
    <3> SUFFICES ASSUME back[b].pc = "remove own", file # NoFile PROVE file.token = b
      OBVIOUS
    <3>1. KnownLive(b)
      BY DEF LivingKnown, Alive
    <3>2. PICK c \in Cli : cli[c].pc = "grace" /\ cli[c].rec.pid = b
      BY <3>1 DEF KnownLive, Closing, At, Active, Over
    <3> QED
      BY <3>2 DEF Neat, NeatCli, Spotless
  <2>2. back[b].tries \in {1, 2}
    BY <1>1 DEF Process
  <2>3. back'[b].pc \notin {"none", "boot"}
    BY <1>2, BackFields
  <2>4. back'[b].pc = "claim" => claim' # b /\ (back'[b].tries = 2 => claim' = Nobody)
    <3> SUFFICES ASSUME back'[b].pc = "claim"
                 PROVE  claim' # b /\ (back'[b].tries = 2 => claim' = Nobody)
      OBVIOUS
    <3>1. \/ /\ back[b].pc = "boot" /\ claim' = claim
             /\ back'[b].tries = back[b].tries
          \/ back[b].pc = "weigh" /\ claim' = claim
      BY <1>2, BackFields
    <3>2. CASE back[b].pc = "boot"
      <4>1. back[b].tries = 1 /\ claim # b
        BY <1>1, <3>2 DEF CleanClaim
      <4> QED
        BY <3>1, <3>2, <4>1
    <3>3. CASE back[b].pc = "weigh"
      <4>1. claim = Nobody
        BY <1>1, <3>3 DEF CleanClaim
      <4> QED
        BY <3>1, <3>3, <4>1, DaemonConstants
    <3> QED
      BY <3>1, <3>2, <3>3
  <2>5. back'[b].pc = "weigh" => /\ back'[b].tries = 1 /\ claim' = Nobody
                                /\ back'[b].rival \in Backend \ {b}
    BY <1>1, <1>2, <2>2, BackFields DEF CleanClaim
  <2>6. back'[b].pc = "judge own" => back'[b].moved.token = b
    BY <1>2, <2>1, BackFields
  <2> QED
    BY <2>3, <2>4, <2>5, <2>6 DEF CleanClaim
<1>3. ASSUME NEW d \in Backend, d # b, BackStep(d) PROVE CleanClaim(b)'
  <2>1. Alive(d) /\ back'[b] = back[b] /\ claim' \in {claim, d, Nobody}
    <3>1. back[d].pc = "weigh" => ~Alive(back[d].rival)
      BY RivalDead DEF Neat
    <3> QED
      BY <1>3, <3>1, BackFields
  <2>2. ~Alive(b)
    BY <1>3, <2>1 DEF Alone
  <2> QED
    BY <1>1, <1>3, <2>1, <2>2, BackFields, DaemonConstants DEF CleanClaim, Alive
<1>4. ASSUME NEW c \in Cli, CliStep(c) PROVE CleanClaim(b)'
  <2>1. claim' = claim
    BY <1>4, BringingFields, VisitingFields, OtherFields
  <2>2. \/ back'[b] = back[b]
        \/ back'[b].pc \in {"dead", "close"}
        \/ SpawnDaemon(b) /\ b \in Cli /\ back'[b].pc = "boot"
             /\ back'[b].tries = back[b].tries /\ back[b].pc = "none"
    <3>1. CASE cli[c].pc \in Bringing
      BY <1>4, <3>1, BringingFields
    <3>2. CASE cli[c].pc \in Visiting
      <4>1. \/ back' = back
            \/ /\ cli[c].rec.pid \in Backend
               /\ Moves(cli[c].rec.pid, "close") \/ Dies(cli[c].rec.pid)
        BY <1>4, <3>2, VisitingFields
      <4> QED
        BY <4>1, DyingFields
    <3>3. CASE SpawnDaemon(c)
      <4>1. back[c].pc = "none"
        BY <3>3, SpawnFields DEF TypeInv, SpawnPart, CliPart, Invocation, Ahead, Early
      <4> QED
        BY <3>3, <4>1, SpawnFields
    <3>4. CASE ~SpawnDaemon(c) /\ cli[c].pc \notin Visiting \cup Bringing
      <4>1. back' = back \/ Dies(c)
        BY <1>4, <3>4, OtherFields
      <4>2. c \in Backend
        BY RecordFacts
      <4> QED
        BY <4>1, <4>2, DyingFields
    <3> QED
      BY <3>1, <3>2, <3>3, <3>4
  <2> QED
    BY <1>1, <2>1, <2>2 DEF CleanClaim
<1>5. CASE (\E c \in Cli : Run(c)) \/ UNCHANGED vars
  BY <1>1, <1>5 DEF CleanClaim, Run, Only, vars
<1>6. \A d \in Backend : ~CrashBackend(d)
  BY DEF CrashBackend, TypeInv, FilePart
<1> QED
  BY <1>2, <1>3, <1>4, <1>5, <1>6, UndisturbedFrom DEF Next

(* Nobody lives after a step of an invocation that ends a backend or none. *)
LEMMA NoneLater ==
  ASSUME TypeInv, NoneAlive, back' = back
  PROVE  NoneAlive'
BY DEF NoneAlive, Alive

LEMMA BringingNeat ==
  ASSUME TypeInv, Timely, Alone, LivingKnown, NEW c \in Cli, CliStep(c),
         cli[c].pc \in Bringing, NeatCli(c)
  PROVE  /\ NeatCli(c)' /\ ~NoneAlive'
         /\ file' # NoFile
<1>1. Alive(c) /\ back' = back /\ c \in Backend
  BY BringingFields, RecordFacts DEF NeatCli
<1>2. KnownLive(c) /\ Active(c)
  BY <1>1 DEF LivingKnown, Bringing, Active, Over
<1>3. back[c].pc \notin Closing
  BY <1>2 DEF KnownLive, Alone, At, Active, Over
<1>4. /\ file.token = c
      /\ cli[c].pc = "recheck" => file.pid = c
      /\ cli[c].pc \in {"rename", "rerename"} => cli[c].rec.token = c
  BY <1>2, <1>3 DEF KnownLive
<1>5. cli'[c].pc \in Bringing \cup {"ok"} /\ file'.token = c
  BY <1>1, <1>4, BringingFields DEF Bringing
<1>6. NoFile.token # c
  BY <1>1, DaemonConstants DEF NoFile
<1>7. Alive(c)' /\ ~NoneAlive'
  BY <1>1 DEF Alive, NoneAlive
<1>8. Spotless(cli[c])'
  BY <1>5 DEF Spotless, Ahead, Bringing
<1> QED
  BY <1>5, <1>6, <1>7, <1>8 DEF NeatCli, At, Bringing

LEMMA VisitingNeat ==
  ASSUME TypeInv, Timely, Alone, LivingKnown, NEW c \in Cli, CliStep(c),
         cli[c].pc \in Visiting, Neat
  PROVE  /\ NeatCli(c)'
         /\ cli'[c].pc \notin {"reuse", "stop"}
         /\ NoneAlive' => Active(c)'
<1>1. Active(c) /\ NeatCli(c) /\ \A d \in Cli \ {c} : ~Active(d)
  BY DEF Active, Over, Visiting, Neat, Alone
<1>2. /\ cli[c].rec \in Record /\ file \in Record
      /\ cli[c].pc \in Named => cli[c].rec.pid \in Backend
  BY DEF TypeInv, CliPart, FilePart, Invocation, Local, Valid
<1>3. \A b \in Backend : Alive(b) => b # c
  BY DEF LivingKnown, KnownLive, Visiting, Bringing
<1>4. CASE cli[c].pc \in {"reuse", "stop"}
  <2>1. CASE NoneAlive
    <3>1. file = NoFile /\ ~Valid(file)
      BY <1>1, <1>4, <2>1, DaemonConstants DEF Neat, NeatRest, Valid, NoFile
    <3>2. cli'[c].pc \in {"check", "stop check"} /\ UNCHANGED <<file, back>>
      BY <1>4, <3>1, VisitingFields
    <3>3. NoneAlive'
      BY <2>1, <3>2, NoneLater
    <3> QED
      BY <3>1, <3>2, <3>3 DEF NeatCli, Spotless, Ahead, Bringing, At, Active, Over
  <2>2. CASE ~NoneAlive
    <3>1. PICK b \in Backend : Alive(b)
      BY <2>2 DEF NoneAlive
    <3>2. file.pid = b /\ file.token = b
      BY <1>1, <1>3, <1>4, <3>1, Found
    <3>3. /\ cli'[c].pc \in {"await", "signal"} /\ cli'[c].rec = file
          /\ UNCHANGED <<file, back>>
      BY <1>4, <3>1, <3>2, VisitingFields DEF Valid
    <3>4. Alive(cli[c].rec.pid)' /\ ~NoneAlive'
      BY <3>1, <3>2, <3>3 DEF Alive, NoneAlive
    <3> QED
      BY <3>2, <3>3, <3>4 DEF NeatCli, Spotless, Ahead, Bringing, At
  <2> QED
    BY <2>1, <2>2
<1>5. CASE cli[c].pc = "await"
  <2>1. Alive(cli[c].rec.pid) /\ cli[c].rec.pid \in Backend
    BY <1>1, <1>2, <1>5 DEF NeatCli, Spotless, Named
  <2>2. back[cli[c].rec.pid].pc \notin Closing
    BY <1>1, <1>3, <1>5, <2>1, Found
  <2>3. cli'[c].pc = "ok" /\ back' = back
    BY <1>5, <2>1, <2>2, VisitingFields
  <2>4. ~NoneAlive'
    BY <2>1, <2>3 DEF NoneAlive, Alive
  <2> QED
    BY <2>3, <2>4 DEF NeatCli, Spotless, Ahead, Bringing, At
<1>6. CASE cli[c].pc = "signal"
  <2>1. /\ Alive(cli[c].rec.pid) /\ cli[c].rec.pid \in Backend
        /\ cli[c].rec.token = cli[c].rec.pid
    BY <1>1, <1>2, <1>6 DEF NeatCli, Spotless, Named
  <2>2. file.token = cli[c].rec.pid
    BY <1>1, <1>3, <1>6, <2>1, Found
  <2>3. cli'[c].pc = "grace" /\ cli'[c].rec = cli[c].rec /\ file' = file
    BY <1>6, <2>1, VisitingFields
  <2> QED
    BY <2>1, <2>2, <2>3 DEF NeatCli, Spotless, Ahead, Bringing, At, Active, Over
<1>7. CASE cli[c].pc = "grace"
  <2>1. /\ cli[c].rec.pid \in Backend /\ cli[c].rec.token = cli[c].rec.pid
        /\ file = NoFile \/ file.token = cli[c].rec.token
    BY <1>1, <1>2, <1>7 DEF NeatCli, Spotless, Named
  <2>2. cli[c].rec.token \in Cli
    BY <1>2, <2>1, DaemonConstants DEF Record
  <2>3. /\ cli'[c].pc = "release" /\ cli'[c].after = "ok"
        /\ cli'[c].rec = cli[c].rec /\ file' = file
        /\ \/ ~Alive(cli[c].rec.pid) /\ back' = back
           \/ Dies(cli[c].rec.pid)
    BY <1>7, VisitingFields
  <2>4. \A b \in Backend : Alive(b) => b = cli[c].rec.pid
    BY <1>1, <1>3, <1>7 DEF LivingKnown, KnownLive
  <2>5. NoneAlive'
    BY <2>1, <2>3, <2>4, DyingFields DEF NoneAlive, Alive
  <2> QED
    BY <2>1, <2>2, <2>3, <2>5 DEF NeatCli, Spotless, Ahead, Bringing, At, Active, Over
<1> QED
  BY <1>4, <1>5, <1>6, <1>7 DEF Visiting

LEMMA OtherNeat ==
  ASSUME TypeInv, Timely, Alone, LivingKnown, LockHeld, NEW c \in Cli, CliStep(c),
         cli[c].pc \notin Visiting \cup Bringing, Neat
  PROVE  /\ NeatCli(c)'
         /\ cli'[c].pc \notin {"reuse", "stop"}
         /\ NoneAlive' /\ ~Active(c)' => file' = NoFile
<1>1. NeatCli(c) /\ Spotless(cli[c])
  BY DEF Neat, NeatCli
<1>2. /\ cli[c] \in Invocation /\ file \in Record /\ c \in Backend
      /\ cli[c].rec \in Record /\ cli[c].after \in {"idle", "probe", "loop", "ok", "failed"}
  BY RecordFacts DEF TypeInv, CliPart, FilePart, Invocation, Local
<1>3. CASE cli[c].pc \in {"check", "probe", "acquire", "stop check"}
  <2>1. NoneAlive /\ file = NoFile
    BY <1>1, <1>3 DEF Spotless
  <2>2. /\ back' = back
        /\ (file' = file \/ cli'[c].pc = "sentinel")
        /\ cli'[c].pc \in {"probe", "acquire", "sentinel", "ok", "release"}
        /\ cli'[c].pc = "release" => cli'[c].after = "ok"
        /\ cli[c].pc = "acquire" => cli'[c].pc = "sentinel"
    BY <1>3, <2>1, OtherFields, SpawnFields, ReleasingFields
  <2>3. NoneAlive'
    BY <2>1, <2>2, NoneLater
  <2> QED
    BY <2>1, <2>2, <2>3 DEF NeatCli, Spotless, Ahead, Bringing, At, Active, Over
<1>4. CASE cli[c].pc \in {"sentinel", "spawn"}
  <2>1. /\ NoneAlive /\ file.pid = Sentinel /\ file.token = c
        /\ ~cli[c].spawned
    BY <1>1, <1>2, <1>4 DEF Spotless, LockHeld, Invocation, Ahead, Early
  <2>2. \/ cli'[c].pc \in {"spawn", "catch"} /\ back' = back
             /\ cli'[c].spawned = cli[c].spawned
        \/ cli'[c].pc = "write" /\ back'[c].pc = "boot"
    BY <1>4, OtherFields, SpawnFields, ReleasingFields
  <2>3. file' = file
    BY <1>4, OtherFields, SpawnFields, ReleasingFields
  <2>4. CASE cli'[c].pc = "write" /\ back'[c].pc = "boot"
    <3>1. Alive(c)' /\ ~NoneAlive'
      BY <1>2, <2>4 DEF Alive, NoneAlive
    <3> QED
      BY <2>4, <3>1 DEF NeatCli, Spotless, Ahead, Bringing, At, Active, Over
  <2>5. CASE cli'[c].pc \in {"spawn", "catch"} /\ back' = back
             /\ cli'[c].spawned = cli[c].spawned
    <3>1. NoneAlive'
      BY <2>1, <2>5, NoneLater
    <3> QED
      BY <2>1, <2>3, <2>5, <3>1 DEF NeatCli, Spotless, Ahead, Bringing, At, Active, Over
  <2> QED
    BY <2>2, <2>4, <2>5
<1>5. CASE cli[c].pc = "catch"
  <2>1. NoneAlive /\ ~cli[c].spawned /\ file.token = c /\ ~Alive(c)
    BY <1>1, <1>2, <1>5 DEF Spotless, NeatCli, At, NoneAlive
  <2>2. /\ cli'[c].pc = "release" /\ cli'[c].after = "failed"
        /\ cli'[c].rec.token = c /\ file' = file /\ back' = back
        /\ cli'[c].spawned = cli[c].spawned
    BY <1>5, <2>1, OtherFields, SpawnFields, ReleasingFields
  <2>3. NoneAlive'
    BY <2>1, <2>2, NoneLater
  <2> QED
    BY <2>1, <2>2, <2>3 DEF NeatCli, Spotless, Ahead, Bringing, At, Active, Over
<1>6. CASE cli[c].pc \in {"release", "judge"}
  <2>1. /\ NoneAlive /\ cli[c].after \in {"ok", "failed"}
        /\ cli[c].after = "failed" => ~cli[c].spawned
    BY <1>1, <1>6 DEF Spotless, Ahead
  <2>2. (MoveAway(c) \/ Judge(c)) /\ back' = back
    BY <1>6, OtherFields, SpawnFields
  <2>3. NoneAlive'
    BY <2>1, <2>2, NoneLater
  <2>4. ASSUME cli[c].pc = "judge"
        PROVE  Owns(cli[c].moved, cli[c].rec.pid, cli[c].rec.token) /\ file = NoFile
    <3>1. /\ file = NoFile /\ cli[c].rec.token \in Cli
          /\ cli[c].moved.token = cli[c].rec.token
      BY <1>1, <2>4 DEF Spotless
    <3>2. cli[c].rec.token # Nobody
      BY <3>1, DaemonConstants DEF Backend
    <3> QED
      BY <3>1, <3>2 DEF Owns
  <2>5. /\ cli'[c].rec = cli[c].rec /\ cli'[c].after = cli[c].after
        /\ cli'[c].spawned = cli[c].spawned /\ file' = NoFile
        /\ \/ cli'[c].pc = cli[c].after
           \/ cli'[c].pc = "judge" /\ cli'[c].moved = file /\ file # NoFile
                /\ cli[c].pc = "release"
    BY <2>2, <2>4, ReleasingFields
  <2>6. cli'[c].pc = "judge" => /\ cli[c].rec.token \in Cli
                               /\ cli'[c].moved.token = cli[c].rec.token
    BY <1>1, <2>1, <2>5 DEF Spotless
  <2> QED
    BY <2>1, <2>3, <2>5, <2>6 DEF NeatCli, Spotless, Ahead, Bringing, At, Active, Over
<1>7. cli[c].pc \notin {"remove", "follow", "follow await", "loop"}
  BY <1>1 DEF Spotless
<1>8. cli[c].pc \in {"check", "probe", "acquire", "stop check", "sentinel", "spawn",
                     "catch", "release", "judge"}
  BY <1>7, OtherFields, SpawnFields, ReleasingFields
<1> QED
  BY <1>3, <1>4, <1>5, <1>6, <1>8

LEMMA RestingNeat ==
  ASSUME NEW c \in Cli, NeatCli(c), ~Active(c), cli'[c] = cli[c]
  PROVE  NeatCli(c)'
BY DEF NeatCli, Spotless, Ahead, Active, Over, At, Bringing

LEMMA StartedNeat ==
  ASSUME Neat, NEW c \in Cli, Run(c), \A d \in Cli : ~Active(d),
         cli'[c].pc \in {"reuse", "stop"}
  PROVE  NeatCli(c)' /\ NeatRest'
<1>1. NeatCli(c)'
  BY DEF NeatCli, Spotless, Ahead, At, Bringing
<1>2. NoneAlive' => NoneAlive /\ file' = file
  BY DEF Run, Only, NoneAlive, Alive
<1> QED
  BY <1>1, <1>2 DEF Neat, NeatRest

(* A backend that an invocation waits for, or brings up, goes on; one that *)
(* an invocation waits to see ended leaves at most its own record.         *)
LEMMA BackNeat ==
  ASSUME TypeInv, Alone, LivingKnown, Neat, NEW b \in Backend, BackStep(b)
  PROVE  (\A c \in Cli : NeatCli(c)') /\ NeatRest'
<1>1. /\ Alive(b) /\ KnownLive(b) /\ CleanClaim(b) /\ cli' = cli
      /\ \A d \in Backend \ {b} : back'[d] = back[d]
  BY BackFields DEF LivingKnown, Neat
<1>2. ASSUME \A c \in Cli : ~At(c, "grace") PROVE Alive(b)'
  <2>1. back[b].pc # "unclaim"
    BY <1>1, <1>2 DEF KnownLive, Closing
  <2> QED
    BY <1>1, <2>1, StaysUp
<1>3. NeatRest'
  <2> SUFFICES ASSUME NoneAlive',
                      \A c \in Cli : ~Active(c)' \/ cli'[c].pc \in {"reuse", "stop"}
               PROVE  FALSE
    BY DEF NeatRest
  <2>1. \A c \in Cli : ~At(c, "grace")
    BY <1>1 DEF Active, Over, At
  <2> QED
    BY <1>2, <2>1 DEF NoneAlive
<1>4. ASSUME NEW c \in Cli PROVE NeatCli(c)'
  <2>1. NeatCli(c) /\ cli'[c] = cli[c]
    BY <1>1 DEF Neat
  <2>2. CASE ~Active(c)
    BY <2>1, <2>2, RestingNeat
  <2>3. CASE Active(c) /\ cli[c].pc # "grace"
    <3>1. Alive(b)'
      BY <1>2, <2>3 DEF Alone, At, Active, Over
    <3>2. CASE c = b
      <4>1. cli[c].pc \in Bringing
        BY <1>1, <2>3, <3>2 DEF KnownLive, Active, Over
      <4> QED
        BY <2>1, <3>1, <3>2, <4>1 DEF NeatCli, Spotless, Ahead, At, Bringing
    <3>3. CASE c # b
      <4>1. \/ cli[c].pc \in {"reuse", "stop"}
            \/ cli[c].pc \in {"await", "signal"} /\ cli[c].rec.pid = b
        BY <1>1, <2>3, <3>3 DEF KnownLive
      <4> QED
        BY <2>1, <3>1, <4>1 DEF NeatCli, Spotless, Ahead, At, Bringing
    <3> QED
      BY <3>2, <3>3
  <2>4. CASE cli[c].pc = "grace"
    <3>1. Active(c) /\ c # b
      BY <1>1, <2>4 DEF Active, Over, KnownLive, Bringing
    <3>2. /\ cli[c].rec.pid = b /\ cli[c].rec.token = b
          /\ (file = NoFile \/ file.token = b)
      BY <1>1, <2>1, <2>4, <3>1 DEF KnownLive, NeatCli, Spotless
    <3>3. /\ back[b].pc = "replace" => back[b].token = b
          /\ back[b].pc = "judge own" => back[b].moved.token = b
      BY <1>1 DEF KnownLive, CleanClaim, Is
    <3>4. file' = NoFile \/ file'.token = b
      <4>1. \/ file' = file
            \/ file' = NoFile
            \/ back[b].pc = "replace" /\ file'.token = back[b].token
            \/ back[b].pc = "judge own" /\ file' = back[b].moved
        BY BackFields
      <4> QED
        BY <3>2, <3>3, <4>1
    <3> QED
      BY <2>1, <2>4, <3>2, <3>4 DEF NeatCli, Spotless, Ahead, At, Bringing
  <2> QED
    BY <2>2, <2>3, <2>4
<1> QED
  BY <1>3, <1>4

LEMMA CliNeat ==
  ASSUME TypeInv, Timely, Alone, LivingKnown, LockHeld, Neat, NEW c \in Cli,
         CliStep(c), Active(c)
  PROVE  (\A d \in Cli : NeatCli(d)') /\ NeatRest'
<1>1. /\ NeatCli(c)'
      /\ \/ ~NoneAlive'
         \/ cli'[c].pc \notin {"reuse", "stop"} /\ (Active(c)' \/ file' = NoFile)
  <2>1. CASE cli[c].pc \in Bringing
    BY <2>1, BringingNeat DEF Neat
  <2>2. CASE cli[c].pc \in Visiting
    BY <2>2, VisitingNeat
  <2>3. CASE cli[c].pc \notin Visiting \cup Bringing
    BY <2>3, OtherNeat
  <2> QED
    BY <2>1, <2>2, <2>3
<1>2. \A d \in Cli \ {c} : ~Active(d) /\ cli'[d] = cli[d] /\ NeatCli(d)
  BY StepApart DEF Apart, Alone, Neat
<1>3. \A d \in Cli \ {c} : NeatCli(d)'
  BY <1>2, RestingNeat
<1> QED
  BY <1>1, <1>3 DEF NeatRest

LEMMA NeatInit == Init => NeatInv
<1> SUFFICES ASSUME Init PROVE Neat
  BY DEF NeatInv
<1>1. \A c \in Cli : cli[c].pc = "idle"
  BY DEF Init
<1>2. \A b \in Backend : back[b].pc = "none" /\ back[b].tries = 1
  BY DEF Init
<1>3. file = NoFile /\ claim = Nobody
  BY DEF Init
<1>4. \A c \in Cli : NeatCli(c)
  BY <1>1 DEF NeatCli, Spotless, Ahead, Bringing, At
<1>5. \A b \in Backend : CleanClaim(b)
  BY <1>2, <1>3, DaemonConstants DEF CleanClaim
<1> QED
  BY <1>3, <1>4, <1>5 DEF Neat, NeatRest

LEMMA NeatKept ==
  ~Overlap /\ Timely /\ TypeInv /\ SequelInv /\ NeatInv /\ [Next]_vars => NeatInv'
<1> SUFFICES ASSUME ~Overlap, Timely, TypeInv, SequelInv, NeatInv, [Next]_vars,
                    Undisturbed', crashes' = 0
             PROVE  Neat'
  BY DEF NeatInv
<1>1. /\ Undisturbed
      /\ \A c \in Cli : ~KillCli(c)
      /\ \A b \in Backend : ~Launch(b) /\ ~CrashBackend(b)
  BY UndisturbedFrom DEF CrashBackend, TypeInv, FilePart
<1>2. crashes = 0
  <2>1. ASSUME NEW b \in Backend, BackStep(b) PROVE crashes' = crashes
    BY <2>1, BackFields DEF limits
  <2>2. ASSUME NEW c \in Cli, CliStep(c) PROVE crashes' = crashes
    BY <2>2 DEF CliStep, limits, Only, ReadRecord, CheckFile, RemoveState, Probe,
       Ready, Stale, Acquire, WriteSentinel, SpawnDaemon, ReadExisting,
       RenameRecord, Live, ChildAlive, Confirm, Catch, Follow, Loop, MoveAway,
       Judge, StopRead, StopCheck, StopSignal, StopGrace
  <2> QED
    BY <1>1, <2>1, <2>2 DEF Next, vars, limits, Run, Only
<1>3. Alone /\ LockHeld /\ LivingKnown /\ Neat
  BY <1>1, <1>2 DEF SequelInv, NeatInv
<1>4. \A b \in Backend : CleanClaim(b)'
  BY <1>3, ClaimsClean
<1> DEFINE Tidy == (\A c \in Cli : NeatCli(c)') /\ NeatRest'
<1>5. Tidy
  <2>1. ASSUME NEW b \in Backend, BackStep(b) PROVE Tidy
    BY <1>3, <2>1, BackNeat
  <2>2. ASSUME NEW c \in Cli, CliStep(c) PROVE Tidy
    BY <1>3, <2>2, OneMoves, CliNeat
  <2>3. ASSUME NEW c \in Cli, Run(c) PROVE Tidy
    <3>1. /\ \A d \in Cli : ~Active(d)
          /\ cli'[c].pc \in {"reuse", "stop"} /\ Apart(c)
      BY <2>3, OneMoves
    <3>2. NeatCli(c)' /\ NeatRest'
      BY <1>3, <2>3, <3>1, StartedNeat
    <3>3. \A d \in Cli \ {c} : ~Active(d) /\ cli'[d] = cli[d] /\ NeatCli(d)
      BY <1>3, <3>1 DEF Apart, Neat
    <3>4. \A d \in Cli \ {c} : NeatCli(d)'
      BY <3>3, RestingNeat
    <3> QED
      BY <3>2, <3>4
  <2>4. CASE UNCHANGED vars
    BY <1>3, <2>4 DEF vars, Neat, NeatRest, NeatCli, Spotless, NoneAlive, Alive,
       Active, At
  <2> QED
    BY <1>1, <2>1, <2>2, <2>3, <2>4 DEF Next
<1> QED
  BY <1>4, <1>5 DEF Neat

(* Run one after the other, with backends that answer in time, no          *)
(* invocation killed and no backend crashed or started by hand, an         *)
(* invocation that has to spawn a backend brings it up, and none runs out  *)
(* of rounds (ensureDaemon in daemon.ts, claimDaemonState in main.go):     *)
(* whatever the starts and stops before it left in the state file and in   *)
(* the claim is taken for what it is and cleared away.                     *)
THEOREM SpawnsComeUp ==
  ASSUME ~Overlap, Timely PROVE Spec => []StartSucceeds
<1>1. Init => TypeInv /\ SequelInv /\ NeatInv
  BY InitTyped, SequelInit, NeatInit
<1>2. (TypeInv /\ SequelInv /\ NeatInv) /\ [Next]_vars
        => (TypeInv /\ SequelInv /\ NeatInv)'
  BY NextTyped, SequelKept, NeatKept
<1>3. TypeInv /\ SequelInv /\ NeatInv => StartSucceeds
  BY DEF NeatInv, Neat, NeatCli, Spotless, Ahead, At, StartSucceeds
<1> QED
  BY <1>1, <1>2, <1>3, PTL DEF Spec
=============================================================================
