------------------------------- MODULE Daemon -------------------------------
(* The daemon protocol between the CLI (src/src/daemon.ts) and the backend     *)
(* process (backend/cmd/server/main.go). Invocations of the CLI start, reuse   *)
(* and stop one backend through a single state file that is also the lock of   *)
(* whoever spawns; backends serialize their start by a second file, the claim, *)
(* and share a socket path. All of it is files: a step is one file operation   *)
(* or one look at a process, and any process may die between two.              *)
(*                                                                             *)
(* Simplifications: the directory is private and writable; a pid is not given  *)
(* to another process; two reads in direct succession with no write of the     *)
(* same process between them are one step; creating the claim and writing the  *)
(* pid into it are one step, and so is the handling of a stale socket, which   *)
(* the claim protects. A backend is named by what started it: the one that     *)
(* invocation c spawns is c. A claimToken is named by the invocation that made *)
(* it, which makes one only.                                                   *)
EXTENDS Naturals, FiniteSets

CONSTANTS Cli,          \* invocations of the CLI, each of which ensures or stops
          Manual,       \* backends started by hand
          Elsewhere,    \* those of them that listen on a port of their own
          Nobody,       \* no process, no token, no pid
          Sentinel,     \* the pid -1 of a claimed state file
          MaxAttempts,  \* rounds of ensureDaemon
          Overlap,      \* may invocations run at the same time
          Timely,       \* do booting backends answer within the CLI's budgets
          MaxFaults     \* bound: invocations and backends killed from outside

Backend == Cli \cup Manual

ASSUME DaemonConstants ==
  /\ Cli \cap Manual = {} /\ Elsewhere \subseteq Manual
  /\ Nobody \notin Backend /\ Sentinel \notin Backend /\ Sentinel # Nobody
  /\ MaxAttempts \in Nat \ {0} /\ {Overlap, Timely} \subseteq BOOLEAN
  /\ MaxFaults \in Nat

VARIABLES file,     \* the state file
          written,  \* the invocations whose sentinel has its content
          claim,    \* the pid in the .bind-lock file
          sock,     \* the backend whose socket is at the socket path
          cli, back,
          litter,   \* records and claims in quarantine files of dead processes
          kills, crashes

files == <<file, written>>
vars == <<file, written, claim, sock, cli, back, litter, kills, crashes>>
limits == <<kills, crashes>>

Record == [pid : Backend \cup {Sentinel, Nobody}, token : Cli \cup {Nobody},
           socket : BOOLEAN]
NoFile == [pid |-> Nobody, token |-> Nobody, socket |-> FALSE]

CliPC == {"idle", "reuse", "check", "remove", "await", "probe", "acquire",
          "sentinel", "spawn", "write", "rename", "live", "alive", "confirm",
          "rewrite", "rerename", "recheck", "catch", "follow", "follow await",
          "loop", "release", "judge", "stop", "stop check", "signal", "grace",
          "ok", "failed", "contended", "dead"}
Local == [pc : CliPC, tries : 0 .. MaxAttempts - 1, rec : Record, moved : Record,
          after : CliPC, spawned : BOOLEAN]

BackPC == {"none", "boot", "claim", "weigh", "bind", "publish", "replace", "up",
           "close", "remove own", "judge own", "unclaim", "dead"}
Process == [pc : BackPC, tries : 1 .. 2, rival : Backend \cup {Nobody},
            bound : BOOLEAN, token : Cli \cup {Nobody}, moved : Record]

Over == {"ok", "failed", "contended", "dead"}
Active(c) == cli[c].pc \notin Over \cup {"idle"}

TypeOK ==
  /\ file \in Record /\ written \subseteq Cli
  /\ claim \in Backend \cup {Nobody} /\ sock \in Backend \cup {Nobody}
  /\ cli \in [Cli -> Local] /\ back \in [Backend -> Process]
  /\ litter \subseteq Record \cup Backend
  /\ {kills, crashes} \subseteq 0 .. MaxFaults

Init ==
  /\ file = NoFile /\ written = {} /\ claim = Nobody /\ sock = Nobody
  /\ cli = [c \in Cli |-> [pc |-> "idle", tries |-> 0, rec |-> NoFile,
                           moved |-> NoFile, after |-> "idle", spawned |-> FALSE]]
  /\ back = [b \in Backend |-> [pc |-> "none", tries |-> 1, rival |-> Nobody,
                                bound |-> FALSE, token |-> Nobody, moved |-> NoFile]]
  /\ litter = {} /\ kills = 0 /\ crashes = 0

-----------------------------------------------------------------------------
(* What is in a state file.                                                *)

Valid(r) == r.pid \in Backend
IsLock(r) == r.pid = Sentinel /\ r.token \in written
Torn(r) == r.pid = Sentinel /\ r.token \notin written

(* Whose record a releasing process takes it for: by token where both have *)
(* one, by pid only where neither has.                                     *)
Owns(r, pid, token) ==
  IF token # Nobody /\ r.token # Nobody THEN r.token = token
  ELSE token = Nobody /\ r.token = Nobody /\ r.pid = pid

(* Processes.                                                              *)

Alive(b) == back[b].pc \notin {"none", "dead"}
Closing == {"close", "remove own", "judge own", "unclaim"}
Serving == {b \in Backend : back[b].pc \in {"claim", "weigh", "bind", "publish",
                                            "replace", "up", "close"}}
SamePort(b, d) == b = d \/ {b, d} \cap Elsewhere = {}
Answers(b) == \E d \in Serving : SamePort(b, d)
DefaultAnswers == Serving \ Elsewhere # {}
Healthy(b) == Alive(b) /\ Answers(b)

Is(b, pc) == back[b].pc = pc
Moves(b, pc) == back' = [back EXCEPT ![b].pc = pc]

(* A process dies: nothing is cleaned up, a record it had moved stays where *)
(* it moved it.                                                             *)
Gone(b) == [back[b] EXCEPT !.pc = "dead", !.bound = FALSE, !.rival = Nobody,
                           !.moved = NoFile]
Left(moved, rival) == litter \cup ({moved} \ {NoFile}) \cup ({rival} \ {Nobody})
Dies(b) ==
  /\ back' = [back EXCEPT ![b] = Gone(b)]
  /\ litter' = Left(back[b].moved, back[b].rival)

-----------------------------------------------------------------------------
(* An invocation of the CLI.                                               *)

At(c, pc) == cli[c].pc = pc
Goto(c, pc) == cli' = [cli EXCEPT ![c].pc = pc]
With(c, pc, r) == cli' = [cli EXCEPT ![c].pc = pc, ![c].rec = r]
Release(c, r, after) ==
  cli' = [cli EXCEPT ![c].pc = "release", ![c].rec = r, ![c].after = after]
Only == UNCHANGED <<file, written, claim, sock, back, litter, limits>>

Run(c) ==
  /\ At(c, "idle")
  /\ Overlap \/ \A d \in Cli : ~Active(d)
  /\ \E pc \in {"reuse", "stop"} : Goto(c, pc)
  /\ Only

(* reuseRunningDaemon: the record, then what to do where there is none that *)
(* can be read, then whether anybody answers all the same.                  *)
ReadRecord(c) ==
  /\ At(c, "reuse")
  /\ IF Valid(file) THEN With(c, "await", file) ELSE Goto(c, "check")
  /\ Only

CheckFile(c) ==
  /\ At(c, "check")
  /\ IF file = NoFile \/ IsLock(file) THEN Goto(c, "probe") ELSE Goto(c, "remove")
  /\ Only

RemoveState(c) ==
  /\ At(c, "remove")
  /\ Release(c, IF Valid(file) THEN file ELSE NoFile, "probe")
  /\ Only

(* awaitBackendReady. A process that is alive and does not answer is given *)
(* up when the record is old, as that of a closing backend is, or when the *)
(* budget is over.                                                         *)
Ready(c, from) ==
  /\ At(c, from) /\ Healthy(cli[c].rec.pid)
  /\ Goto(c, "ok") /\ Only

Stale(c, from, after) ==
  /\ At(c, from)
  /\ \/ ~Alive(cli[c].rec.pid)
     \/ back[cli[c].rec.pid].pc \in Closing \ {"close"}
     \/ ~Timely
  /\ Release(c, cli[c].rec, after)
  /\ Only

Probe(c) ==
  /\ At(c, "probe")
  /\ \/ DefaultAnswers /\ Goto(c, "ok")
     \/ (~DefaultAnswers \/ ~Timely) /\ Goto(c, "acquire")
  /\ Only

(* acquireStateLock: create exclusively, then write into what was created,  *)
(* wherever that file is by now.                                            *)
Acquire(c) ==
  /\ At(c, "acquire")
  /\ IF file = NoFile
     THEN /\ file' = [pid |-> Sentinel, token |-> c, socket |-> FALSE]
          /\ Goto(c, "sentinel")
     ELSE Goto(c, "follow") /\ UNCHANGED file
  /\ UNCHANGED <<written, claim, sock, back, litter, limits>>

WriteSentinel(c) ==
  /\ At(c, "sentinel")
  /\ written' = written \cup {c}
  /\ Goto(c, "spawn")
  /\ UNCHANGED <<file, claim, sock, back, litter, limits>>

(* spawnAndRecord.                                                         *)
SpawnDaemon(c) ==
  /\ At(c, "spawn")
  /\ \/ /\ back' = [back EXCEPT ![c].pc = "boot"]
        /\ cli' = [cli EXCEPT ![c].pc = "write", ![c].spawned = TRUE]
     \/ Goto(c, "catch") /\ UNCHANGED back
  /\ UNCHANGED <<file, written, claim, sock, litter, limits>>

(* writeState: what the file says of the same pid is kept, the rest replaced. *)
ReadExisting(c) ==
  /\ \/ At(c, "write") /\ With(c, "rename", IF file.pid = c
          THEN [file EXCEPT !.token = IF @ = Nobody THEN c ELSE @]
          ELSE [pid |-> c, token |-> c, socket |-> FALSE])
     \/ At(c, "rewrite") /\ With(c, "rerename", IF file.pid = c
          THEN [file EXCEPT !.token = IF @ = Nobody THEN c ELSE @]
          ELSE [pid |-> c, token |-> c, socket |-> FALSE])
  /\ Only

RenameRecord(c) ==
  /\ \/ At(c, "rename") /\ Goto(c, "live")
     \/ At(c, "rerename") /\ Goto(c, "recheck")
  /\ file' = cli[c].rec
  /\ UNCHANGED <<written, claim, sock, back, litter, limits>>

(* waitForLiveness asks the port, not the child.                           *)
Live(c) ==
  /\ At(c, "live")
  /\ \/ DefaultAnswers /\ Goto(c, "alive")
     \/ (~Timely \/ (~Alive(c) /\ ~DefaultAnswers)) /\ Goto(c, "catch")
  /\ Only

ChildAlive(c) ==
  /\ At(c, "alive")
  /\ IF Alive(c) THEN Goto(c, "confirm") ELSE Goto(c, "catch")
  /\ Only

(* Mutant: the lock is released on success, too.                           *)
Mut_ReleasedAfterSuccess(c) ==
  /\ At(c, "confirm")
  /\ Release(c, [pid |-> c, token |-> c, socket |-> FALSE], "ok")
  /\ UNCHANGED <<file, written, claim, sock, back, litter, limits>>

Confirm(c) ==
  /\ \/ At(c, "confirm") /\ Goto(c, IF file.pid = c THEN "ok" ELSE "rewrite")
     \/ At(c, "recheck") /\ Goto(c, IF file.pid = c THEN "ok" ELSE "catch")
  /\ Only

Catch(c) ==
  /\ At(c, "catch")
  /\ IF cli[c].spawned /\ Alive(c)
     THEN Dies(c)
     ELSE UNCHANGED <<back, litter>>
  /\ Release(c, [pid |-> IF cli[c].spawned THEN c ELSE Sentinel, token |-> c,
                 socket |-> FALSE], "failed")
  /\ UNCHANGED <<file, written, claim, sock, limits>>

(* followWinner and the end of a round of ensureDaemon.                    *)
Follow(c) ==
  /\ At(c, "follow")
  /\ IF Valid(file) THEN With(c, "follow await", file)
     ELSE Release(c, [pid |-> Sentinel, token |-> Nobody, socket |-> FALSE], "loop")
  /\ Only

(* Mutant: the last round is not counted.                                  *)
Mut_LoopUncounted(c) ==
  /\ At(c, "loop")
  /\ IF cli[c].tries < MaxAttempts
     THEN cli' = [cli EXCEPT ![c].tries = @ + 1, ![c].pc = "reuse"]
     ELSE Goto(c, "contended")
  /\ Only

Loop(c) ==
  /\ At(c, "loop")
  /\ IF cli[c].tries + 1 < MaxAttempts
     THEN cli' = [cli EXCEPT ![c].tries = @ + 1, ![c].pc = "reuse"]
     ELSE Goto(c, "contended")
  /\ Only

(* releaseStateFile: out of the way, a look at it, and back where it was    *)
(* unless something else is there by now.                                   *)
MoveAway(c) ==
  /\ At(c, "release")
  /\ IF file = NoFile
     THEN Goto(c, cli[c].after) /\ UNCHANGED file
     ELSE /\ cli' = [cli EXCEPT ![c].pc = "judge", ![c].moved = file]
          /\ file' = NoFile
  /\ UNCHANGED <<written, claim, sock, back, litter, limits>>

Judge(c) ==
  /\ At(c, "judge")
  /\ LET r == cli[c].moved
         own == Torn(r) \/ Owns(r, cli[c].rec.pid, cli[c].rec.token)
     IN  file' = IF ~own /\ file = NoFile THEN r ELSE file
  /\ cli' = [cli EXCEPT ![c].pc = cli[c].after, ![c].moved = NoFile]
  /\ UNCHANGED <<written, claim, sock, back, litter, limits>>

(* stopDaemon.                                                             *)
StopRead(c) ==
  /\ At(c, "stop")
  /\ IF Valid(file)
     THEN With(c, IF Alive(file.pid) THEN "signal" ELSE "stop check", file)
     ELSE Goto(c, "stop check")
  /\ Only

StopCheck(c) ==
  /\ At(c, "stop check")
  /\ IF IsLock(file) THEN Goto(c, "ok")
     ELSE Release(c, IF Valid(cli[c].rec) THEN cli[c].rec
                     ELSE [NoFile EXCEPT !.pid = IF Valid(file) THEN file.pid ELSE Nobody],
                  "ok")
  /\ Only

(* SIGTERM ends a backend at once before it waits for signals and starts its *)
(* shutdown afterwards; SIGKILL ends it at any time.                         *)
StopSignal(c) ==
  /\ At(c, "signal")
  /\ LET b == cli[c].rec.pid
     IN  \/ /\ ~Alive(b)
            /\ Release(c, cli[c].rec, "ok") /\ UNCHANGED <<back, litter>>
         \/ /\ back[b].pc \in Closing
            /\ Goto(c, "grace") /\ UNCHANGED <<back, litter>>
         \/ /\ Is(b, "up")
            /\ Moves(b, "close") /\ Goto(c, "grace") /\ UNCHANGED litter
         \/ /\ Alive(b) /\ back[b].pc \notin Closing \cup {"up"}
            /\ Dies(b) /\ Goto(c, "grace")
  /\ UNCHANGED <<file, written, claim, sock, limits>>

StopGrace(c) ==
  /\ At(c, "grace")
  /\ LET b == cli[c].rec.pid
     IN  \/ ~Alive(b) /\ UNCHANGED <<back, litter>>
         \/ Alive(b) /\ Dies(b)
  /\ Release(c, cli[c].rec, "ok")
  /\ UNCHANGED <<file, written, claim, sock, limits>>

CliStep(c) ==
  \/ ReadRecord(c) \/ CheckFile(c) \/ RemoveState(c) \/ Probe(c)
  \/ Ready(c, "await") \/ Ready(c, "follow await")
  \/ Stale(c, "await", "probe") \/ Stale(c, "follow await", "loop")
  \/ Acquire(c) \/ WriteSentinel(c) \/ SpawnDaemon(c) \/ ReadExisting(c)
  \/ RenameRecord(c) \/ Live(c) \/ ChildAlive(c) \/ Confirm(c) \/ Catch(c)
  \/ Follow(c) \/ Loop(c) \/ MoveAway(c) \/ Judge(c)
  \/ StopRead(c) \/ StopCheck(c) \/ StopSignal(c) \/ StopGrace(c)

-----------------------------------------------------------------------------
(* A backend process.                                                      *)

Launch(b) ==
  /\ b \in Manual /\ Is(b, "none") /\ Moves(b, "boot")
  /\ UNCHANGED <<files, claim, sock, cli, litter, limits>>

(* Rehydration is over; the port is taken or the process ends.             *)
ListenTCP(b) ==
  /\ Is(b, "boot")
  /\ Moves(b, IF Answers(b) THEN "dead" ELSE "claim")
  /\ UNCHANGED <<files, claim, sock, cli, litter, limits>>

(* claimDaemonState: two attempts to create the file; in between its owner *)
(* is moved away and looked at.                                            *)
CreateClaim(b) ==
  /\ Is(b, "claim")
  /\ IF claim = Nobody
     THEN claim' = b /\ Moves(b, "bind")
     ELSE /\ claim' = Nobody
          /\ back' = [back EXCEPT ![b].pc = "weigh", ![b].rival = claim]
  /\ UNCHANGED <<files, sock, cli, litter, limits>>

(* Mutant: the owner of the claim is taken for dead without a look.        *)
Mut_RivalUnchecked(b) ==
  /\ Is(b, "weigh")
  /\ back' = [back EXCEPT ![b].rival = Nobody, ![b].tries = 2,
                          ![b].pc = IF back[b].tries = 1 THEN "claim" ELSE "dead"]
  /\ UNCHANGED <<files, claim, sock, cli, litter, limits>>

(* Mutant: no second attempt after a stale claim.                          *)
Mut_OneAttempt(b) ==
  /\ Is(b, "weigh")
  /\ claim' = IF Alive(back[b].rival) /\ claim = Nobody THEN back[b].rival ELSE claim
  /\ back' = [back EXCEPT ![b].rival = Nobody, ![b].pc = "dead"]
  /\ UNCHANGED <<files, sock, cli, litter, limits>>

WeighRival(b) ==
  /\ Is(b, "weigh")
  /\ \/ /\ Alive(back[b].rival)
        /\ claim' = IF claim = Nobody THEN back[b].rival ELSE claim
        /\ back' = [back EXCEPT ![b].rival = Nobody, ![b].pc = "dead"]
     \/ /\ ~Alive(back[b].rival)
        /\ back' = [back EXCEPT ![b].rival = Nobody, ![b].tries = 2,
                                ![b].pc = IF back[b].tries = 1 THEN "claim" ELSE "dead"]
        /\ UNCHANGED claim
  /\ UNCHANGED <<files, sock, cli, litter, limits>>

(* listenUnix: not at the price of a socket that answers.                  *)
ListenUnix(b) ==
  /\ Is(b, "bind")
  /\ \/ /\ sock \notin {d \in Backend : back[d].bound}
        /\ sock' = b
        /\ back' = [back EXCEPT ![b].pc = "publish", ![b].bound = TRUE]
     \/ Moves(b, "publish") /\ UNCHANGED sock
  /\ UNCHANGED <<files, claim, cli, litter, limits>>

(* writeDaemonState.                                                       *)
ReadOwner(b) ==
  /\ Is(b, "publish")
  /\ IF Valid(file) /\ file.pid # b /\ Alive(file.pid)
     THEN Moves(b, "up")
     ELSE back' = [back EXCEPT ![b].pc = "replace",
                               ![b].token = IF Torn(file) THEN Nobody ELSE file.token]
  /\ UNCHANGED <<files, claim, sock, cli, litter, limits>>

WriteDaemonState(b) ==
  /\ Is(b, "replace")
  /\ file' = [pid |-> b, token |-> back[b].token, socket |-> back[b].bound]
  /\ Moves(b, "up")
  /\ UNCHANGED <<written, claim, sock, cli, litter, limits>>

(* Shutdown: the socket, the port, the record, the claim.                  *)
CloseListeners(b) ==
  /\ Is(b, "close")
  /\ sock' = IF back[b].bound THEN Nobody ELSE sock
  /\ back' = [back EXCEPT ![b].pc = "remove own", ![b].bound = FALSE]
  /\ UNCHANGED <<files, claim, cli, litter, limits>>

RemoveOwn(b) ==
  /\ Is(b, "remove own")
  /\ IF file = NoFile
     THEN Moves(b, "unclaim") /\ UNCHANGED file
     ELSE /\ back' = [back EXCEPT ![b].pc = "judge own", ![b].moved = file]
          /\ file' = NoFile
  /\ UNCHANGED <<written, claim, sock, cli, litter, limits>>

JudgeOwn(b) ==
  /\ Is(b, "judge own")
  /\ file' = IF back[b].moved.pid # b /\ file = NoFile THEN back[b].moved ELSE file
  /\ back' = [back EXCEPT ![b].pc = "unclaim", ![b].moved = NoFile]
  /\ UNCHANGED <<written, claim, sock, cli, litter, limits>>

ReleaseClaim(b) ==
  /\ Is(b, "unclaim")
  /\ claim' = Nobody
  /\ Moves(b, "dead")
  /\ UNCHANGED <<files, sock, cli, litter, limits>>

BackStep(b) ==
  \/ ListenTCP(b) \/ CreateClaim(b) \/ WeighRival(b) \/ ListenUnix(b)
  \/ ReadOwner(b) \/ WriteDaemonState(b) \/ CloseListeners(b) \/ RemoveOwn(b)
  \/ JudgeOwn(b) \/ ReleaseClaim(b)

-----------------------------------------------------------------------------
(* Faults.                                                                 *)

KillCli(c) ==
  /\ Active(c) /\ kills + crashes < MaxFaults
  /\ kills' = kills + 1
  /\ cli' = [cli EXCEPT ![c].pc = "dead", ![c].moved = NoFile]
  /\ litter' = Left(cli[c].moved, Nobody)
  /\ UNCHANGED <<file, written, claim, sock, back, crashes>>

CrashBackend(b) ==
  /\ Alive(b) /\ kills + crashes < MaxFaults
  /\ crashes' = crashes + 1
  /\ Dies(b)
  /\ UNCHANGED <<file, written, claim, sock, cli, kills>>

Next ==
  \/ \E c \in Cli : Run(c) \/ CliStep(c) \/ KillCli(c)
  \/ \E b \in Backend : Launch(b) \/ BackStep(b) \/ CrashBackend(b)

Spec == Init /\ [][Next]_vars

-----------------------------------------------------------------------------
(* Properties.                                                             *)

(* At any time at most one living backend holds the claim (main.go 217), from  *)
(* its creation to the end of the shutdown, although every starting backend    *)
(* moves the claim of the one before it out of the way to look at it. The      *)
(* exception is a process that died holding a claim it had moved away: the     *)
(* owner, which does not look at what it removes in the end, may then remove   *)
(* the claim of its successor.                                                *)
Holders == {b \in Backend : back[b].pc \in {"bind", "publish", "replace", "up"} \cup Closing}
OneClaim == litter \cap Backend = {} => Cardinality(Holders) <= 1

(* When all is quiet, a backend that an invocation spawned and that serves is *)
(* the one the state file names, so that stop finds it: outcome 5.3, no       *)
(* orphans. Undisturbed: no invocation was killed and no backend was started  *)
(* by hand next to it.                                                        *)
Quiet ==
  /\ \A c \in Cli : ~Active(c)
  /\ \A b \in Backend : back[b].pc \in {"none", "up", "dead"}
Undisturbed == kills = 0 /\ \A m \in Manual : Is(m, "none")
NoOrphan == Quiet /\ Undisturbed => \A c \in Cli : Is(c, "up") => file.pid = c

(* Without a disturbance every invocation that has to spawn a backend brings  *)
(* it up, whatever its predecessors left behind: the record and the claim of  *)
(* a backend that stop had to kill are recognized as stale and replaced       *)
(* within the attempts that ensureDaemon and claimDaemonState make.           *)
StartSucceeds ==
  Undisturbed /\ crashes = 0 =>
    \A c \in Cli : ~At(c, "contended") /\ (At(c, "failed") => ~cli[c].spawned)
=============================================================================
