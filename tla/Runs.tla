-------------------------------- MODULE Runs --------------------------------
(* Plain and init runs from the command that posts them to the verdict it      *)
(* prints: the CLI (commands/run.ts, client.ts, sse.ts), the HTTP handlers, the *)
(* run service, the agent, the goroutine or the reaper that ends its record,    *)
(* the stop service, the stream, and a backend that dies and is started again   *)
(* over its journal.                                                            *)
(*                                                                              *)
(* Simplifications: one init lane; the output of an agent is a number of half   *)
(* lines, and what travels to the command a number of half frames, so that each *)
(* may be cut anywhere; a journal write and a sentinel are atomic; at boot a    *)
(* record's sentinel and its pid are read in one step; the upstream server is   *)
(* absent (standalone).                                                         *)
EXTENDS Naturals, FiniteSets

CONSTANTS Client,      \* invocations of saki run <verb> --follow
          InitClient,  \* those that post a privileged init run: clients of the
                       \* same routes that are not in this repository (the UI)
          None,        \* no run
          MaxHalves,   \* bound: half lines an agent writes
          MaxFaults    \* bound: stops, deaths of the backend, give-ups of the
                       \* reaper, dropped connections, and writes and spawns
                       \* that fail, together

(* A command posts over the socket and, when that fails, once more over TCP; a  *)
(* page that got no answer may be submitted again.                             *)
Run == Client \X {1, 2}

ASSUME RunsConstants ==
  /\ InitClient \subseteq Client /\ None \notin Run
  /\ {MaxHalves, MaxFaults} \subseteq Nat

VARIABLES client, handler,  \* the commands, and their requests in the backend
          store, journal,   \* the records in memory and on disk
          watch, stop,      \* the goroutines that end a run, the stops under way
          agent, exit, out, \* the processes, their exit sentinels, their output
          up,               \* does the backend serve
          loose,            \* runs whose agent may live on unrecorded
          faults

service == <<handler, store, journal, watch, stop>>
process == <<agent, exit, out>>
vars == <<client, service, process, up, loose, faults>>

Status == {"absent", "running", "done", "error"}
Record == [status : Status, pid : BOOLEAN]
Absent == [status |-> "absent", pid |-> FALSE]
Fresh == [status |-> "running", pid |-> FALSE]

Streaming == {"drain", "check", "final"}
ClientPC == Streaming \cup {"idle", "posted", "resend", "answered", "closing", "ok",
                           "failed"}
HandlerPC == {"none", "begin", "put", "journal", "spawn", "pid", "record"}

Command == [pc : ClientPC, run : Run \cup {None}, told : Status,
            seen : 0 .. MaxHalves, got : Nat,
            frames : 0 .. MaxHalves + 1, part : {0, 1}]

TypeOK ==
  /\ client \in [Client -> Command]
  /\ handler \in [Run -> HandlerPC]
  /\ store \in [Run -> Record] /\ journal \in [Run -> Record]
  /\ watch \in [Run -> {"none", "wait", "rejournal", "reap", "look"}]
  /\ stop \in [Run -> {"none", "signal", "finalize"}]
  /\ agent \in [Run -> {"none", "running", "lingering", "gone"}]
  /\ exit \in [Run -> {"none", "zero", "other"}]
  /\ out \in [Run -> 0 .. MaxHalves]
  /\ up \in BOOLEAN /\ loose \subseteq Run
  /\ faults \in 0 .. MaxFaults

Init ==
  /\ client = [c \in Client |-> [pc |-> "idle", run |-> None, told |-> "absent",
                                 seen |-> 0, got |-> 0, frames |-> 0, part |-> 0]]
  /\ handler = [i \in Run |-> "none"]
  /\ store = [i \in Run |-> Absent] /\ journal = [i \in Run |-> Absent]
  /\ watch = [i \in Run |-> "none"] /\ stop = [i \in Run |-> "none"]
  /\ agent = [i \in Run |-> "none"] /\ exit = [i \in Run |-> "none"]
  /\ out = [i \in Run |-> 0]
  /\ up = TRUE /\ loose = {} /\ faults = 0

IsInit(i) == i[1] \in InitClient
Running(i) == store[i].status = "running"

(* First write wins.                                                       *)
Finalized(r, status) == IF r.status = "running" THEN [r EXCEPT !.status = status] ELSE r

(* Mutant: the exit code is taken for a status.                            *)
Mut_RawCode(i) == exit[i]

ByExit(i) == IF exit[i] = "zero" THEN "done" ELSE "error"
Finalize(i, status) == store' = [store EXCEPT ![i] = Finalized(@, status)]

Fault == faults < MaxFaults /\ faults' = faults + 1

(* A write whose failure nobody looks at.                                  *)
Written(i, r) ==
  \/ journal' = [journal EXCEPT ![i] = r] /\ UNCHANGED faults
  \/ Fault /\ UNCHANGED journal

Step(i, pc) == handler' = [handler EXCEPT ![i] = pc]
At(c, pc) == client[c].pc = pc
Goto(c, pc) == client' = [client EXCEPT ![c].pc = pc]

-----------------------------------------------------------------------------
(* The command: post, and follow the run of the answer.                    *)

Post(c) ==
  /\ At(c, "idle") /\ up
  /\ Goto(c, "posted")
  /\ Step(<<c, 1>>, "begin")
  /\ UNCHANGED <<store, journal, watch, stop, process, up, loose, faults>>

Resend(c) ==
  /\ At(c, "resend")
  /\ IF up THEN Goto(c, "posted") /\ Step(<<c, 2>>, "begin")
     ELSE Goto(c, "failed") /\ UNCHANGED handler
  /\ UNCHANGED <<store, journal, watch, stop, process, up, loose, faults>>

Answered(i, run) ==
  client' = [client EXCEPT ![i[1]].pc = "answered", ![i[1]].run = run]

(* An error answer: no run.                                                *)
Refused(i) == Fault /\ Step(i, "none") /\ Goto(i[1], "failed")

(* The stream of a run that the store has, which a backend that is down does *)
(* not: everything that is there, then the status, then once more before the end frame. A line is sent when it   *)
(* is whole; the rest stays in the parser and is flushed with the end.       *)
Connect(c) ==
  /\ At(c, "answered")
  /\ Goto(c, IF store[client[c].run] = Absent THEN "failed" ELSE "drain")
  /\ UNCHANGED <<service, process, up, loose, faults>>

Drain(c) ==
  /\ At(c, "drain")
  /\ client' = [client EXCEPT ![c].pc = "check", ![c].seen = out[client[c].run]]
  /\ UNCHANGED <<service, process, up, loose, faults>>

(* A run that has left the store is reported as done.                      *)
CheckStatus(c) ==
  /\ At(c, "check")
  /\ LET status == store[client[c].run].status
     IN  IF status = "running" THEN Goto(c, "drain")
         ELSE client' = [client EXCEPT ![c].pc = "final",
                           ![c].told = IF status = "absent" THEN "done" ELSE status]
  /\ UNCHANGED <<service, process, up, loose, faults>>

(* Mutant: the tail ends without the second look at the output.            *)
Mut_OneDrain(c) ==
  /\ At(c, "final")
  /\ Goto(c, "closing")
  /\ UNCHANGED <<service, process, up, loose, faults>>

EndStream(c) ==
  /\ At(c, "final")
  /\ client' = [client EXCEPT ![c].seen = out[client[c].run], ![c].pc = "closing"]
  /\ UNCHANGED <<service, process, up, loose, faults>>

Lines(halves) == (halves + 1) \div 2
Sent(c) == IF At(c, "closing") THEN Lines(client[c].seen) + 1 ELSE client[c].seen \div 2

(* What the command holds after a chunk: it kept what trailed of the last.   *)
Buffered(c, k) == client[c].part + k

(* The run's verdict becomes the command's.                                *)
Verdict(told) == IF told = "done" THEN "ok" ELSE "failed"

(* A chunk of what is on its way, cut anywhere. With the last one the        *)
(* connection closes; without an end frame the status is unknown.            *)
Receive(c) ==
  /\ client[c].pc \in Streaming \cup {"closing"}
  /\ \E k \in 1 .. 2 * Sent(c) - client[c].got :
       LET last == At(c, "closing") /\ client[c].got + k = 2 * Sent(c)
           told == IF Buffered(c, k) >= 2 THEN client[c].told ELSE "absent"
       IN  client' = [client EXCEPT
             ![c].got = @ + k,
             ![c].frames = @ + Buffered(c, k) \div 2,
             ![c].part = Buffered(c, k) % 2,
             ![c].told = IF last THEN told ELSE @,
             ![c].pc = IF last THEN Verdict(told) ELSE @]
  /\ UNCHANGED <<service, process, up, loose, faults>>

Drop(c) ==
  /\ client[c].pc \in Streaming \cup {"closing"} /\ Fault
  /\ client' = [client EXCEPT ![c].pc = "failed", ![c].told = "absent"]
  /\ UNCHANGED <<service, process, up, loose>>

-----------------------------------------------------------------------------
(* Spawn and SpawnInit. A plain run is journaled and then put into the store; *)
(* an init run reserves its lane in the store first.                          *)

BeginPlain(i) ==
  /\ handler[i] = "begin" /\ ~IsInit(i)
  /\ \/ /\ journal' = [journal EXCEPT ![i] = Fresh]
        /\ Step(i, "put") /\ UNCHANGED <<client, faults>>
     \/ Refused(i) /\ UNCHANGED journal
  /\ UNCHANGED <<store, watch, stop, process, up, loose>>

Put(i) ==
  /\ handler[i] = "put"
  /\ store' = [store EXCEPT ![i] = Fresh]
  /\ Step(i, "spawn")
  /\ UNCHANGED <<client, journal, watch, stop, process, up, loose, faults>>

(* Mutant: a run whose agent has no pid yet does not hold the lane.        *)
Mut_HoldersWithPid == {j \in Run : IsInit(j) /\ Running(j) /\ store[j].pid}

Holders == {j \in Run : IsInit(j) /\ Running(j)}

BeginInit(i) ==
  /\ handler[i] = "begin" /\ IsInit(i)
  /\ \/ Refused(i) /\ UNCHANGED store
     \/ /\ Holders = {}
        /\ store' = [store EXCEPT ![i] = Fresh]
        /\ Step(i, "journal") /\ UNCHANGED <<client, faults>>
     \/ \E j \in Holders :
          Answered(i, j) /\ Step(i, "none") /\ UNCHANGED <<store, faults>>
  /\ UNCHANGED <<journal, watch, stop, process, up, loose>>

JournalInit(i) ==
  /\ handler[i] = "journal"
  /\ \/ /\ journal' = [journal EXCEPT ![i] = Fresh]
        /\ Step(i, "spawn") /\ UNCHANGED <<client, store, faults>>
     \/ /\ store' = [store EXCEPT ![i] = Absent]
        /\ Refused(i) /\ UNCHANGED journal
  /\ UNCHANGED <<watch, stop, process, up, loose>>

Spawn(i) ==
  /\ handler[i] = "spawn"
  /\ \/ /\ agent' = [agent EXCEPT ![i] = "running"]
        /\ Step(i, "pid") /\ UNCHANGED <<client, store, faults>>
     \/ /\ store' = [store EXCEPT ![i] = Absent]
        /\ Refused(i) /\ UNCHANGED agent
  /\ UNCHANGED <<journal, watch, stop, exit, out, up, loose>>

SetPid(i) ==
  /\ handler[i] = "pid"
  /\ store' = [store EXCEPT ![i].pid = TRUE]
  /\ Step(i, "record")
  /\ UNCHANGED <<client, journal, watch, stop, process, up, loose, faults>>

(* The second record, best effort and from a local copy; then somebody waits *)
(* for the child.                                                            *)
RecordPid(i) ==
  /\ handler[i] = "record"
  /\ Written(i, [Fresh EXCEPT !.pid = TRUE])
  /\ watch' = [watch EXCEPT ![i] = "wait"]
  /\ Step(i, "none") /\ Answered(i, i)
  /\ UNCHANGED <<store, stop, process, up, loose>>

Handle(i) ==
  \/ BeginPlain(i) \/ Put(i) \/ BeginInit(i) \/ JournalInit(i) \/ Spawn(i)
  \/ SetPid(i) \/ RecordPid(i)

-----------------------------------------------------------------------------
(* The agent: a shell that runs it and writes the sentinel after it. SIGTERM *)
(* to the group ends the shell without a sentinel; the agent may linger.     *)

AgentWrites(i) ==
  /\ agent[i] \in {"running", "lingering"} /\ out[i] < MaxHalves
  /\ out' = [out EXCEPT ![i] = @ + 1]
  /\ UNCHANGED <<client, service, agent, exit, up, loose, faults>>

AgentExits(i) ==
  /\ agent[i] = "running"
  /\ agent' = [agent EXCEPT ![i] = "gone"]
  /\ \E code \in {"none", "zero", "other"} : exit' = [exit EXCEPT ![i] = code]
  /\ UNCHANGED <<client, service, out, up, loose, faults>>

LingererDies(i) ==
  /\ agent[i] = "lingering"
  /\ agent' = [agent EXCEPT ![i] = "gone"]
  /\ UNCHANGED <<client, service, exit, out, up, loose, faults>>

PidAlive(i) == agent[i] = "running"

-----------------------------------------------------------------------------
(* Whoever ends the record: the goroutine of the spawn, and for a run of an  *)
(* earlier process the reaper, which looks at the sentinel and then the pid. *)

WaitEnds(i) ==
  /\ watch[i] = "wait" /\ ~PidAlive(i)
  /\ Finalize(i, ByExit(i))
  /\ watch' = [watch EXCEPT ![i] = "rejournal"]
  /\ UNCHANGED <<client, handler, journal, stop, process, up, loose, faults>>

ReadSentinel(i) ==
  /\ watch[i] = "reap"
  /\ IF ~Running(i) THEN watch' = [watch EXCEPT ![i] = "none"] /\ UNCHANGED store
     ELSE IF exit[i] # "none"
          THEN Finalize(i, ByExit(i)) /\ watch' = [watch EXCEPT ![i] = "rejournal"]
          ELSE watch' = [watch EXCEPT ![i] = "look"] /\ UNCHANGED store
  /\ UNCHANGED <<client, handler, journal, stop, process, up, loose, faults>>

ReadPid(i) ==
  /\ watch[i] = "look"
  /\ IF PidAlive(i) THEN watch' = [watch EXCEPT ![i] = "reap"] /\ UNCHANGED store
     ELSE Finalize(i, "error") /\ watch' = [watch EXCEPT ![i] = "rejournal"]
  /\ UNCHANGED <<client, handler, journal, stop, process, up, loose, faults>>

GiveUp(i) ==
  /\ watch[i] = "reap" /\ PidAlive(i) /\ Fault
  /\ Finalize(i, "error") /\ watch' = [watch EXCEPT ![i] = "rejournal"]
  /\ loose' = loose \cup {i}
  /\ UNCHANGED <<client, handler, journal, stop, process, up>>

Rejournal(i) ==
  /\ watch[i] = "rejournal"
  /\ Written(i, store[i])
  /\ watch' = [watch EXCEPT ![i] = "none"]
  /\ UNCHANGED <<client, handler, store, stop, process, up, loose>>

End(i) == WaitEnds(i) \/ ReadSentinel(i) \/ ReadPid(i) \/ Rejournal(i)

-----------------------------------------------------------------------------
(* Stop: the record, the signal to the pid it had, the outcome.            *)

StopGet(i) ==
  /\ up /\ stop[i] = "none" /\ Running(i) /\ Fault
  /\ stop' = [stop EXCEPT ![i] = IF store[i].pid THEN "signal" ELSE "finalize"]
  /\ UNCHANGED <<client, handler, store, journal, watch, process, up, loose>>

StopSignal(i) ==
  /\ stop[i] = "signal"
  /\ stop' = [stop EXCEPT ![i] = "finalize"]
  /\ agent' = [agent EXCEPT ![i] = IF @ = "running" THEN "lingering" ELSE @]
  /\ loose' = loose \cup {i}
  /\ UNCHANGED <<client, handler, store, journal, watch, exit, out, up, faults>>

StopFinalize(i) ==
  /\ stop[i] = "finalize"
  /\ stop' = [stop EXCEPT ![i] = "none"]
  /\ Finalize(i, "error")
  /\ loose' = loose \cup {i}
  /\ UNCHANGED <<client, handler, journal, watch, process, up, faults>>

-----------------------------------------------------------------------------
(* The backend dies: requests, goroutines, streams and the store with it;    *)
(* what a stream that has ended has sent still arrives. A request without an *)
(* answer is sent once more.                                                 *)

(* Mutant: a stream without an end frame counts as a success.              *)
Mut_CutIsSuccess(c) ==
  CASE At(c, "posted") -> [client[c] EXCEPT !.pc =
                             IF handler[<<c, 1>>] # "none" THEN "resend" ELSE "failed"]
    [] client[c].pc \in Streaming -> [client[c] EXCEPT !.pc = "ok",
                                                                         !.told = "absent"]
    [] OTHER -> client[c]

Cut(c) ==
  CASE At(c, "posted") -> [client[c] EXCEPT !.pc =
                             IF handler[<<c, 1>>] # "none" THEN "resend" ELSE "failed"]
    [] client[c].pc \in Streaming -> [client[c] EXCEPT !.pc = "failed",
                                                                             !.told = "absent"]
    [] OTHER -> client[c]

Crash ==
  /\ up /\ Fault /\ up' = FALSE
  /\ client' = [c \in Client |-> Cut(c)]
  /\ handler' = [i \in Run |-> "none"]
  /\ store' = [i \in Run |-> Absent]
  /\ watch' = [i \in Run |-> "none"] /\ stop' = [i \in Run |-> "none"]
  /\ loose' = loose \cup {i \in Run : PidAlive(i) /\ ~journal[i].pid}
  /\ UNCHANGED <<journal, process>>

(* Mutant: a dead pid counts before the sentinel.                          *)
Mut_PidBeforeSentinel(i) ==
  LET r == journal[i]
  IN  IF r.status # "running" \/ (r.pid /\ PidAlive(i)) THEN r
      ELSE [r EXCEPT !.status = "error"]

(* Rehydrate, and a reaper for what still runs.                            *)
Rehydrated(i) ==
  LET r == journal[i]
  IN  IF r.status # "running" THEN r
      ELSE IF exit[i] # "none" THEN [r EXCEPT !.status = ByExit(i)]
      ELSE IF r.pid /\ PidAlive(i) THEN r
      ELSE [r EXCEPT !.status = "error"]

(* Mutant: nobody watches the survivors.                                   *)
Mut_NotReaped(i) == FALSE

Reaped(i) == store'[i].status = "running"

Boot ==
  /\ ~up /\ up' = TRUE
  /\ store' = [i \in Run |-> Rehydrated(i)]
  /\ watch' = [i \in Run |-> IF Reaped(i) THEN "reap" ELSE "none"]
  /\ UNCHANGED <<client, handler, journal, stop, process, loose, faults>>

-----------------------------------------------------------------------------
ClientStep(c) ==
  \/ Resend(c) \/ Connect(c) \/ Drain(c) \/ CheckStatus(c) \/ EndStream(c)
  \/ Receive(c)

Next ==
  \/ \E c \in Client : Post(c) \/ ClientStep(c) \/ Drop(c)
  \/ \E i \in Run : \/ Handle(i) \/ End(i) \/ GiveUp(i)
                    \/ StopGet(i) \/ StopSignal(i) \/ StopFinalize(i)
                    \/ AgentWrites(i) \/ AgentExits(i) \/ LingererDies(i)
  \/ Crash \/ Boot

Spec == Init /\ [][Next]_vars

(* Goroutines and commands go on; the backend is started again by the next   *)
(* command. An agent need not end, nor need anybody post, stop or give up.   *)
FairSpec ==
  /\ Spec /\ WF_vars(Boot)
  /\ \A c \in Client : WF_vars(ClientStep(c))
  /\ \A i \in Run : WF_vars(Handle(i)) /\ WF_vars(End(i))

-----------------------------------------------------------------------------
(* Properties.                                                             *)

(* One privileged agent at a time on an init lane, through double posts, the *)
(* retry of a post whose answer was lost, and restarts. Exempt are agents    *)
(* that the backend has finished with or never knew of: those of stopped     *)
(* runs, those it gave up waiting for, and those whose pid was not on disk   *)
(* when it died (SpawnInit, AC 4.3).                                         *)
InitExclusive ==
  Cardinality({i \in Run \ loose : IsInit(i) /\ agent[i] = "running"}) <= 1

(* A command that was told an outcome has shown everything the agent wrote,   *)
(* whatever was written between the reads of the tail and wherever lines and *)
(* frames were cut, a last line without an end included, unless the run was   *)
(* ended while its agent still wrote.                                        *)
CompleteAtEnd ==
  \A c \in Client :
    LET i == client[c].run
    IN  client[c].pc \in {"ok", "failed"} /\ client[c].told # "absent" /\ i \notin loose
        => client[c].frames - 1 = Lines(out[i])

(* A command says ok only if the agent it followed, which may be another     *)
(* command's, has ended by itself with code zero: a dropped stream, a stop   *)
(* and a restart never read as success. Exempt is a command that was given   *)
(* another's run, which then left the store because its agent could not be   *)
(* started: the stream calls that done (Stream, stream.go 62-65).            *)
Vanished(i) == agent[i] = "none"
TrueVerdict ==
  \A c \in Client :
    LET i == client[c].run
    IN  At(c, "ok") => Vanished(i) \/ (exit[i] = "zero" /\ agent[i] = "gone")

(* A run that a command has reported as done is done in every later process, *)
(* although its journal may still say running when the backend dies; the     *)
(* same one is exempt.                                                       *)
DoneStays ==
  \A c \in Client :
    LET i == client[c].run
    IN  At(c, "ok") /\ up => Vanished(i) \/ store[i].status = "done"

(* A command comes to an end, unless it follows an agent that goes on: also  *)
(* across a lost answer, and across a restart after which nobody waits for   *)
(* the agent as a child (the hang the reaper is there to prevent).           *)
EndReaches ==
  \A c \in Client :
    []<>(\/ client[c].pc \in {"idle", "ok", "failed"}
         \/ At(c, "drain") /\ agent[client[c].run] # "gone")
=============================================================================
