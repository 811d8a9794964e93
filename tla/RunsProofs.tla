----------------------------- MODULE RunsProofs -----------------------------
(* Theorems about Runs, for every number of commands, of half lines an agent *)
(* writes and of faults.                                                     *)
EXTENDS Runs, FiniteSetTheorems, TLAPS

(* A run nobody has worked on.                                             *)
Untouched(i) ==
  /\ agent[i] = "none" /\ exit[i] = "none" /\ watch[i] = "none"
  /\ store[i] = Absent /\ journal[i] = Absent

Ended(i) == store[i].status \in {"done", "error"}

(* The handler of a run works on it alone: nobody waits for its agent yet,  *)
(* and it has left behind what the step before had to.                      *)
HandlerInv(i) ==
  handler[i] # "none" =>
    /\ up /\ watch[i] = "none"
    /\ handler[i] = "begin" => Untouched(i)
    /\ handler[i] = "put" => ~IsInit(i) /\ store[i] = Absent
    /\ handler[i] = "journal" => IsInit(i) /\ journal[i] = Absent
    /\ handler[i] \in {"put", "journal", "spawn"} => agent[i] = "none" /\ exit[i] = "none"
    /\ handler[i] \in {"pid", "record"} => agent[i] # "none"
    /\ handler[i] \in {"put", "spawn", "pid", "record"} => journal[i].status = "running"
    /\ handler[i] \in {"journal", "spawn", "pid", "record"} =>
         Running(i) \/ (store[i].status = "error" /\ i \in loose)

(* Whoever ends a record has a record and an agent.                        *)
WatchInv(i) ==
  watch[i] # "none" =>
    /\ agent[i] # "none" /\ store[i].status # "absent"
    /\ watch[i] = "rejournal" => Ended(i)

(* The agent, its sentinel and what is recorded of them. A run that counts  *)
(* as ended has no agent that goes on, unless it was left behind.           *)
AgentInv(i) ==
  /\ exit[i] # "none" => agent[i] = "gone"
  /\ agent[i] # "none" => journal[i].status # "absent"
  /\ store[i].status = "absent" /\ up => agent[i] = "none"
  /\ agent[i] = "lingering" => i \in loose
  /\ agent[i] = "running" /\ i \notin loose =>
       /\ journal[i].status = "running"
       /\ IF up THEN Running(i) ELSE journal[i].pid
  /\ store[i].status = "done" => exit[i] = "zero"
  /\ journal[i].status = "done" => exit[i] = "zero"
  /\ journal[i].status = "error" /\ up => store[i].status = "error"
  /\ Ended(i) /\ i \notin loose =>
       /\ agent[i] \in {"none", "gone"} /\ handler[i] = "none"
       /\ journal[i].status # "absent"

(* Nothing of the memory outlives the backend.                             *)
DownInv(i) ==
  ~up => handler[i] = "none" /\ store[i] = Absent /\ watch[i] = "none" /\ stop[i] = "none"

(* Whether a request for the run has been made. What none was made for is   *)
(* new, and a command has one request under way at most.                    *)
Used(i) ==
  /\ ~At(i[1], "idle")
  /\ i[2] = 2 => ~At(i[1], "resend") /\ handler[<<i[1], 1>>] = "none"

RequestInv(i) ==
  /\ ~Used(i) => Untouched(i) /\ handler[i] = "none"
  /\ handler[i] # "none" => At(i[1], "posted")

RunInv(i) ==
  HandlerInv(i) /\ WatchInv(i) /\ AgentInv(i) /\ DownInv(i) /\ RequestInv(i)

Early == {"idle", "posted", "resend", "answered"}
Ending == {"final", "closing"}
Over == {"ok", "failed"}

(* What has been delivered is what was sent of what was read, in frames;    *)
(* with the end frame it is all that the agent has written.                 *)
FrameInv(c) ==
  LET l == client[c]
  IN  /\ l.pc \in Early => l.seen = 0 /\ l.got = 0
      /\ 2 * l.frames + l.part = l.got
      /\ l.got <= 2 * (Lines(l.seen) + 1)
      /\ l.pc \in Streaming \cup {"closing"} => l.got <= 2 * Sent(c)
      /\ l.pc \in Streaming => up /\ l.seen <= out[l.run]
      /\ l.pc \in Over /\ l.told # "absent" => l.frames = Lines(l.seen) + 1
      /\ l.pc \in Over \cup {"closing"} /\ l.told # "absent" /\ l.run \notin loose =>
           l.seen = out[l.run]

(* What a command is told stays true of its run, in whatever process.       *)
ToldInv(c) ==
  LET l == client[c]  i == client[c].run
  IN  /\ l.pc \in Streaming \cup {"answered", "closing"} => i \in Run
      /\ l.pc \in Early \cup {"drain", "check"} => l.told = "absent"
      /\ l.pc \in Ending => l.told # "absent"
      /\ l.told # "running"
      /\ l.pc = "ok" => l.told = "done"
      /\ l.told # "absent" =>
           /\ i \in Run /\ Used(i)
           /\ i \notin loose => agent[i] \in {"none", "gone"} /\ handler[i] = "none"
      /\ l.told = "done" =>
           \/ Vanished(i) /\ handler[i] = "none"
           \/ /\ exit[i] = "zero" /\ journal[i].status \in {"running", "done"}
              /\ up => store[i].status = "done"
      /\ l.pc \in Streaming => Used(i) /\ handler[i] \notin {"begin", "put"}

CommandInv(c) == FrameInv(c) /\ ToldInv(c)

(* At most one init run that was not left behind has the lane.              *)
LaneInv ==
  \A i, j \in Run \ loose :
    IsInit(i) /\ IsInit(j) =>
      /\ Running(i) /\ Running(j) => i = j
      /\ agent[i] = "running" /\ agent[j] = "running" => i = j

IInv ==
  /\ TypeOK
  /\ \A i \in Run : RunInv(i)
  /\ \A c \in Client : CommandInv(c)
  /\ LaneInv

-----------------------------------------------------------------------------
(* A run is a command with the number of its request.                      *)
LEMMA RunParts ==
  /\ \A c \in Client : <<c, 1>> \in Run /\ <<c, 2>> \in Run
  /\ \A i \in Run :
       /\ i[1] \in Client /\ i[2] \in {1, 2}
       /\ i = <<i[1], i[2]>>
BY DEF Run

LEMMA InitHolds == Init => IInv
<1> SUFFICES ASSUME Init PROVE IInv
  OBVIOUS
<1>1. TypeOK
  BY RunsConstants DEF Init, TypeOK, Command, Status, Record, Absent, ClientPC, HandlerPC, Streaming
<1>2. ASSUME NEW i \in Run PROVE RunInv(i)
  <2>1. /\ agent[i] = "none" /\ exit[i] = "none" /\ watch[i] = "none" /\ handler[i] = "none"
        /\ store[i] = Absent /\ journal[i] = Absent /\ up
    BY <1>2 DEF Init
  <2> QED
    BY <2>1 DEF RunInv, HandlerInv, WatchInv, AgentInv, DownInv, RequestInv, Untouched, Absent, Ended
<1>3. ASSUME NEW c \in Client PROVE CommandInv(c)
  <2>1. /\ client[c].pc = "idle" /\ client[c].told = "absent" /\ client[c].seen = 0
        /\ client[c].got = 0 /\ client[c].frames = 0 /\ client[c].part = 0
    BY <1>3 DEF Init
  <2>2. Lines(0) = 0
    BY DEF Lines
  <2> QED
    BY <2>1, <2>2 DEF CommandInv, FrameInv, ToldInv, Early, Over, Ending, Streaming
<1>4. LaneInv
  BY DEF Init, LaneInv, Running, Absent
<1> HIDE DEF Init
<1> QED
  BY <1>1, <1>2, <1>3, <1>4, Zenon DEF IInv

-----------------------------------------------------------------------------
(* What a step on runs leaves true of a run that a command follows.         *)
Ages(i) ==
  /\ Used(i) => Used(i)'
  /\ i \in loose => i \in loose'
  /\ out'[i] \in Nat /\ out[i] <= out'[i]
  /\ exit[i] = "zero" => exit'[i] = "zero"
  /\ Used(i) /\ handler[i] \notin {"begin", "put"} => handler'[i] \notin {"begin", "put"}
  /\ Used(i) /\ handler[i] = "none" /\ agent[i] \in {"none", "gone"} =>
       handler'[i] = "none" /\ agent'[i] = agent[i] /\ out'[i] = out[i]
  /\ /\ exit[i] = "zero" /\ journal[i].status \in {"running", "done"}
     /\ up => store[i].status = "done"
     => /\ journal'[i].status \in {"running", "done"}
        /\ up' => store'[i].status = "done"

SameRun(i) ==
  /\ handler'[i] = handler[i] /\ store'[i] = store[i] /\ journal'[i] = journal[i]
  /\ watch'[i] = watch[i] /\ stop'[i] = stop[i]
  /\ agent'[i] = agent[i] /\ exit'[i] = exit[i] /\ out'[i] = out[i]

LEMMA FollowerKept ==
  ASSUME IInv, NEW d \in Client, client'[d] = client[d],
         client[d].run \in Run => Ages(client[d].run),
         client[d].pc \in Streaming => up'
  PROVE  CommandInv(d)'
<1>1. CommandInv(d)
  BY DEF IInv
<1>2. client[d].run \in Run =>
        /\ out[client[d].run] \in Nat /\ out'[client[d].run] \in Nat
        /\ out[client[d].run] <= out'[client[d].run]
  BY RunsConstants DEF IInv, TypeOK, Ages
<1>3. client[d].pc \in Streaming => client[d].seen <= out'[client[d].run]
  <2>1. client[d].seen \in Nat
    BY RunsConstants DEF IInv, TypeOK, Command
  <2>2. client[d].pc \in Streaming =>
          client[d].run \in Run /\ client[d].seen <= out[client[d].run]
    BY <1>1 DEF CommandInv, FrameInv, ToldInv, Streaming
  <2> QED
    BY <1>2, <2>1, <2>2
<1>4. client[d].pc \in Over \cup {"closing"} /\ client[d].told # "absent"
        /\ client[d].run \notin loose' => client[d].seen = out'[client[d].run]
  BY <1>1 DEF CommandInv, FrameInv, ToldInv, Ages
<1>5. Sent(d)' = Sent(d)
  BY DEF Sent, At
<1>6. FrameInv(d)'
  BY <1>1, <1>3, <1>4, <1>5 DEF CommandInv, FrameInv
<1>7. ToldInv(d)'
  BY <1>1 DEF CommandInv, ToldInv, Ages, Vanished, Early, Over, Ending, Streaming
<1> QED
  BY <1>6, <1>7 DEF CommandInv

LEMMA OtherRunKept ==
  ASSUME IInv, NEW j \in Run, SameRun(j), up' = up, loose \subseteq loose',
         Used(j) => Used(j)', handler[j] # "none" => At(j[1], "posted")'
  PROVE  RunInv(j)' /\ Ages(j)
<1>1. RunInv(j) /\ out[j] \in Nat
  BY RunsConstants DEF IInv, TypeOK
<1>2. Ages(j)
  BY <1>1 DEF Ages, SameRun
<1>3. RunInv(j)'
  BY <1>1 DEF RunInv, HandlerInv, WatchInv, AgentInv, DownInv, RequestInv, SameRun, Untouched,
     Ended, Running, IsInit, Absent
<1> QED
  BY <1>2, <1>3

(* A step on one run that no command notices.                              *)
LEMMA RunStepKeeps ==
  ASSUME IInv, TypeOK', NEW i \in Run, \A j \in Run \ {i} : SameRun(j),
         client' = client, handler' = handler, up' = up, loose \subseteq loose',
         RunInv(i)', Ages(i),
         Running(i)' => Running(i), agent'[i] = "running" => agent[i] = "running"
  PROVE  IInv'
<1>1. ASSUME NEW j \in Run PROVE Used(j)' = Used(j) /\ At(j[1], "posted")' = At(j[1], "posted")
  BY DEF Used, At
<1>2. ASSUME NEW j \in Run PROVE RunInv(j)' /\ Ages(j)
  BY <1>1, <1>2, OtherRunKept DEF IInv, RunInv, RequestInv
<1>3. ASSUME NEW d \in Client PROVE CommandInv(d)'
  BY <1>2, <1>3, FollowerKept DEF IInv, CommandInv, FrameInv
<1>4. LaneInv'
  BY DEF IInv, LaneInv, SameRun, Running, IsInit
<1> QED
  BY <1>2, <1>3, <1>4 DEF IInv

-----------------------------------------------------------------------------
(* The command. A step changes fields of its record alone.                 *)
LEMMA GotoTyped ==
  ASSUME client \in [Client -> Command], NEW c \in Client, NEW pc \in ClientPC,
         Goto(c, pc)
  PROVE  /\ client' \in [Client -> Command]
         /\ client'[c].pc = pc /\ client'[c].run = client[c].run
         /\ client'[c].told = client[c].told /\ client'[c].seen = client[c].seen
         /\ client'[c].got = client[c].got /\ client'[c].frames = client[c].frames
         /\ client'[c].part = client[c].part
         /\ \A d \in Client \ {c} : client'[d] = client[d]
<1> DEFINE l == [client[c] EXCEPT !.pc = pc]
<1>1. /\ l \in Command /\ l.pc = pc /\ l.run = client[c].run /\ l.told = client[c].told
      /\ l.seen = client[c].seen /\ l.got = client[c].got
      /\ l.frames = client[c].frames /\ l.part = client[c].part
  BY DEF Command
<1>2. client' = [client EXCEPT ![c] = l]
  BY DEF Goto
<1> QED
  BY <1>1, <1>2

(* A request for a run that is new.                                        *)
LEMMA RequestMade ==
  ASSUME IInv, NEW c \in Client, NEW r \in Run, up, Goto(c, "posted"), Step(r, "begin"),
         UNCHANGED <<store, journal, watch, stop, process, up, loose, faults>>,
         \/ At(c, "idle") /\ r = <<c, 1>>
         \/ At(c, "resend") /\ r = <<c, 2>>
  PROVE  IInv'
<1> USE RunParts
<1>1. /\ client' \in [Client -> Command]
      /\ client'[c].pc = "posted" /\ client'[c].told = client[c].told
      /\ client'[c].seen = client[c].seen /\ client'[c].got = client[c].got
      /\ client'[c].frames = client[c].frames /\ client'[c].part = client[c].part
      /\ \A d \in Client \ {c} : client'[d] = client[d]
  BY GotoTyped DEF IInv, TypeOK, ClientPC
<1>2. /\ handler' \in [Run -> HandlerPC] /\ handler'[r] = "begin"
      /\ \A j \in Run \ {r} : handler'[j] = handler[j]
  BY DEF Step, IInv, TypeOK, HandlerPC
<1>3. /\ UNCHANGED <<agent, exit, out, store, journal, watch, stop, up, loose>>
      /\ r[1] = c /\ out[r] \in Nat
  BY RunsConstants DEF process, IInv, TypeOK
<1>4. ~Used(r) /\ RunInv(r) /\ Untouched(r)
  BY DEF Used, At, IInv, RunInv, RequestInv
<1>5. TypeOK'
  BY <1>1, <1>2 DEF IInv, TypeOK, process
<1>6. RunInv(r)' /\ Ages(r)
  <2>1. handler[<<c, 1>>] = "none"
    BY DEF IInv, RunInv, RequestInv, At, Used
  <2>2. Used(r)'
    BY <2>1, <1>1, <1>2 DEF Used, At
  <2>3. RunInv(r)'
    BY <2>2, <1>1, <1>2, <1>3, <1>4 DEF RunInv, HandlerInv, WatchInv, AgentInv, DownInv, RequestInv,
       Untouched, Ended, Running, At, Absent
  <2>4. Ages(r)
    BY <1>3, <1>4 DEF Ages, Untouched, Absent
  <2> QED
    BY <2>3, <2>4
<1>7. ASSUME NEW i \in Run \ {r} PROVE RunInv(i)' /\ Ages(i)
  <2>1. SameRun(i) /\ RunInv(i)
    BY <1>2, <1>3 DEF SameRun, IInv
  <2>2. Used(i) => Used(i)'
    <3>1. CASE i[1] # c
      BY <3>1, <1>1, <1>2 DEF Used, At
    <3>2. CASE i[1] = c
      BY <3>2, <1>1, <1>2 DEF Used, At
    <3> QED
      BY <3>1, <3>2
  <2>3. handler[i] # "none" => At(i[1], "posted")'
    BY <2>1, <1>1 DEF RunInv, RequestInv, At
  <2> QED
    BY <1>3, <2>1, <2>2, <2>3, OtherRunKept
<1>8. ASSUME NEW d \in Client PROVE CommandInv(d)'
  <2>1. CASE d # c
    BY <2>1, <1>1, <1>3, <1>6, <1>7, FollowerKept
  <2>2. CASE d = c
    <3>1. CommandInv(c)
      BY DEF IInv
    <3> QED
      BY <2>2, <3>1, <1>1 DEF At, CommandInv, FrameInv, ToldInv, Early, Over, Ending, Streaming
  <2> QED
    BY <2>1, <2>2
<1>9. LaneInv'
  BY <1>3 DEF IInv, LaneInv, Running, IsInit
<1> QED
  BY <1>5, <1>6, <1>7, <1>8, <1>9 DEF IInv

(* A command that goes on where it has its answer.                         *)
LEMMA CommandGoesOn ==
  ASSUME IInv, NEW c \in Client, TypeOK', CommandInv(c)',
         UNCHANGED <<service, process, up, loose>>,
         \A d \in Client \ {c} : client'[d] = client[d],
         client[c].pc \notin {"idle", "posted", "resend"},
         client'[c].pc \notin {"idle", "posted", "resend"}
  PROVE  IInv'
<1> USE RunParts
<1>1. /\ UNCHANGED <<handler, store, journal, watch, stop, agent, exit, out>>
      /\ \A i \in Run : out[i] \in Nat
  BY RunsConstants DEF service, process, IInv, TypeOK
<1>2. ASSUME NEW i \in Run PROVE RunInv(i)' /\ Ages(i)
  <2>1. SameRun(i) /\ RunInv(i)
    BY <1>1 DEF SameRun, IInv
  <2>2. Used(i) => Used(i)'
    BY <1>1 DEF Used, At
  <2>3. handler[i] # "none" => At(i[1], "posted")'
    BY <2>1 DEF RunInv, RequestInv, At
  <2> QED
    BY <2>1, <2>2, <2>3, OtherRunKept
<1>3. ASSUME NEW d \in Client PROVE CommandInv(d)'
  BY <1>2, FollowerKept DEF IInv, CommandInv, FrameInv
<1>4. LaneInv'
  BY <1>1 DEF IInv, LaneInv, Running, IsInit
<1> QED
  BY <1>2, <1>3, <1>4 DEF IInv

-----------------------------------------------------------------------------
(* Agents, stops, and whoever ends a record.                               *)
LEMMA AgentSteps ==
  ASSUME IInv, NEW i \in Run, AgentWrites(i) \/ AgentExits(i) \/ LingererDies(i)
  PROVE  IInv'
<1>1. TypeOK'
  <2>1. CASE AgentWrites(i)
    BY <2>1, RunsConstants DEF AgentWrites, service, IInv, TypeOK
  <2>2. CASE AgentExits(i) \/ LingererDies(i)
    BY <2>2 DEF AgentExits, LingererDies, service, IInv, TypeOK
  <2> QED
    BY <2>1, <2>2
<1>2. \A j \in Run \ {i} : SameRun(j)
  BY DEF AgentWrites, AgentExits, LingererDies, service, IInv, TypeOK, SameRun
<1>3. /\ RunInv(i) /\ out[i] \in Nat /\ agent[i] \in {"running", "lingering"}
      /\ UNCHANGED <<client, handler, store, journal, watch, stop, up, loose>>
  BY RunsConstants DEF IInv, TypeOK, AgentWrites, AgentExits, LingererDies, service
<1>4. /\ agent'[i] = agent[i] \/ agent'[i] = "gone"
      /\ exit'[i] # exit[i] => agent'[i] = "gone" /\ agent[i] = "running"
      /\ out'[i] \in Nat /\ out[i] <= out'[i]
  BY <1>3, RunsConstants DEF IInv, TypeOK, AgentWrites, AgentExits, LingererDies
<1>5. RunInv(i)'
  BY <1>3, <1>4 DEF RunInv, HandlerInv, WatchInv, AgentInv, DownInv, RequestInv, Untouched,
     Ended, Running, IsInit, Used, At
<1>6. Ages(i)
  BY <1>3, <1>4 DEF RunInv, AgentInv, Ages, Used, At
<1> QED
  BY <1>1, <1>2, <1>3, <1>4, <1>5, <1>6, RunStepKeeps DEF Running

LEMMA FinalizedRecord ==
  ASSUME NEW r \in Record, NEW status \in {"done", "error"}
  PROVE  /\ Finalized(r, status) \in Record
         /\ Finalized(r, status).status =
              IF r.status = "running" THEN status ELSE r.status
BY DEF Finalized, Record, Status

LEMMA StopSteps ==
  ASSUME IInv, NEW i \in Run, StopGet(i) \/ StopSignal(i) \/ StopFinalize(i)
  PROVE  IInv'
<1>1. /\ store[i] \in Record /\ Finalized(store[i], "error") \in Record
      /\ Finalized(store[i], "error").status =
           IF Running(i) THEN "error" ELSE store[i].status
  BY FinalizedRecord DEF IInv, TypeOK, Running
<1>2. TypeOK'
  <2>1. CASE StopGet(i)
    BY <2>1, RunsConstants DEF StopGet, Fault, process, IInv, TypeOK
  <2>2. CASE StopSignal(i) \/ StopFinalize(i)
    BY <2>2, <1>1 DEF StopSignal, StopFinalize, Finalize, process, IInv, TypeOK
  <2> QED
    BY <2>1, <2>2
<1>3. \A j \in Run \ {i} : SameRun(j)
  BY DEF StopGet, StopSignal, StopFinalize, Finalize, process, IInv, TypeOK, SameRun
<1>4. /\ RunInv(i) /\ out[i] \in Nat /\ (stop[i] # "none" \/ up)
      /\ UNCHANGED <<client, handler, journal, watch, exit, out, up>>
      /\ loose \subseteq loose'
  BY RunsConstants DEF IInv, TypeOK, StopGet, StopSignal, StopFinalize, process
<1>5. \/ /\ store'[i] = store[i]
         /\ \/ agent'[i] = agent[i]
            \/ agent[i] = "running" /\ agent'[i] = "lingering" /\ i \in loose'
      \/ /\ agent'[i] = agent[i] /\ i \in loose'
         /\ store'[i].status = IF Running(i) THEN "error" ELSE store[i].status
         /\ ~Running(i) => store'[i] = store[i]
  BY <1>1 DEF StopGet, StopSignal, StopFinalize, Finalize, Finalized, process, IInv, TypeOK, Running
<1>6. up
  BY <1>4 DEF RunInv, DownInv
<1>7. RunInv(i)'
  <2>1. HandlerInv(i)'
    BY <1>4, <1>5, <1>6 DEF RunInv, HandlerInv, AgentInv, Untouched, Running, IsInit, Ended, Absent
  <2>2. WatchInv(i)'
    BY <1>4, <1>5, <1>6 DEF RunInv, WatchInv, Ended, Running, ByExit
  <2>3. AgentInv(i)'
    BY <1>4, <1>5, <1>6 DEF RunInv, WatchInv, AgentInv, Ended, Running, ByExit
  <2>4. DownInv(i)' /\ RequestInv(i)'
    BY <1>4, <1>5, <1>6 DEF RunInv, DownInv, RequestInv, Untouched, Used, At, Running, Absent
  <2> QED
    BY <2>1, <2>2, <2>3, <2>4 DEF RunInv
<1>8. Ages(i)
  BY <1>4, <1>5, <1>6 DEF RunInv, AgentInv, Ages, Used, At, Running
<1> QED
  BY <1>2, <1>3, <1>4, <1>5, <1>7, <1>8, RunStepKeeps DEF Running

LEMMA EndSteps ==
  ASSUME IInv, NEW i \in Run, End(i) \/ GiveUp(i)
  PROVE  IInv'
<1>1. /\ store[i] \in Record
      /\ \A status \in {"done", "error"} :
           /\ Finalized(store[i], status) \in Record
           /\ Finalized(store[i], status).status =
                IF Running(i) THEN status ELSE store[i].status
  BY FinalizedRecord DEF IInv, TypeOK, Running
<1>2. ByExit(i) \in {"done", "error"}
  BY DEF ByExit
<1>3. TypeOK'
  <2>1. CASE WaitEnds(i) \/ ReadSentinel(i) \/ ReadPid(i)
    BY <2>1, <1>1, <1>2 DEF WaitEnds, ReadSentinel, ReadPid, Finalize, process, IInv, TypeOK
  <2>2. CASE GiveUp(i)
    BY <2>2, <1>1, RunsConstants DEF GiveUp, Fault, Finalize, process, IInv, TypeOK
  <2>3. CASE Rejournal(i)
    BY <2>3, <1>1, RunsConstants DEF Rejournal, Written, Fault, process, IInv, TypeOK
  <2> QED
    BY <2>1, <2>2, <2>3 DEF End
<1>4. \A j \in Run \ {i} : SameRun(j)
  BY DEF End, GiveUp, WaitEnds, ReadSentinel, ReadPid, Rejournal, Written, Finalize, process, IInv,
     TypeOK, SameRun
<1>5. /\ RunInv(i) /\ out[i] \in Nat /\ watch[i] # "none"
      /\ store[i].status \in {"absent", "running", "done", "error"}
      /\ agent[i] \in {"none", "running", "lingering", "gone"}
      /\ UNCHANGED <<client, handler, stop, agent, exit, out, up>>
      /\ loose \subseteq loose'
  BY RunsConstants DEF IInv, TypeOK, Record, Status, End, GiveUp, WaitEnds, ReadSentinel, ReadPid,
     Rejournal, process
<1>6. \/ /\ store'[i] = store[i] /\ watch'[i] \in {"none", "look", "reap"}
         /\ journal'[i] = journal[i]
      \/ /\ store'[i] = store[i] /\ watch'[i] = "none" /\ watch[i] = "rejournal"
         /\ journal'[i] = store[i]
      \/ /\ store'[i].status = IF Running(i) THEN ByExit(i) ELSE store[i].status
         /\ agent[i] # "running" \/ exit[i] # "none"
         /\ watch'[i] = "rejournal" /\ journal'[i] = journal[i]
      \/ /\ store'[i].status = IF Running(i) THEN "error" ELSE store[i].status
         /\ agent[i] # "running" \/ i \in loose'
         /\ watch'[i] = "rejournal" /\ journal'[i] = journal[i]
  <2>1. CASE WaitEnds(i) \/ ReadSentinel(i)
    BY <2>1, <1>1, <1>2 DEF WaitEnds, ReadSentinel, PidAlive, Finalize, IInv, TypeOK
  <2>2. CASE ReadPid(i) \/ GiveUp(i)
    BY <2>2, <1>1 DEF ReadPid, GiveUp, PidAlive, Finalize, IInv, TypeOK
  <2>3. CASE Rejournal(i)
    BY <2>3 DEF Rejournal, Written, IInv, TypeOK
  <2> QED
    BY <2>1, <2>2, <2>3 DEF End
<1>7. RunInv(i)'
  <2>1. HandlerInv(i)'
    BY <1>5, <1>6 DEF RunInv, HandlerInv, AgentInv, Untouched, Running, IsInit, Ended, Absent
  <2>2. WatchInv(i)'
    BY <1>5, <1>6 DEF RunInv, WatchInv, Ended, Running, ByExit
  <2>3. AgentInv(i)'
    BY <1>5, <1>6 DEF RunInv, HandlerInv, WatchInv, AgentInv, Ended, Running, ByExit
  <2>4. DownInv(i)' /\ RequestInv(i)'
    BY <1>5, <1>6 DEF RunInv, DownInv, RequestInv, Untouched, Used, At, Running, Absent
  <2> QED
    BY <2>1, <2>2, <2>3, <2>4 DEF RunInv
<1>8. Ages(i)
  BY <1>5, <1>6 DEF RunInv, AgentInv, WatchInv, DownInv, Ages, Used, At, Running, Ended, ByExit
<1> QED
  BY <1>3, <1>4, <1>5, <1>6, <1>7, <1>8, RunStepKeeps DEF Running, ByExit

-----------------------------------------------------------------------------
(* The command after it has its answer.                                    *)
LEMMA Halves ==
  ASSUME NEW m \in Nat, NEW n \in Nat, m <= n
  PROVE  /\ m \div 2 \in Nat /\ m \div 2 <= n \div 2 /\ n \div 2 <= Lines(n)
         /\ Lines(m) \in Nat /\ Lines(n) \in Nat /\ Lines(m) <= Lines(n)
         /\ Lines(n) <= n
BY DEF Lines

LEMMA CommandSteps ==
  ASSUME IInv, NEW c \in Client,
         Connect(c) \/ Drain(c) \/ CheckStatus(c) \/ EndStream(c) \/ Drop(c)
  PROVE  IInv'
<1> DEFINE l == client[c]
<1> DEFINE i == l.run
<1>1. /\ l \in Command /\ CommandInv(c) /\ i \in Run
      /\ UNCHANGED <<service, process, up, loose>>
  BY DEF IInv, TypeOK, Connect, Drain, CheckStatus, EndStream, Drop, CommandInv, ToldInv, At, Streaming
<1>2. /\ RunInv(i) /\ out[i] \in 0 .. MaxHalves
      /\ store[i].status \in {"absent", "running", "done", "error"}
      /\ journal[i].status \in {"absent", "running", "done", "error"}
      /\ handler[i] \in HandlerPC
      /\ UNCHANGED <<handler, store, journal, agent, exit, out>>
  BY <1>1 DEF IInv, TypeOK, service, process, Record, Status
<1>3. /\ l.seen \in Nat /\ l.got \in Nat /\ l.frames \in Nat /\ l.part \in Nat
      /\ out[i] \in Nat
  BY <1>1, <1>2, RunsConstants DEF Command
<1>4. client \in [Client -> Command]
  BY DEF IInv, TypeOK
<1>5. ASSUME NEW k \in Command, client' = [client EXCEPT ![c] = k]
      PROVE  /\ client' \in [Client -> Command] /\ client'[c] = k
             /\ \A d \in Client \ {c} : client'[d] = client[d]
  BY <1>4, <1>5
<1>6. /\ client' \in [Client -> Command]
      /\ \A d \in Client \ {c} : client'[d] = client[d]
      /\ client'[c].run = i /\ client'[c].got = l.got /\ client'[c].frames = l.frames
      /\ client'[c].part = l.part
      /\ \/ /\ l.pc = "answered" /\ client'[c].seen = l.seen /\ client'[c].told = l.told
            /\ client'[c].pc = IF store[i] = Absent THEN "failed" ELSE "drain"
         \/ /\ l.pc = "drain" /\ client'[c].seen = out[i] /\ client'[c].told = l.told
            /\ client'[c].pc = "check"
         \/ /\ l.pc = "check" /\ client'[c].seen = l.seen /\ Running(i)
            /\ client'[c].told = l.told /\ client'[c].pc = "drain"
         \/ /\ l.pc = "check" /\ client'[c].seen = l.seen /\ ~Running(i)
            /\ client'[c].told = IF store[i].status = "absent" THEN "done" ELSE store[i].status
            /\ client'[c].pc = "final"
         \/ /\ l.pc = "final" /\ client'[c].seen = out[i] /\ client'[c].told = l.told
            /\ client'[c].pc = "closing"
         \/ /\ l.pc \in Streaming \cup {"closing"} /\ client'[c].seen = l.seen /\ client'[c].told = "absent"
            /\ client'[c].pc = "failed"
  <2>1. CASE Connect(c)
    <3> DEFINE k == [l EXCEPT !.pc = IF store[i] = Absent THEN "failed" ELSE "drain"]
    <3>1. /\ k \in Command /\ k.run = i /\ k.got = l.got /\ k.frames = l.frames
          /\ k.part = l.part /\ k.seen = l.seen /\ k.told = l.told
          /\ k.pc = IF store[i] = Absent THEN "failed" ELSE "drain"
      BY <1>1, <1>2 DEF Command, ClientPC, Streaming, Status
    <3>2. client' = [client EXCEPT ![c] = k]
      BY <2>1, <1>2 DEF Connect, Goto
    <3> QED
      BY <2>1, <3>1, <3>2, <1>5 DEF Connect, At
  <2>2. CASE Drain(c)
    <3> DEFINE k == [l EXCEPT !.pc = "check", !.seen = out[i]]
    <3>1. /\ k \in Command /\ k.run = i /\ k.got = l.got /\ k.frames = l.frames
          /\ k.part = l.part /\ k.seen = out[i] /\ k.told = l.told
          /\ k.pc = "check"
      BY <1>1, <1>2 DEF Command, ClientPC, Streaming, Status
    <3>2. client' = [client EXCEPT ![c] = k]
      BY <2>2, <1>2 DEF Drain, Goto
    <3> QED
      BY <2>2, <3>1, <3>2, <1>5 DEF Drain, At
  <2>3. CASE CheckStatus(c) /\ Running(i)
    <3> DEFINE k == [l EXCEPT !.pc = "drain"]
    <3>1. /\ k \in Command /\ k.run = i /\ k.got = l.got /\ k.frames = l.frames
          /\ k.part = l.part /\ k.seen = l.seen /\ k.told = l.told /\ k.pc = "drain"
      BY <1>1 DEF Command, ClientPC, Streaming
    <3>2. client' = [client EXCEPT ![c] = k]
      BY <2>3 DEF CheckStatus, Goto, Running
    <3> QED
      BY <2>3, <3>1, <3>2, <1>5 DEF CheckStatus, At
  <2>4. CASE CheckStatus(c) /\ ~Running(i)
    <3> DEFINE told == IF store[i].status = "absent" THEN "done" ELSE store[i].status
    <3> DEFINE k == [l EXCEPT !.pc = "final", !.told = told]
    <3>1. /\ k \in Command /\ k.run = i /\ k.got = l.got /\ k.frames = l.frames
          /\ k.part = l.part /\ k.seen = l.seen /\ k.told = told /\ k.pc = "final"
      BY <1>1, <1>2 DEF Command, ClientPC, Streaming, Status
    <3>2. client' = [client EXCEPT ![c] = k]
      BY <2>4 DEF CheckStatus, Goto, Running
    <3> QED
      BY <2>4, <3>1, <3>2, <1>5 DEF CheckStatus, At
  <2>5. CASE EndStream(c)
    <3> DEFINE k == [l EXCEPT !.seen = out[i], !.pc = "closing"]
    <3>1. /\ k \in Command /\ k.run = i /\ k.got = l.got /\ k.frames = l.frames
          /\ k.part = l.part /\ k.seen = out[i] /\ k.told = l.told
          /\ k.pc = "closing"
      BY <1>1, <1>2 DEF Command, ClientPC, Streaming, Status
    <3>2. client' = [client EXCEPT ![c] = k]
      BY <2>5, <1>2 DEF EndStream, Goto
    <3> QED
      BY <2>5, <3>1, <3>2, <1>5 DEF EndStream, At
  <2>6. CASE Drop(c)
    <3> DEFINE k == [l EXCEPT !.pc = "failed", !.told = "absent"]
    <3>1. /\ k \in Command /\ k.run = i /\ k.got = l.got /\ k.frames = l.frames
          /\ k.part = l.part /\ k.seen = l.seen /\ k.told = "absent"
          /\ k.pc = "failed"
      BY <1>1, <1>2 DEF Command, ClientPC, Streaming, Status
    <3>2. client' = [client EXCEPT ![c] = k]
      BY <2>6, <1>2 DEF Drop, Goto
    <3> QED
      BY <2>6, <3>1, <3>2, <1>5 DEF Drop, At
  <2> QED
    BY <2>1, <2>2, <2>3, <2>4, <2>5, <2>6
<1>7. TypeOK'
  BY <1>1, <1>6, RunsConstants DEF IInv, TypeOK, service, process, Drop, Fault, Connect, Drain,
     CheckStatus, EndStream
<1>8. /\ FrameInv(c) /\ ToldInv(c) /\ AgentInv(i) /\ HandlerInv(i) /\ DownInv(i)
      /\ 2 * l.frames + l.part = l.got /\ l.got <= 2 * (Lines(l.seen) + 1)
      /\ Sent(c) = IF l.pc = "closing" THEN Lines(l.seen) + 1 ELSE l.seen \div 2
  BY <1>1, <1>2 DEF CommandInv, RunInv, FrameInv, Sent, At
<1>9. FrameInv(c)'
  <2>1. Sent(c)' = IF client'[c].pc = "closing" THEN Lines(client'[c].seen) + 1
                   ELSE client'[c].seen \div 2
    BY DEF Sent, At
  <2>2. CASE l.pc = "answered"
    <3>1. l.seen = 0 /\ l.got = 0 /\ l.told = "absent" /\ (store[i] # Absent => up)
      BY <1>8, <2>2 DEF FrameInv, ToldInv, DownInv, Early
    <3>2. /\ client'[c].seen = 0 /\ client'[c].told = "absent" /\ client'[c].pc \in {"drain", "failed"}
          /\ client'[c].pc = "drain" => up
      BY <1>6, <2>2, <3>1 DEF Streaming
    <3>3. 0 \div 2 = 0 /\ Lines(0) = 0
      BY DEF Lines
    <3>4. client'[c].got = 0 /\ 2 * client'[c].frames + client'[c].part = 0
      BY <1>6, <1>8, <3>1
    <3>5. Sent(c)' = 0
      BY <2>1, <3>2, <3>3
    <3>6. client'[c].pc = "drain" => up' /\ client'[c].seen <= out'[client'[c].run]
      BY <1>1, <1>2, <1>3, <1>6, <3>2
    <3> QED
      BY <3>2, <3>3, <3>4, <3>5, <3>6 DEF FrameInv, Early, Over, Streaming
  <2>3. CASE l.pc = "drain" /\ client'[c].pc = "check"
    <3>1. l.seen <= out[i] /\ up /\ l.got <= 2 * (l.seen \div 2) /\ client'[c].seen = out[i]
      BY <1>6, <1>8, <2>3 DEF FrameInv, Streaming
    <3>2. l.seen \div 2 <= out[i] \div 2 /\ Lines(l.seen) <= Lines(out[i])
          /\ out[i] \div 2 \in Nat /\ l.seen \div 2 \in Nat /\ Lines(l.seen) \in Nat
          /\ Lines(out[i]) \in Nat
      <4>1. l.seen \in Nat /\ out[i] \in Nat /\ l.seen <= out[i]
        BY <1>3, <3>1
      <4> HIDE DEF l, i
      <4> QED
        BY <4>1, Halves, SMTT(30)
    <3> QED
      BY <1>1, <1>2, <1>3, <1>6, <1>8, <2>1, <2>3, <3>1, <3>2 DEF FrameInv, Early, Over, Streaming
  <2>4. CASE client'[c].seen = l.seen /\ client'[c].pc \in {"drain", "final"} /\ l.pc = "check"
    BY <1>1, <1>2, <1>3, <1>6, <1>8, <2>1, <2>4 DEF FrameInv, Early, Over, Streaming
  <2>5. CASE l.pc = "final" /\ client'[c].pc = "closing"
    <3>1. l.seen <= out[i] /\ l.got <= 2 * (l.seen \div 2) /\ client'[c].seen = out[i]
      BY <1>6, <1>8, <2>5 DEF FrameInv, Streaming
    <3>2. /\ out[i] \div 2 <= Lines(out[i]) /\ out[i] \div 2 \in Nat /\ Lines(out[i]) \in Nat
          /\ l.seen \div 2 <= out[i] \div 2 /\ l.seen \div 2 \in Nat
      <4>1. l.seen \in Nat /\ out[i] \in Nat /\ l.seen <= out[i]
        BY <1>3, <3>1
      <4> HIDE DEF l, i
      <4> QED
        BY <4>1, Halves, SMTT(30)
    <3> QED
      BY <1>1, <1>2, <1>3, <1>6, <1>8, <2>1, <2>5, <3>1, <3>2 DEF FrameInv, Early, Over, Streaming
  <2>6. CASE client'[c].pc = "failed" /\ client'[c].told = "absent" /\ client'[c].seen = l.seen
    BY <1>3, <1>6, <1>8, <2>6 DEF FrameInv, Early, Over, Streaming
  <2> QED
    BY <1>6, <2>2, <2>3, <2>4, <2>5, <2>6 DEF Streaming
<1>10. ToldInv(c)'
  <2>1. (l.pc # "answered" => Used(i)) /\ (store[i] # Absent => Used(i))
    BY <1>2, <1>6, <1>8 DEF ToldInv, RunInv, RequestInv, Untouched, Streaming, Ending
  <2>2. Used(i) => Used(i)'
    BY <1>1, <1>2, <1>6, RunParts DEF Used, At, Streaming
  <2>3. CASE l.pc \in {"answered", "drain"} \/ client'[c].pc \in {"drain", "failed", "closing"}
    BY <1>1, <1>2, <1>6, <1>8, <2>1, <2>2, <2>3 DEF ToldInv, RunInv, HandlerInv, Untouched, Vanished,
       Absent, Early, Ending, Streaming
  <2>4. CASE l.pc = "check" /\ client'[c].pc = "final"
    BY <1>1, <1>2, <1>6, <1>8, <2>1, <2>2, <2>4 DEF ToldInv, FrameInv, RunInv, HandlerInv, AgentInv,
       Vanished, Running, Ended, Early, Ending, Streaming, HandlerPC
  <2> QED
    BY <1>6, <2>3, <2>4
<1> QED
  BY <1>1, <1>6, <1>7, <1>9, <1>10, CommandGoesOn DEF CommandInv, Connect, Drain, CheckStatus, EndStream,
     Drop, At, Streaming

LEMMA Halved ==
  ASSUME NEW n \in Nat
  PROVE  n \div 2 \in Nat /\ (n % 2) \in {0, 1} /\ n = 2 * (n \div 2) + (n % 2)
OBVIOUS

(* Frames that were delivered, and the half of one that was not yet.        *)
LEMMA Delivered ==
  ASSUME NEW frames \in Nat, NEW part \in Nat, NEW k \in Nat, k > 0, NEW lines \in Nat,
         NEW q \in Nat, NEW p \in {0, 1}, part + k = 2 * q + p,
         2 * frames + part + k <= 2 * (lines + 1)
  PROVE  /\ frames + q \in Nat /\ 2 * (frames + q) + p = 2 * frames + part + k
         /\ frames + q <= lines + 1
         /\ 2 * frames + part + k = 2 * (lines + 1) =>
              p = 0 /\ part + k >= 2 /\ frames + q = lines + 1
<1>1. CASE p = 0
  BY <1>1
<1>2. CASE p = 1
  BY <1>2
<1> QED
  BY <1>1, <1>2

LEMMA ReceiveStep ==
  ASSUME IInv, NEW c \in Client, Receive(c)
  PROVE  IInv'
<1> DEFINE l == client[c]
<1> DEFINE i == l.run
<1>1. /\ l \in Command /\ client \in [Client -> Command] /\ FrameInv(c) /\ ToldInv(c)
      /\ l.pc \in Streaming \cup {"closing"} /\ UNCHANGED <<service, process, up, loose, faults>>
  BY DEF IInv, TypeOK, CommandInv, Receive
<1>2. /\ l.seen \in 0 .. MaxHalves /\ l.seen \in Nat /\ l.got \in Nat /\ l.frames \in Nat
      /\ l.part \in Nat /\ l.told \in Status /\ l.pc \in ClientPC /\ i \in Run
  BY <1>1, RunsConstants DEF Command, ToldInv
<1>3. /\ Sent(c) = IF l.pc = "closing" THEN Lines(l.seen) + 1 ELSE l.seen \div 2
      /\ l.got <= 2 * Sent(c) /\ 2 * l.frames + l.part = l.got
  BY <1>1 DEF Sent, At, FrameInv
<1>4. /\ Lines(l.seen) \in Nat /\ Sent(c) \in Nat /\ Sent(c) <= Lines(l.seen) + 1
      /\ Lines(l.seen) <= MaxHalves
  <2>1. /\ l.seen \div 2 \in Nat /\ l.seen \div 2 <= Lines(l.seen) /\ Lines(l.seen) \in Nat
        /\ Lines(l.seen) <= l.seen
    BY <1>2, Halves DEF Lines
  <2> QED
    BY <1>2, <1>3, <2>1, RunsConstants
<1>5. PICK k \in 1 .. 2 * Sent(c) - l.got :
        LET last == At(c, "closing") /\ l.got + k = 2 * Sent(c)
            told == IF Buffered(c, k) >= 2 THEN l.told ELSE "absent"
        IN  client' = [client EXCEPT
              ![c].got = @ + k,
              ![c].frames = @ + Buffered(c, k) \div 2,
              ![c].part = Buffered(c, k) % 2,
              ![c].told = IF last THEN told ELSE @,
              ![c].pc = IF last THEN Verdict(told) ELSE @]
  BY DEF Receive
<1> DEFINE last == At(c, "closing") /\ l.got + k = 2 * Sent(c)
<1> DEFINE b == l.part + k
<1>6. /\ k \in Nat /\ k > 0 /\ l.got + k <= 2 * Sent(c)
      /\ b \in Nat
  BY <1>2, <1>4
<1>7. PICK q \in Nat, p \in {0, 1} : q = b \div 2 /\ p = b % 2 /\ b = 2 * q + p
  BY <1>6, Halved
<1> DEFINE frames == l.frames + q
<1>8. /\ frames \in Nat /\ 2 * frames + p = l.got + k
      /\ frames <= Lines(l.seen) + 1 /\ frames \in 0 .. MaxHalves + 1
      /\ l.got + k = 2 * (Lines(l.seen) + 1) => p = 0 /\ b >= 2 /\ frames = Lines(l.seen) + 1
  <2>1. 2 * l.frames + l.part + k = l.got + k
    BY <1>2, <1>3, <1>6
  <2>2. l.got + k <= 2 * (Lines(l.seen) + 1)
    BY <1>2, <1>4, <1>6
  <2>3. /\ frames \in Nat /\ 2 * frames + p = l.got + k /\ frames <= Lines(l.seen) + 1
        /\ l.got + k = 2 * (Lines(l.seen) + 1) => p = 0 /\ b >= 2 /\ frames = Lines(l.seen) + 1
    <3>1. /\ l.frames \in Nat /\ l.part \in Nat /\ Lines(l.seen) \in Nat
          /\ 2 * l.frames + l.part + k <= 2 * (Lines(l.seen) + 1)
          /\ l.part + k = 2 * q + p
      BY <1>2, <1>4, <1>7, <2>1, <2>2
    <3>2. /\ l.frames + q \in Nat /\ 2 * (l.frames + q) + p = 2 * l.frames + l.part + k
          /\ l.frames + q <= Lines(l.seen) + 1
          /\ 2 * l.frames + l.part + k = 2 * (Lines(l.seen) + 1) =>
               p = 0 /\ l.part + k >= 2 /\ l.frames + q = Lines(l.seen) + 1
      BY <1>6, <3>1, Delivered
    <3> QED
      BY <2>1, <3>2
  <2> QED
    BY <1>4, <2>3, RunsConstants
<1>9. last => p = 0 /\ b >= 2 /\ frames = Lines(l.seen) + 1
  BY <1>3, <1>8 DEF At
<1> HIDE DEF frames
<1> DEFINE pc == IF last THEN Verdict(l.told) ELSE l.pc
<1>10. /\ pc \in ClientPC
       /\ last => pc = IF l.told = "done" THEN "ok" ELSE "failed"
  BY <1>2 DEF Verdict, ClientPC
<1> DEFINE m == [l EXCEPT !.got = l.got + k, !.frames = frames, !.part = p, !.told = l.told,
                          !.pc = pc]
<1>11. client' = [client EXCEPT ![c] = m]
  <2>1. frames = l.frames + Buffered(c, k) \div 2 /\ p = Buffered(c, k) % 2
    BY <1>7 DEF Buffered, frames
  <2>2. CASE last
    BY <2>1, <2>2, <1>1, <1>5, <1>9 DEF Buffered
  <2>3. CASE ~last
    BY <2>1, <2>3, <1>1, <1>5
  <2> QED
    BY <2>2, <2>3
<1> HIDE DEF last, b, pc
<1>12. /\ m \in Command /\ m.pc = pc /\ m.run = i /\ m.told = l.told /\ m.seen = l.seen
       /\ m.got = l.got + k /\ m.frames = frames /\ m.part = p
  <2>1. l.got + k \in Nat
    BY <1>2, <1>6
  <2> HIDE DEF i
  <2>2. frames \in 0 .. MaxHalves + 1 /\ p \in {0, 1} /\ pc \in ClientPC /\ l \in Command
    BY <1>1, <1>8, <1>10, <1>7
  <2>3. l.got + k \in Nat
    BY <2>1
  <2> QED
    BY <2>2, <2>3 DEF Command, i
<1>13. /\ client' \in [Client -> Command] /\ client'[c] = m
       /\ \A d \in Client \ {c} : client'[d] = client[d]
  BY <1>1, <1>12, <1>11
<1>14. TypeOK'
  BY <1>1, <1>13 DEF IInv, TypeOK, service, process
<1>15. FrameInv(c)'
  <2>1. /\ client'[c].pc = pc /\ client'[c].run = i /\ client'[c].told = l.told
        /\ client'[c].seen = l.seen /\ client'[c].got = l.got + k
        /\ client'[c].frames = frames /\ client'[c].part = p
        /\ UNCHANGED <<out, up, loose>>
    BY <1>1, <1>12, <1>13 DEF process
  <2>2. l.got + k <= 2 * (Lines(l.seen) + 1)
    BY <1>2, <1>4, <1>6
  <2>3. CASE last
    <3>1. pc \in Over
      BY <1>10, <2>3 DEF Over
    <3> QED
      BY <1>1, <1>2, <1>8, <1>9, <2>1, <2>2, <2>3, <3>1 DEF FrameInv, last, At, Early, Over, Streaming
  <2>4. CASE ~last
    <3>1. pc = l.pc /\ Sent(c)' = Sent(c)
      BY <2>1, <2>4 DEF Sent, At, pc
    <3> QED
      BY <1>1, <1>2, <1>6, <1>8, <2>1, <2>2, <3>1 DEF FrameInv, Early, Over, Streaming
  <2> QED
    BY <2>3, <2>4
<1>16. ToldInv(c)'
  <2>1. /\ client'[c].pc = pc /\ client'[c].run = i /\ client'[c].told = l.told
        /\ UNCHANGED <<handler, store, journal, agent, exit, up, loose>>
    BY <1>1, <1>12, <1>13 DEF process, service
  <2>2. Used(i) => Used(i)'
    <3>1. l.pc \notin {"idle", "resend"} /\ client'[c].pc \notin {"idle", "resend"}
      BY <1>1, <1>10, <2>1 DEF Streaming, pc
    <3>2. client'[i[1]].pc \in {"idle", "resend"} => client'[i[1]] = client[i[1]]
      BY <1>2, <1>13, <3>1, RunParts
    <3> QED
      BY <2>1, <3>2 DEF Used, At
  <2>3. (last => l.pc = "closing") /\ (~last => pc = l.pc)
    BY DEF At, last, pc
  <2> QED
    BY <1>1, <1>2, <1>10, <2>1, <2>2, <2>3 DEF ToldInv, Vanished, Early, Ending, Streaming, Over
<1>17. pc \in Streaming \cup {"closing", "ok", "failed"}
  BY <1>1, <1>10 DEF pc
<1> QED
  BY <1>1, <1>12, <1>13, <1>17, <1>14, <1>15, <1>16, CommandGoesOn DEF CommandInv, Streaming

-----------------------------------------------------------------------------
(* The requests. A command has one at a time.                              *)
LEMMA OneRequest ==
  ASSUME IInv, NEW i \in Run, NEW j \in Run, i[1] = j[1],
         handler[i] # "none", handler[j] # "none"
  PROVE  i = j
<1>1. RequestInv(i) /\ RequestInv(j)
  BY DEF IInv, RunInv
<1>2. Used(i) /\ Used(j)
  BY <1>1 DEF RequestInv
<1>3. i[2] = j[2]
  BY <1>2, RunParts DEF Used
<1> QED
  BY <1>3, RunParts

(* The command whose request goes on, or ends with an error or a run.       *)
LEMMA RequestEnds ==
  ASSUME IInv, NEW i \in Run, handler[i] # "none",
         UNCHANGED client \/ Goto(i[1], "failed") \/ (\E r \in Run : Answered(i, r))
  PROVE  /\ client' \in [Client -> Command]
         /\ \A d \in Client \ {i[1]} : client'[d] = client[d]
         /\ At(i[1], "posted") /\ CommandInv(i[1])'
         /\ \/ client' = client
            \/ client'[i[1]].pc \in {"failed", "answered"}
<1> DEFINE c == i[1]
<1> DEFINE l == client[c]
<1>1. /\ c \in Client /\ l \in Command /\ At(c, "posted") /\ CommandInv(c)
      /\ client \in [Client -> Command]
  BY RunParts DEF IInv, TypeOK, RunInv, RequestInv
<1>2. /\ client' \in [Client -> Command]
      /\ \A d \in Client \ {c} : client'[d] = client[d]
      /\ client'[c].told = l.told /\ client'[c].seen = l.seen /\ client'[c].got = l.got
      /\ client'[c].frames = l.frames /\ client'[c].part = l.part
      /\ \/ client' = client
         \/ client'[c].pc = "failed"
         \/ client'[c].pc = "answered" /\ client'[c].run \in Run
  <2>1. CASE UNCHANGED client
    BY <1>1, <2>1
  <2>2. CASE Goto(c, "failed")
    BY <1>1, <2>2, GotoTyped DEF ClientPC
  <2>3. CASE \E r \in Run : Answered(i, r)
    <3>1. PICK r \in Run : Answered(i, r)
      BY <2>3
    <3> DEFINE k == [l EXCEPT !.pc = "answered", !.run = r]
    <3>2. /\ k \in Command /\ k.pc = "answered" /\ k.run = r /\ k.told = l.told
          /\ k.seen = l.seen /\ k.got = l.got /\ k.frames = l.frames /\ k.part = l.part
      BY <1>1 DEF Command, ClientPC
    <3>3. client' = [client EXCEPT ![c] = k]
      BY <3>1 DEF Answered
    <3> QED
      BY <1>1, <3>2, <3>3
  <2> QED
    BY <2>1, <2>2, <2>3
<1>3. /\ l.pc = "posted" /\ l.told = "absent" /\ l.seen = 0 /\ l.got = 0
      /\ 2 * l.frames + l.part = l.got /\ l.got <= 2 * (Lines(l.seen) + 1)
  BY <1>1 DEF At, CommandInv, FrameInv, ToldInv, Early
<1>4. client'[c].pc \in {"posted", "failed", "answered"}
  BY <1>2, <1>3
<1>5. CommandInv(c)'
  BY <1>2, <1>3, <1>4 DEF CommandInv, FrameInv, ToldInv, Early, Ending, Over, Streaming
<1> QED
  BY <1>1, <1>2, <1>5

LEMMA HandlerStepKeeps ==
  ASSUME IInv, TypeOK', NEW i \in Run, handler[i] # "none",
         \A j \in Run \ {i} : SameRun(j), up' = up, loose' = loose,
         UNCHANGED client \/ Goto(i[1], "failed") \/ (\E r \in Run : Answered(i, r)),
         RunInv(i)', Ages(i),
         IsInit(i) /\ Running(i)' => Running(i) \/ Holders = {},
         agent'[i] = "running" => agent[i] = "running" \/ handler[i] = "spawn"
  PROVE  IInv'
<1> USE RunParts
<1> DEFINE c == i[1]
<1>1. /\ \A d \in Client \ {c} : client'[d] = client[d]
      /\ At(c, "posted") /\ CommandInv(c)'
      /\ client'[c].pc \in {"posted", "failed", "answered"}
  BY RequestEnds DEF At
<1>2. ASSUME NEW j \in Run \ {i} PROVE RunInv(j)' /\ Ages(j)
  <2>1. SameRun(j) /\ RequestInv(j)
    BY DEF IInv, RunInv
  <2>2. Used(j) => Used(j)'
    <3>1. CASE j[1] # c
      BY <3>1, <1>1 DEF Used, At, SameRun
    <3>2. CASE j[1] = c
      <4>1. i[2] # j[2]
        BY <3>2
      <4>2. j[2] = 2 => i = <<c, 1>>
        BY <4>1
      <4> QED
        BY <3>2, <4>2, <1>1 DEF Used, At
    <3> QED
      BY <3>1, <3>2
  <2>3. handler[j] # "none" => At(j[1], "posted")'
    BY <2>1, <1>1, OneRequest DEF RequestInv, At
  <2> QED
    BY <2>1, <2>2, <2>3, OtherRunKept
<1>3. ASSUME NEW d \in Client \ {c} PROVE CommandInv(d)'
  BY <1>1, <1>2, FollowerKept DEF IInv, CommandInv, FrameInv
<1>4. LaneInv'
  <2> SUFFICES ASSUME NEW j \in Run \ loose, NEW k \in Run \ loose, IsInit(j), IsInit(k)
               PROVE  /\ (Running(j) /\ Running(k))' => j = k
                      /\ agent'[j] = "running" /\ agent'[k] = "running" => j = k
    BY DEF LaneInv, IsInit
  <2>1. (Running(j) /\ Running(k))' => j = k
    BY DEF IInv, LaneInv, SameRun, Running, Holders
  <2>2. agent'[j] = "running" /\ agent'[k] = "running" => j = k
    <3>1. ASSUME NEW m \in Run \ loose, m # i, agent'[m] = "running", handler[i] = "spawn",
                 i \notin loose, IsInit(i), IsInit(m)
          PROVE  FALSE
      <4>1. Running(i) /\ up
        BY <3>1 DEF IInv, RunInv, HandlerInv
      <4>2. Running(m)
        BY <3>1, <4>1 DEF SameRun, IInv, RunInv, AgentInv
      <4> QED
        BY <3>1, <4>1, <4>2 DEF IInv, LaneInv
    <3> QED
      BY <3>1 DEF IInv, LaneInv, SameRun
  <2> QED
    BY <2>1, <2>2
<1> QED
  BY <1>1, <1>2, <1>3, <1>4 DEF IInv

(* A step of the handler of a run.                                         *)
LEMMA HandlerSteps ==
  ASSUME IInv, NEW i \in Run, Handle(i)
  PROVE  IInv'
<1> USE RunParts
<1>1. /\ RunInv(i) /\ handler[i] # "none" /\ up /\ At(i[1], "posted") /\ watch[i] = "none"
      /\ store[i] \in Record /\ journal[i] \in Record
  <2>1. RunInv(i) /\ handler[i] # "none" /\ store[i] \in Record /\ journal[i] \in Record
    BY DEF IInv, TypeOK, Handle, BeginPlain, Put, BeginInit, JournalInit, Spawn, SetPid, RecordPid
  <2> QED
    BY <2>1 DEF RunInv, HandlerInv, RequestInv
<1>2. UNCHANGED <<stop, exit, out, up, loose>>
  BY DEF Handle, BeginPlain, Put, BeginInit, JournalInit, Spawn, SetPid, RecordPid, process
<1>3. faults' \in 0 .. MaxFaults
  BY RunsConstants DEF IInv, TypeOK, Handle, BeginPlain, Put, BeginInit, JournalInit, Spawn, SetPid,
     RecordPid, Refused, Fault, Written
<1>4. UNCHANGED client \/ Goto(i[1], "failed") \/ (\E r \in Run : Answered(i, r))
  BY DEF Handle, BeginPlain, Put, BeginInit, JournalInit, Spawn, SetPid, RecordPid, Refused, Holders
<1>5. /\ client' \in [Client -> Command]
      /\ client'[i[1]].pc \in {"posted", "failed", "answered"}
      /\ client' = client \/ client'[i[1]].pc \in {"failed", "answered"}
  BY <1>1, <1>4, RequestEnds DEF At
<1> DEFINE Change(pc, s, r, a, w) ==
      /\ handler' = [handler EXCEPT ![i] = pc] /\ store' = [store EXCEPT ![i] = s]
      /\ journal' = [journal EXCEPT ![i] = r] /\ agent' = [agent EXCEPT ![i] = a]
      /\ watch' = [watch EXCEPT ![i] = w] /\ (pc # "none" => client' = client)
<1> DEFINE Outcome(pc, s, r, a, w) ==
      \/ /\ handler[i] = "begin" /\ pc = "none" /\ s = store[i] /\ r = journal[i]
         /\ a = agent[i] /\ w = "none" /\ client' # client
      \/ /\ handler[i] = "begin" /\ ~IsInit(i) /\ pc = "put" /\ s = store[i] /\ r = Fresh
         /\ a = agent[i] /\ w = "none"
      \/ /\ handler[i] = "put" /\ pc = "spawn" /\ s = Fresh /\ r = journal[i]
         /\ a = agent[i] /\ w = "none"
      \/ /\ handler[i] = "begin" /\ IsInit(i) /\ pc = "journal" /\ s = Fresh /\ r = journal[i]
         /\ a = agent[i] /\ w = "none" /\ Holders = {}
      \/ /\ handler[i] = "journal" /\ pc = "spawn" /\ s = store[i] /\ r = Fresh
         /\ a = agent[i] /\ w = "none"
      \/ /\ handler[i] \in {"journal", "spawn"} /\ pc = "none" /\ s = Absent /\ r = journal[i]
         /\ a = agent[i] /\ w = "none" /\ client' # client
      \/ /\ handler[i] = "spawn" /\ pc = "pid" /\ s = store[i] /\ r = journal[i]
         /\ a = "running" /\ w = "none"
      \/ /\ handler[i] = "pid" /\ pc = "record" /\ s.status = store[i].status /\ r = journal[i]
         /\ a = agent[i] /\ w = "none"
      \/ /\ handler[i] = "record" /\ pc = "none" /\ s = store[i]
         /\ (r.status = "running" \/ r = journal[i])
         /\ a = agent[i] /\ w = "wait" /\ client' # client
<1>6. ASSUME Goto(i[1], "failed") \/ (\E r \in Run : Answered(i, r)) PROVE client' # client
  <2>1. client \in [Client -> Command] /\ client[i[1]].pc = "posted"
    BY <1>1 DEF At, IInv, TypeOK
  <2>2. CASE Goto(i[1], "failed")
    BY <2>1, <2>2 DEF Goto, Command
  <2>3. CASE \E r \in Run : Answered(i, r)
    BY <2>1, <2>3 DEF Answered, Command
  <2> QED
    BY <1>6, <2>2, <2>3
<1>7. PICK pc \in HandlerPC, s \in Record, r \in Record, a \in {"none", agent[i], "running"},
           w \in {"none", "wait"} : Change(pc, s, r, a, w) /\ Outcome(pc, s, r, a, w)
  <2> DEFINE Found == \E pc \in HandlerPC, s \in Record, r \in Record,
                         a \in {"none", agent[i], "running"}, w \in {"none", "wait"} :
                           Change(pc, s, r, a, w) /\ Outcome(pc, s, r, a, w)
  <2>1. /\ Fresh \in Record /\ Absent \in Record /\ Fresh.status = "running"
        /\ [store[i] EXCEPT !.pid = TRUE] \in Record
        /\ [store[i] EXCEPT !.pid = TRUE].status = store[i].status
        /\ [Fresh EXCEPT !.pid = TRUE] \in Record
        /\ [Fresh EXCEPT !.pid = TRUE].status = "running"
    BY <1>1 DEF Fresh, Absent, Record, Status
  <2>2. /\ store = [store EXCEPT ![i] = store[i]] /\ journal = [journal EXCEPT ![i] = journal[i]]
        /\ agent = [agent EXCEPT ![i] = agent[i]] /\ watch = [watch EXCEPT ![i] = "none"]
    BY <1>1 DEF IInv, TypeOK
  <2>3. CASE BeginPlain(i)
    <3>1. \/ Change("put", store[i], Fresh, agent[i], "none") /\ Outcome("put", store[i], Fresh, agent[i], "none")
          \/ Change("none", store[i], journal[i], agent[i], "none")
             /\ Outcome("none", store[i], journal[i], agent[i], "none")
      BY <1>6, <2>2, <2>3 DEF BeginPlain, Step, Refused, process
    <3> QED
      BY <1>1, <2>1, <3>1 DEF HandlerPC
  <2>4. CASE Put(i)
    <3>1. Change("spawn", Fresh, journal[i], agent[i], "none")
          /\ Outcome("spawn", Fresh, journal[i], agent[i], "none")
      BY <2>2, <2>4 DEF Put, Step, process
    <3> QED
      BY <1>1, <2>1, <3>1 DEF HandlerPC
  <2>5. CASE BeginInit(i)
    <3>1. \/ Change("journal", Fresh, journal[i], agent[i], "none")
             /\ Outcome("journal", Fresh, journal[i], agent[i], "none")
          \/ Change("none", store[i], journal[i], agent[i], "none")
             /\ Outcome("none", store[i], journal[i], agent[i], "none")
      BY <1>6, <2>2, <2>5 DEF BeginInit, Step, Refused, process, Holders
    <3> QED
      BY <1>1, <2>1, <3>1 DEF HandlerPC
  <2>6. CASE JournalInit(i)
    <3>1. \/ Change("spawn", store[i], Fresh, agent[i], "none")
             /\ Outcome("spawn", store[i], Fresh, agent[i], "none")
          \/ Change("none", Absent, journal[i], agent[i], "none")
             /\ Outcome("none", Absent, journal[i], agent[i], "none")
      BY <1>6, <2>2, <2>6 DEF JournalInit, Step, Refused, process
    <3> QED
      BY <1>1, <2>1, <3>1 DEF HandlerPC
  <2>7. CASE Spawn(i)
    <3>1. \/ Change("pid", store[i], journal[i], "running", "none")
             /\ Outcome("pid", store[i], journal[i], "running", "none")
          \/ Change("none", Absent, journal[i], agent[i], "none")
             /\ Outcome("none", Absent, journal[i], agent[i], "none")
      BY <1>6, <2>2, <2>7 DEF Spawn, Step, Refused
    <3> QED
      BY <1>1, <2>1, <3>1 DEF HandlerPC
  <2>8. CASE SetPid(i)
    <3> DEFINE s == [store[i] EXCEPT !.pid = TRUE]
    <3>1. Change("record", s, journal[i], agent[i], "none")
          /\ Outcome("record", s, journal[i], agent[i], "none")
      BY <2>1, <2>2, <2>8 DEF SetPid, Step, process
    <3> QED
      BY <1>1, <2>1, <3>1 DEF HandlerPC
  <2>9. CASE RecordPid(i)
    <3> DEFINE r == [Fresh EXCEPT !.pid = TRUE]
    <3>1. \/ Change("none", store[i], r, agent[i], "wait") /\ Outcome("none", store[i], r, agent[i], "wait")
          \/ Change("none", store[i], journal[i], agent[i], "wait")
             /\ Outcome("none", store[i], journal[i], agent[i], "wait")
      BY <1>6, <2>1, <2>2, <2>9 DEF RecordPid, Written, Step, process
    <3> QED
      BY <1>1, <2>1, <3>1 DEF HandlerPC
  <2> HIDE DEF Found
  <2>10. Found
    BY <2>3, <2>4, <2>5, <2>6, <2>7, <2>8, <2>9 DEF Handle, Found
  <2> QED
    BY <2>10 DEF Found
<1>8. /\ handler' \in [Run -> HandlerPC] /\ handler'[i] = pc /\ store'[i] = s /\ journal'[i] = r
      /\ agent'[i] = a /\ watch'[i] = w
      /\ \A j \in Run \ {i} : SameRun(j)
  BY <1>2, <1>7 DEF IInv, TypeOK, SameRun
<1>9. TypeOK'
  BY <1>2, <1>3, <1>5, <1>7 DEF IInv, TypeOK
<1> HIDE DEF Change
<1>10. /\ Used(i) /\ Used(i)'
       /\ pc # "none" => At(i[1], "posted")'
       /\ HandlerInv(i) /\ AgentInv(i) /\ WatchInv(i)
  <2>1. Used(i)
    BY <1>1 DEF RunInv, RequestInv
  <2>2. Used(i)'
    BY <1>5, <1>8, <2>1 DEF Used, At, SameRun
  <2>3. pc # "none" => client' = client
    BY <1>7 DEF Change
  <2> QED
    BY <1>1, <2>1, <2>2, <2>3 DEF RunInv, At
<1>11. RunInv(i)'
  <2>1. HandlerInv(i)'
    BY <1>1, <1>2, <1>7, <1>8, <1>10 DEF HandlerInv, Untouched, Running, IsInit, Ended, Fresh, Absent
  <2>2. WatchInv(i)'
    BY <1>1, <1>2, <1>7, <1>8, <1>10 DEF HandlerInv, WatchInv, Running
  <2>3. AgentInv(i)'
    BY <1>1, <1>2, <1>7, <1>8, <1>10 DEF HandlerInv, AgentInv, Untouched, Running, Ended, Fresh, Absent
  <2>4. DownInv(i)' /\ RequestInv(i)'
    BY <1>1, <1>2, <1>8, <1>10 DEF DownInv, RequestInv
  <2> QED
    BY <2>1, <2>2, <2>3, <2>4 DEF RunInv
<1>12. Ages(i)
  <2>1. out[i] \in Nat
    BY RunsConstants DEF IInv, TypeOK
  <2> QED
    BY <1>1, <1>2, <1>7, <1>8, <1>10, <2>1 DEF Ages, HandlerInv, AgentInv, Untouched, Running, Ended, Fresh, Absent
<1>13. IsInit(i) /\ Running(i)' => Running(i) \/ Holders = {}
  BY <1>7, <1>8, <1>10 DEF HandlerInv, Running, Absent, Fresh
<1>14. agent'[i] = "running" => agent[i] = "running" \/ handler[i] = "spawn"
  BY <1>7, <1>8
<1> QED
  BY <1>1, <1>2, <1>4, <1>8, <1>9, <1>11, <1>12, <1>13, <1>14, HandlerStepKeeps

-----------------------------------------------------------------------------
(* The death of the backend, and its next start.                           *)
LEMMA CrashStep ==
  ASSUME IInv, Crash
  PROVE  IInv'
<1> USE RunParts
<1>1. /\ up /\ up' = FALSE /\ faults' \in 0 .. MaxFaults /\ loose' \subseteq Run
      /\ loose' = loose \cup {i \in Run : agent[i] = "running" /\ ~journal[i].pid}
      /\ UNCHANGED <<journal, agent, exit, out>>
      /\ client' = [c \in Client |-> Cut(c)]
      /\ \A i \in Run : /\ handler'[i] = "none" /\ store'[i] = Absent
                        /\ watch'[i] = "none" /\ stop'[i] = "none"
      /\ \A i \in Run : RunInv(i) /\ out[i] \in Nat
  BY RunsConstants DEF IInv, TypeOK, Crash, Fault, PidAlive, process
<1>2. ASSUME NEW c \in Client
      PROVE  /\ client'[c] \in Command /\ CommandInv(c)
             /\ client'[c] = Cut(c)
             /\ client'[c].run = client[c].run
             /\ \/ client[c].pc = "posted" /\ handler[<<c, 1>>] # "none" /\ client'[c].pc = "resend"
                \/ client[c].pc = "posted" /\ handler[<<c, 1>>] = "none" /\ client'[c].pc = "failed"
                \/ client[c].pc \in Streaming /\ client'[c].pc = "failed"
                \/ client[c].pc \notin Streaming \cup {"posted"} /\ client'[c] = client[c]
             /\ client[c].pc # "posted" /\ client'[c] # client[c] => client'[c].told = "absent"
             /\ client[c].pc = "posted" => client'[c].told = client[c].told
             /\ client'[c].seen = client[c].seen /\ client'[c].got = client[c].got
             /\ client'[c].frames = client[c].frames /\ client'[c].part = client[c].part
  <2>1. client[c] \in Command /\ client'[c] = Cut(c) /\ CommandInv(c)
    BY <1>1 DEF IInv, TypeOK
  <2> DEFINE p == IF handler[<<c, 1>>] # "none" THEN "resend" ELSE "failed"
  <2>2. CASE At(c, "posted")
    <3>1. client'[c] = [client[c] EXCEPT !.pc = p]
      BY <2>1, <2>2 DEF Cut, At, Streaming
    <3> QED
      BY <2>1, <2>2, <3>1 DEF Command, ClientPC, At, Streaming
  <2>3. CASE client[c].pc \in Streaming
    <3>1. client'[c] = [client[c] EXCEPT !.pc = "failed", !.told = "absent"]
      BY <2>1, <2>3 DEF Cut, At, Streaming
    <3> QED
      BY <2>1, <2>3, <3>1 DEF Command, ClientPC, Status, Streaming
  <2>4. CASE ~At(c, "posted") /\ client[c].pc \notin Streaming
    <3>1. client'[c] = client[c]
      BY <2>1, <2>4 DEF Cut
    <3> QED
      BY <2>1, <2>4, <3>1 DEF At
  <2> QED
    BY <2>2, <2>3, <2>4
<1>3. TypeOK'
  <2>1. client' \in [Client -> Command]
    BY <1>1, <1>2
  <2>2. TypeOK'
    <3>1. /\ handler' \in [Run -> HandlerPC] /\ store' \in [Run -> Record]
          /\ watch' = [i \in Run |-> "none"] /\ stop' = [i \in Run |-> "none"]
      BY DEF Crash, HandlerPC, Absent, Record, Status
    <3> QED
      BY <1>1, <2>1, <3>1 DEF IInv, TypeOK
  <2> QED
    BY <2>2
<1>4. ASSUME NEW i \in Run PROVE Used(i) => Used(i)'
  BY <1>1, <1>2, RunParts DEF Used, At, Streaming
<1>5. ASSUME NEW i \in Run PROVE RunInv(i)'
  <2>1. HandlerInv(i)' /\ WatchInv(i)' /\ DownInv(i)'
    BY <1>1 DEF HandlerInv, WatchInv, DownInv
  <2>2. AgentInv(i)'
    BY <1>1 DEF RunInv, AgentInv, Ended, Absent
  <2>3. RequestInv(i)'
    BY <1>1, <1>4 DEF RunInv, RequestInv, Untouched
  <2> QED
    BY <2>1, <2>2, <2>3 DEF RunInv
<1>6. ASSUME NEW i \in Run PROVE Ages(i)
  BY <1>1, <1>4 DEF Ages
<1>7. ASSUME NEW c \in Client PROVE CommandInv(c)'
  <2>1. CASE client'[c] = client[c]
    <3>1. client[c].pc \notin Streaming
      BY <1>2, <2>1 DEF Streaming
    <3> QED
      BY <2>1, <3>1, <1>6, FollowerKept
  <2>2. CASE client[c].pc = "posted" \/ client[c].pc \in Streaming
    <3>1. /\ client'[c].pc \in {"resend", "failed"} /\ client'[c].told = "absent"
          /\ client'[c].pc = "resend" => client[c].pc = "posted"
          /\ FrameInv(c)
      <4>1. ToldInv(c) /\ FrameInv(c)
        BY <1>2 DEF CommandInv
      <4>2. client[c].pc = "posted" => client[c].told = "absent"
        BY <4>1 DEF ToldInv, Early
      <4> QED
        BY <1>2, <2>2, <4>1, <4>2 DEF Streaming
    <3>2. FrameInv(c)'
      BY <1>2, <3>1 DEF FrameInv, Early, Over, Streaming
    <3>3. ToldInv(c)'
      BY <3>1 DEF ToldInv, Early, Ending, Over, Streaming
    <3> QED
      BY <3>2, <3>3 DEF CommandInv
  <2> QED
    BY <1>2, <2>1, <2>2
<1>8. LaneInv'
  BY <1>1 DEF IInv, LaneInv, Running, Absent, IsInit
<1> QED
  BY <1>3, <1>5, <1>7, <1>8 DEF IInv

LEMMA BootStep ==
  ASSUME IInv, Boot
  PROVE  IInv'
<1> USE RunParts
<1>1. /\ ~up /\ up' = TRUE
      /\ UNCHANGED <<client, handler, journal, stop, agent, exit, out, loose, faults>>
      /\ \A i \in Run : /\ store'[i] = Rehydrated(i)
                        /\ watch'[i] = IF store'[i].status = "running" THEN "reap" ELSE "none"
                        /\ RunInv(i) /\ handler[i] = "none" /\ out[i] \in Nat
                        /\ journal[i] \in Record
                        /\ agent[i] \in {"none", "running", "lingering", "gone"}
                        /\ exit[i] \in {"none", "zero", "other"}
  BY RunsConstants DEF IInv, TypeOK, Boot, Reaped, process, RunInv, DownInv
<1>2. ASSUME NEW i \in Run
      PROVE  /\ store'[i] \in Record
             /\ \/ journal[i].status # "running" /\ store'[i] = journal[i]
                \/ /\ journal[i].status = "running" /\ exit[i] # "none"
                   /\ store'[i].status = ByExit(i)
                \/ /\ journal[i].status = "running" /\ exit[i] = "none"
                   /\ journal[i].pid /\ agent[i] = "running" /\ store'[i] = journal[i]
                \/ /\ journal[i].status = "running" /\ exit[i] = "none"
                   /\ (~journal[i].pid \/ agent[i] # "running")
                   /\ store'[i].status = "error"
  BY <1>1 DEF Rehydrated, Record, Status, ByExit, PidAlive
<1>3. TypeOK'
  <2>1. store' \in [Run -> Record]
    BY <1>2 DEF Boot
  <2>2. watch' \in [Run -> {"none", "reap"}]
    BY DEF Boot
  <2> QED
    BY <1>1, <2>1, <2>2 DEF IInv, TypeOK
<1>4. ASSUME NEW i \in Run PROVE RunInv(i)'
  <2>1. HandlerInv(i)' /\ WatchInv(i)' /\ DownInv(i)'
    BY <1>1, <1>2 DEF HandlerInv, WatchInv, DownInv, ByExit
  <2>2. AgentInv(i)'
    BY <1>1, <1>2 DEF RunInv, AgentInv, Ended, ByExit, Running
  <2>3. RequestInv(i)'
    BY <1>1, <1>2 DEF RunInv, RequestInv, Used, At, Untouched, Absent
  <2> QED
    BY <2>1, <2>2, <2>3 DEF RunInv
<1>5. ASSUME NEW i \in Run PROVE Ages(i)
  BY <1>1, <1>2 DEF Ages, Used, At, ByExit
<1>6. ASSUME NEW c \in Client PROVE CommandInv(c)'
  BY <1>1, <1>5, FollowerKept
<1>7. LaneInv'
  BY <1>1, <1>2 DEF IInv, LaneInv, Running, IsInit, ByExit
<1> QED
  BY <1>3, <1>4, <1>6, <1>7 DEF IInv

(* A command that cannot send its request again.                           *)
LEMMA GiveUpStep ==
  ASSUME IInv, NEW c \in Client, Resend(c), ~up
  PROVE  IInv'
<1> USE RunParts
<1>1. /\ client' \in [Client -> Command] /\ At(c, "resend")
      /\ client'[c].pc = "failed" /\ client'[c].told = client[c].told
      /\ client'[c].seen = client[c].seen /\ client'[c].got = client[c].got
      /\ client'[c].frames = client[c].frames /\ client'[c].part = client[c].part
      /\ \A d \in Client \ {c} : client'[d] = client[d]
      /\ CommandInv(c)
      /\ UNCHANGED <<handler, store, journal, watch, stop, agent, exit, out, up, loose, faults>>
  BY GotoTyped DEF Resend, IInv, TypeOK, ClientPC, process
<1>2. TypeOK'
  BY <1>1 DEF IInv, TypeOK
<1>3. ASSUME NEW i \in Run PROVE RunInv(i)' /\ Ages(i)
  <2>1. SameRun(i) /\ RunInv(i) /\ out[i] \in Nat
    BY <1>1, RunsConstants DEF SameRun, IInv, TypeOK
  <2>2. handler[i] = "none"
    BY <2>1 DEF RunInv, DownInv
  <2>3. handler[<<i[1], 1>>] = "none"
    BY DEF IInv, RunInv, DownInv
  <2>4. Used(i) => Used(i)'
    BY <1>1, <2>3 DEF Used, At
  <2> QED
    BY <1>1, <2>1, <2>2, <2>4, OtherRunKept
<1>4. ASSUME NEW d \in Client PROVE CommandInv(d)'
  <2>1. CASE d = c
    BY <1>1, <2>1 DEF At, CommandInv, FrameInv, ToldInv, Early, Over, Ending, Streaming
  <2>2. CASE d # c
    BY <1>1, <1>3, <2>2, FollowerKept DEF IInv, CommandInv, FrameInv
  <2> QED
    BY <2>1, <2>2
<1>5. LaneInv'
  BY <1>1 DEF IInv, LaneInv, Running, IsInit
<1> QED
  BY <1>2, <1>3, <1>4, <1>5 DEF IInv

LEMMA NothingHappens ==
  ASSUME IInv, UNCHANGED vars
  PROVE  IInv'
<1> USE RunParts
<1>1. UNCHANGED <<client, handler, store, journal, watch, stop, agent, exit, out, up, loose, faults>>
  BY DEF vars, service, process
<1>2. TypeOK'
  BY <1>1 DEF IInv, TypeOK
<1>3. ASSUME NEW i \in Run PROVE RunInv(i)' /\ Ages(i)
  <2>1. SameRun(i) /\ RunInv(i)
    BY <1>1 DEF SameRun, IInv
  <2>2. (Used(i) => Used(i)') /\ (handler[i] # "none" => At(i[1], "posted")')
    BY <1>1, <2>1 DEF Used, At, RunInv, RequestInv
  <2> QED
    BY <1>1, <2>1, <2>2, OtherRunKept
<1>4. ASSUME NEW d \in Client PROVE CommandInv(d)'
  BY <1>1, <1>3, FollowerKept DEF IInv, CommandInv, FrameInv
<1>5. LaneInv'
  BY <1>1 DEF IInv, LaneInv, Running, IsInit
<1> QED
  BY <1>2, <1>3, <1>4, <1>5 DEF IInv

-----------------------------------------------------------------------------
(* The invariant is inductive.                                             *)
LEMMA Inductive == Spec => []IInv
<1>1. IInv /\ [Next]_vars => IInv'
  <2> SUFFICES ASSUME IInv, [Next]_vars PROVE IInv'
    OBVIOUS
  <2>1. ASSUME NEW c \in Client, Post(c) \/ ClientStep(c) \/ Drop(c) PROVE IInv'
    <3>1. CASE Post(c)
      BY <3>1, RequestMade, RunParts DEF Post
    <3>2. CASE Resend(c) /\ up
      BY <3>2, RequestMade, RunParts DEF Resend
    <3>3. CASE Resend(c) /\ ~up
      BY <3>3, GiveUpStep
    <3>4. CASE Connect(c) \/ Drain(c) \/ CheckStatus(c) \/ EndStream(c) \/ Drop(c)
      BY <3>4, CommandSteps
    <3>5. CASE Receive(c)
      BY <3>5, ReceiveStep
    <3> QED
      BY <2>1, <3>1, <3>2, <3>3, <3>4, <3>5 DEF ClientStep
  <2>2. ASSUME NEW i \in Run,
               \/ Handle(i) \/ End(i) \/ GiveUp(i)
               \/ StopGet(i) \/ StopSignal(i) \/ StopFinalize(i)
               \/ AgentWrites(i) \/ AgentExits(i) \/ LingererDies(i)
        PROVE  IInv'
    BY <2>2, HandlerSteps, EndSteps, StopSteps, AgentSteps
  <2>3. CASE UNCHANGED vars
    BY <2>3, NothingHappens
  <2> QED
    BY <2>1, <2>2, <2>3, CrashStep, BootStep DEF Next
<1> QED
  BY <1>1, InitHolds, PTL DEF Spec

(* Every variable stays within its type: no output, no delivered frame and   *)
(* no count goes beyond its bound.                                           *)
THEOREM TypeCorrect == Spec => []TypeOK
BY Inductive, PTL DEF IInv

(* One privileged agent at a time on the init lane, among those the backend *)
(* has not left behind, however many windows post (SpawnInit).              *)
THEOREM OneInitAgent == Spec => []InitExclusive
<1>1. IInv => InitExclusive
  <2> DEFINE S == {i \in Run \ loose : IsInit(i) /\ agent[i] = "running"}
  <2> SUFFICES ASSUME IInv PROVE Cardinality(S) <= 1
    BY DEF InitExclusive
  <2>1. \A i, j \in S : i = j
    BY DEF IInv, LaneInv
  <2>2. CASE S = {}
    BY <2>2, FS_EmptySet
  <2>3. CASE S # {}
    <3>1. PICK i \in S : TRUE
      BY <2>3
    <3>2. S = {i}
      BY <2>1, <3>1
    <3>3. Cardinality({i}) = 1
      BY FS_Singleton
    <3> HIDE DEF S
    <3> QED
      BY <3>2, <3>3
  <2> QED
    BY <2>2, <2>3
<1> QED
  BY <1>1, Inductive, PTL

(* A command that says ok followed an agent that ended by itself with code  *)
(* zero, or a run that never got one (followRun in run.ts, Stream).         *)
THEOREM VerdictIsTrue == Spec => []TrueVerdict
<1>1. IInv => TrueVerdict
  BY DEF IInv, CommandInv, ToldInv, RunInv, AgentInv, TrueVerdict, At
<1> QED
  BY <1>1, Inductive, PTL

(* A command that was told an outcome has shown every line of the agent, the *)
(* unfinished last one included, unless the run was left behind (tailFile,   *)
(* parseSSE).                                                                *)
THEOREM OutputIsComplete == Spec => []CompleteAtEnd
<1>1. IInv => CompleteAtEnd
  <2> SUFFICES ASSUME IInv, NEW c \in Client, client[c].pc \in Over, client[c].told # "absent",
                      client[c].run \notin loose
               PROVE  client[c].frames - 1 = Lines(out[client[c].run])
    BY DEF CompleteAtEnd, Over
  <2>1. client[c].frames = Lines(client[c].seen) + 1 /\ client[c].seen = out[client[c].run]
    BY DEF IInv, CommandInv, FrameInv
  <2>2. Lines(client[c].seen) \in Nat
    <3>1. client[c].seen \in Nat
      BY RunsConstants DEF IInv, TypeOK, Command
    <3> QED
      BY <3>1, Halves
  <2> QED
    BY <2>1, <2>2
<1> QED
  BY <1>1, Inductive, PTL

(* What a command was told is done, every later process takes for done, from *)
(* the sentinel when the journal had not been written (Rehydrate).           *)
THEOREM DoneIsRemembered == Spec => []DoneStays
<1>1. IInv => DoneStays
  BY DEF IInv, CommandInv, ToldInv, DoneStays, At
<1> QED
  BY <1>1, Inductive, PTL
=============================================================================
