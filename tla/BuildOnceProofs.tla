--------------------------- MODULE BuildOnceProofs --------------------------
(***************************************************************************)
(* Theorems about what BuildEngine does exactly once: it launches a run    *)
(* id, pushes its branch and settles its outcome at most once, and of the  *)
(* agents of a lane only one is in charge, whatever goroutines, resumes,   *)
(* stops and crashes do in between.                                        *)
(*                                                                         *)
(* They hold of a backend whose journal writes and spawns succeed and      *)
(* whose resumes fire after they are journaled, or that runs one goroutine *)
(* at a time: Reliable.  With a crash, and without Reliable, TLC finds a   *)
(* run launched, pushed or settled twice and a Handoff shown; the outcome  *)
(* is final in a process that never crashes whatever fails, too.           *)
(***************************************************************************)
EXTENDS BuildEngineProofs

(* One goroutine alone never takes a resume while it is still journaled.   *)
OneAtATime == \A v, w \in Worker : v = w
Reliable == (~PromptResume \/ OneAtATime) /\ Faults \subseteq {"unwritable"}

-----------------------------------------------------------------------------
(* Whose turn it is.                                                       *)

SpawnPC == {"journal", "spawn", "setpid", "journalpid"}
EndPC   == {"finalize", "get", "push", "pushgo", "plan", "schedule", "end"}

(* The goroutine rejournals and goes on at one of the points S.            *)
Records(l, S) == l.pc \in {"snap", "write"} /\ l.next \in S

(* The goroutine brings a run up, or finalizes it and decides what follows.*)
Spawns(l) == l.pc \in SpawnPC
Ends(l)   == l.pc \in EndPC \/ Records(l, {"push", "pushgo", "end"})
Turn(l, i) == l.id = i /\ (Spawns(l) \/ Ends(l))

(* A survivor or a child of this process whose exit is still to be handled.*)
ToRoute(i)  == \E c \in {"exit", "interrupted"} : <<i, c>> \in toRoute
Expected(i) == i \in waiting \/ ToRoute(i)

(* Phases of a turn: before the push was started, while it is claimed,     *)
(* before the plan.                                                        *)
Claims(l)    == l.pc \in {"push", "pushgo"} \/ Records(l, {"pushgo"})
Unpushed(l)  == \/ Spawns(l) \/ l.pc \in {"finalize", "get"} \/ Claims(l)
                \/ Records(l, {"push"})
Unplanned(l) == Unpushed(l) \/ l.pc = "plan"

(* The goroutine has taken the resume with successor id s, of the run      *)
(* Parent(l), and is the only one that may spawn s.                        *)
Respawns(l) == l.pc \in {"reserve", "rearm"} /\ l.pred # NoRun
Holds(l, s) == l.res.succ = s /\ (Fires(l) \/ Respawns(l))
Parent(l)   == IF Fires(l) THEN l.id ELSE l.pred

(* A record about to be written that arms the resume of p by s.            *)
Copies(l, p, s) == l.pc = "write" /\ l.id = p /\ l.rec.pending.succ = s

(* Anything that says s is the successor of p.                             *)
Link(p, s) ==
  \/ store[p].pending.succ = s
  \/ journal[p].pending.succ = s
  \/ \E w \in Worker : \/ Copies(g[w], p, s)
                       \/ Holds(g[w], s) /\ Parent(g[w]) = p

Childless(p) == \A s \in RunId : ~Link(p, s)

-----------------------------------------------------------------------------
(* The inductive invariant, in parts.                                      *)

(* Runs that goroutines work on are in the store; their status is final    *)
(* where the code takes it for final.                                      *)
Settling == {"snap", "write", "get", "push", "pushgo", "plan", "schedule",
             "end", "fireget", "stopcancel"}
PresentFor(l) ==
  /\ l.pc \notin {"idle", "reserve", "rearm"} => Present(l.id)
  /\ Respawns(l) => Terminal(store[l.pred])
  /\ l.pc \in Settling => Terminal(store[l.id])
  /\ l.pc = "write" => Terminal(l.rec)
  /\ l.pc = "reserve" \/ Spawns(l)
       => l.rec.status = "running" /\ l.rec.pending = NoResume
PresenceInv ==
  /\ \A w \in Worker : PresentFor(g[w])
  /\ \A i \in RunId :
       /\ Expected(i) => Present(i)
       /\ store[i].pending # NoResume => Terminal(store[i])
       /\ journal[i].pending # NoResume => Terminal(journal[i])

(* A run has one turn: one goroutine, or a wait, or a survivor to route.   *)
TurnInv ==
  /\ phase = "down" => waiting = {} /\ toRoute = {} /\ loaded = {}
  /\ \A i \in RunId :
       /\ \A v, w \in Worker : Turn(g[v], i) /\ Turn(g[w], i) => v = w
       /\ Expected(i) => \A w \in Worker : ~Turn(g[w], i)
       /\ i \in waiting => ~ToRoute(i)
       /\ ~(<<i, "exit">> \in toRoute /\ <<i, "interrupted">> \in toRoute)

(* Successors form chains, and a run has none before its plan.             *)
PathInv ==
  /\ \A p, q, s, t \in RunId : Link(p, s) /\ Link(q, t) => (p = q <=> s = t)
  /\ \A w \in Worker : Unplanned(g[w]) => Childless(g[w].id)
  /\ \A i \in RunId : Expected(i) => Childless(i)

(* A resume is armed in the store or held by one goroutine; once that has  *)
(* journaled that it took it, no record is left that would arm it again.   *)
HeldInv ==
  \A s \in RunId :
    /\ \A v, w \in Worker : Holds(g[v], s) /\ Holds(g[w], s) => v = w
    /\ \A w \in Worker : Holds(g[w], s) =>
         \A p \in RunId :
           /\ store[p].pending.succ # s
           /\ journal[p].pending.succ = s => g[w].pc \in {"snap", "write"}
           /\ \A v \in Worker : ~Copies(g[v], p, s)

(* A run id that was not yet reserved is unused.                           *)
Unused(i) ==
  /\ store[i] = Absent /\ journal[i] = Absent
  /\ launched[i] = <<>> /\ pushes[i] = 0
FreshInv ==
  \A i \in RunId :
    i >= nextId \/ (\E p \in RunId : Link(p, i)) => Unused(i)

(* Launches.                                                               *)
LaunchInv ==
  /\ \A w \in Worker : g[w].pc \in {"journal", "spawn"}
                         => launched[g[w].id] = <<>>
  /\ \A i \in RunId :
       /\ Len(launched[i]) <= 1
       /\ launched[i] = <<>> => i \notin alive /\ ending[i] = NoEnding
       /\ i \in alive => ending[i] = NoEnding

(* Pushes.                                                                 *)
PushInv ==
  /\ \A w \in Worker :
       /\ Unpushed(g[w]) => pushes[g[w].id] = 0
       /\ Claims(g[w]) => journal[g[w].id].status # "running"
  /\ \A i \in RunId :
       /\ Expected(i) \/ journal[i].status = "running" => pushes[i] = 0
       /\ pushes[i] <= 1

(* The handoff is hidden.                                                  *)
HiddenInv == \A w \in Worker : Ends(g[w]) => store[g[w].id].finalizing

OnceInv ==
  /\ PresenceInv /\ TurnInv /\ PathInv /\ HeldInv /\ FreshInv
  /\ LaunchInv /\ PushInv /\ HiddenInv

-----------------------------------------------------------------------------
(* Nothing crashes, but writes and spawns may fail.                        *)

(* The goroutine has the resume with successor id s, until it has spawned  *)
(* the successor.                                                          *)
Token(l, s) == l.res.succ = s /\ (Fires(l) \/ Succeeds(l))

(* A resume is armed once or held by one goroutine, and its successor is   *)
(* not in the store before that goroutine has reserved it.                 *)
ReservedPC == {"journal", "spawn"}
TokenInv ==
  /\ phase # "down"
  /\ \A w \in Worker : Succeeds(g[w]) /\ g[w].pc \in ReservedPC
                        => g[w].id = g[w].res.succ
  /\ \A s \in RunId :
       /\ \A p, q \in RunId : store[p].pending.succ = s
                               /\ store[q].pending.succ = s => p = q
       /\ \A v, w \in Worker : Token(g[v], s) /\ Token(g[w], s) => v = w
       /\ \A p \in RunId : store[p].pending.succ = s
                            => /\ ~Present(s)
                               /\ \A w \in Worker : ~Token(g[w], s)
       /\ \A w \in Worker : Token(g[w], s) /\ g[w].pc \notin ReservedPC
                             => ~Present(s)

-----------------------------------------------------------------------------
(* What one step does to the goroutine that takes it.                      *)

(* The goroutine moves to pc and keeps what it knows.                      *)
Moves(w, pc) ==
  /\ g'[w].pc = pc /\ g'[w].id = g[w].id /\ g'[w].pred = g[w].pred
  /\ g'[w].rec = g[w].rec /\ g'[w].res = g[w].res
Rejournals(w, next) == Moves(w, "snap") /\ g'[w].next = next

LEMMA MoveFacts ==
  ASSUME TypeInv, NEW w \in Worker
  PROVE  /\ \A pc : Goto(w, pc) => Moves(w, pc) /\ g'[w].next = g[w].next
         /\ \A next : Rejournal(w, next) => Rejournals(w, next)
         /\ Done(w) => g'[w] = Idle
         /\ Return(w) => g'[w] = Idle \/ Moves(w, g[w].next)
         /\ Return(w) /\ g[w].next = "idle" => g'[w] = Idle
         /\ SpawnFails(w) => \/ g'[w] = Idle
                             \/ Moves(w, "rearm") /\ g[w].pred # NoRun
<1>1. g[w] \in Local /\ g \in [Worker -> SoundLocal]
  BY LocalFacts DEF TypeInv
<1>2. \A pc : Goto(w, pc) => Moves(w, pc) /\ g'[w].next = g[w].next
  BY <1>1 DEF Goto, Moves, Local
<1>3. \A next : Rejournal(w, next) => Rejournals(w, next)
  BY <1>1 DEF Rejournal, Rejournals, Moves, Local
<1>4. Done(w) => g'[w] = Idle
  BY <1>1 DEF Done
<1> QED
  BY <1>2, <1>3, <1>4 DEF Return, SpawnFails

LEMMA SpawnFacts ==
  ASSUME TypeInv, NEW w \in Worker
  PROVE  /\ Unwritable(w) =>
              \/ g'[w] = Idle
              \/ Moves(w, "rearm") /\ g[w].pred # NoRun
         /\ Adopt(w) =>
              \/ g'[w] = Idle
              \/ /\ g'[w].pc = "record" /\ g'[w].id \in RunId
                 /\ Running(g'[w].id)
         /\ Reserve(w) =>
              /\ g'[w].pc = "journal" /\ g'[w].rec = g[w].rec
              /\ g'[w].id = IF g[w].pred = NoRun THEN nextId ELSE g[w].id
              /\ g'[w].id \in RunId
              /\ nextId' = IF g[w].pred = NoRun THEN nextId + 1 ELSE nextId
              /\ store' = [store EXCEPT ![g'[w].id] = g[w].rec]
              /\ loaded' = loaded \ {g'[w].id}
         /\ JournalRun(w) /\ Reliable =>
              /\ Moves(w, "spawn") /\ store' = store
              /\ journal' = [journal EXCEPT ![g[w].id] = Durable(g[w].rec)]
         /\ SpawnChild(w) => Moves(w, "setpid")
         /\ SpawnError(w) => ~Reliable
         /\ SetPid(w) =>
              /\ g'[w].pc = "journalpid" /\ g'[w].id = g[w].id
              /\ g'[w].rec = [g[w].rec EXCEPT !.pid = TRUE]
         /\ JournalPid(w) => g'[w] = Idle \/ Moves(w, "record")
         /\ JournalPid(w) /\ Reliable =>
              journal' = [journal EXCEPT ![g[w].id] = Durable(g[w].rec)]
         /\ RecordIdem(w) => g'[w] = Idle
<1>1. g[w] \in Local /\ g \in [Worker -> SoundLocal] /\ g[w].rec \in Run
  BY LocalFacts DEF TypeInv
<1>2. /\ Unwritable(w) => \/ g'[w] = Idle
                          \/ Moves(w, "rearm") /\ g[w].pred # NoRun
      /\ SpawnChild(w) => Moves(w, "setpid")
      /\ JournalPid(w) => g'[w] = Idle \/ Moves(w, "record")
      /\ RecordIdem(w) => g'[w] = Idle
  BY MoveFacts DEF Unwritable, SpawnChild, JournalPid, RecordIdem
<1>3. Adopt(w) => \/ g'[w] = Idle
                  \/ /\ g'[w].pc = "record" /\ g'[w].id \in RunId
                     /\ Running(g'[w].id)
  <2>1. ASSUME NEW i \in Holders(store, g[w].rec.lane),
               g' = [g EXCEPT ![w].pc = "record", ![w].id = i]
        PROVE  /\ g'[w].pc = "record" /\ g'[w].id \in RunId
               /\ Running(g'[w].id)
    BY <1>1, <2>1 DEF Holders, Running, Local
  <2> QED
    BY <2>1, MoveFacts DEF Adopt
<1>4. ASSUME Reserve(w)
      PROVE  /\ g'[w].pc = "journal" /\ g'[w].rec = g[w].rec
             /\ g'[w].id = IF g[w].pred = NoRun THEN nextId ELSE g[w].id
             /\ g'[w].id \in RunId
             /\ nextId' = IF g[w].pred = NoRun THEN nextId + 1 ELSE nextId
             /\ store' = [store EXCEPT ![g'[w].id] = g[w].rec]
             /\ loaded' = loaded \ {g'[w].id}
  <2> DEFINE i == IF g[w].pred = NoRun THEN nextId ELSE g[w].id
  <2>1. /\ i \in RunId
        /\ nextId' = IF g[w].pred = NoRun THEN nextId + 1 ELSE nextId
        /\ store' = [store EXCEPT ![i] = g[w].rec]
        /\ loaded' = loaded \ {i}
        /\ g' = [g EXCEPT ![w].pc = "journal", ![w].id = i]
    BY <1>4 DEF Reserve
  <2>2. g'[w].pc = "journal" /\ g'[w].rec = g[w].rec /\ g'[w].id = i
    <3> HIDE DEF i
    <3> QED
      BY <1>1, <2>1 DEF Local
  <2> QED
    BY <2>1, <2>2
<1>5. ASSUME Reliable
      PROVE  /\ JournalRun(w) =>
                  /\ Moves(w, "spawn") /\ store' = store
                  /\ journal' = [journal EXCEPT ![g[w].id] = Durable(g[w].rec)]
             /\ ~SpawnError(w)
             /\ JournalPid(w) =>
                  journal' = [journal EXCEPT ![g[w].id] = Durable(g[w].rec)]
  BY <1>5, MoveFacts DEF Reliable, JournalRun, SpawnError, JournalPid
<1>6. SetPid(w) => /\ g'[w].pc = "journalpid" /\ g'[w].id = g[w].id
                   /\ g'[w].rec = [g[w].rec EXCEPT !.pid = TRUE]
  BY <1>1 DEF SetPid, Local
<1> QED
  BY <1>2, <1>3, <1>4, <1>5, <1>6

LEMMA WriteFacts ==
  ASSUME TypeInv, NEW w \in Worker
  PROVE  /\ Snap(w) =>
              \/ /\ store[g[w].id].status = "absent"
                 /\ g'[w] = Idle \/ Moves(w, g[w].next)
              \/ /\ Present(g[w].id)
                 /\ g'[w].pc = "write" /\ g'[w].id = g[w].id
                 /\ g'[w].rec = store[g[w].id] /\ g'[w].next = g[w].next
                 /\ g'[w].res = g[w].res /\ g'[w].pred = g[w].pred
         /\ Write(w) =>
              /\ g'[w] = Idle \/ Moves(w, g[w].next)
              /\ g[w].next = "idle" => g'[w] = Idle
         /\ Write(w) /\ Reliable =>
              journal' = [journal EXCEPT ![g[w].id] = Durable(g[w].rec)]
         /\ GetFinalized(w) =>
              /\ g'[w].pc = "write" /\ g'[w].next = "push"
              /\ g'[w].id = g[w].id /\ g'[w].rec = store[g[w].id]
              /\ g'[w].res = g[w].res /\ g'[w].pred = g[w].pred
<1>1. g[w] \in Local /\ g \in [Worker -> SoundLocal]
  BY LocalFacts DEF TypeInv
<1>2. g' = [g EXCEPT ![w].pc = "write", ![w].rec = store[g[w].id]] =>
        /\ g'[w].pc = "write" /\ g'[w].id = g[w].id
        /\ g'[w].rec = store[g[w].id] /\ g'[w].next = g[w].next
        /\ g'[w].res = g[w].res /\ g'[w].pred = g[w].pred
  BY <1>1 DEF Local
<1>3. Snap(w) =>
        \/ /\ store[g[w].id].status = "absent"
           /\ g'[w] = Idle \/ Moves(w, g[w].next)
        \/ /\ Present(g[w].id)
           /\ g'[w].pc = "write" /\ g'[w].id = g[w].id
           /\ g'[w].rec = store[g[w].id] /\ g'[w].next = g[w].next
           /\ g'[w].res = g[w].res /\ g'[w].pred = g[w].pred
  BY <1>2, MoveFacts DEF Snap, Present
<1>4. Write(w) => /\ g'[w] = Idle \/ Moves(w, g[w].next)
                  /\ g[w].next = "idle" => g'[w] = Idle
  BY MoveFacts DEF Write
<1>5. Write(w) /\ Reliable =>
        journal' = [journal EXCEPT ![g[w].id] = Durable(g[w].rec)]
  BY DEF Write, Reliable
<1>6. GetFinalized(w) =>
        /\ g'[w].pc = "write" /\ g'[w].next = "push"
        /\ g'[w].id = g[w].id /\ g'[w].rec = store[g[w].id]
        /\ g'[w].res = g[w].res /\ g'[w].pred = g[w].pred
  <2> DEFINE c == IF store[g[w].id].stopReq /\ g[w].id \notin loaded
                  THEN "user-stop" ELSE g[w].cause
  <2>1. GetFinalized(w) =>
          g' = [g EXCEPT ![w].pc = "write", ![w].next = "push",
                         ![w].rec = store[g[w].id], ![w].cause = c]
    BY <1>1 DEF GetFinalized, Local
  <2> HIDE DEF c
  <2> QED
    BY <1>1, <2>1 DEF Local
<1> QED
  BY <1>3, <1>4, <1>5, <1>6

(* What PlanResume leaves a goroutine that arms a resume.                  *)
Plans(w) ==
  /\ nextId \in RunId /\ nextId' = nextId + 1
  /\ g'[w].pc = "schedule" /\ g'[w].id = g[w].id
  /\ g'[w].res.succ = nextId

LEMMA EndFacts ==
  ASSUME TypeInv, NEW w \in Worker
  PROVE  /\ Finalize(w) => \/ Moves(w, "get") /\ Running(g[w].id)
                           \/ Moves(w, "end") /\ ~Running(g[w].id)
         /\ ClaimPush(w) => \/ Rejournals(w, "pushgo")
                            \/ Moves(w, "plan") /\ store' = store
         /\ StartPush(w) => Moves(w, "plan")
         /\ PlanResume(w) => \/ Plans(w)
                             \/ Moves(w, "end") /\ nextId' = nextId
         /\ ScheduleResume(w) => \/ Rejournals(w, "end")
                                 \/ Moves(w, "end") /\ store' = store
         /\ EndFinalizing(w) => g'[w] = Idle
<1>1. g[w] \in Local /\ g \in [Worker -> SoundLocal]
  BY LocalFacts DEF TypeInv
<1>2. Finalize(w) => \/ Moves(w, "get") /\ Running(g[w].id)
                     \/ Moves(w, "end") /\ ~Running(g[w].id)
  <2>1. Finalize(w) => Goto(w, IF Running(g[w].id) THEN "get" ELSE "end")
    BY DEF Finalize, Running
  <2> QED
    BY <2>1, MoveFacts
<1>3. /\ ClaimPush(w) => \/ Rejournals(w, "pushgo")
                         \/ Moves(w, "plan") /\ store' = store
      /\ StartPush(w) => Moves(w, "plan")
      /\ ScheduleResume(w) => \/ Rejournals(w, "end")
                              \/ Moves(w, "end") /\ store' = store
      /\ EndFinalizing(w) => g'[w] = Idle
  BY MoveFacts DEF ClaimPush, StartPush, ScheduleResume, EndFinalizing
<1>4. PlanResume(w) => \/ Plans(w)
                       \/ Moves(w, "end") /\ nextId' = nextId
  <2>1. ASSUME nextId \in RunId, nextId' = nextId + 1, NEW count, NEW streak,
               g' = [g EXCEPT ![w].pc = "schedule",
                              ![w].res = [succ |-> nextId, count |-> count,
                                          streak |-> streak, attempts |-> 0]]
        PROVE  Plans(w)
    BY <1>1, <2>1 DEF Plans, Local
  <2> QED
    BY <2>1, MoveFacts DEF PlanResume
<1> QED
  BY <1>2, <1>3, <1>4

LEMMA FireFacts ==
  ASSUME TypeInv, NEW w \in Worker
  PROVE  /\ \A i \in RunId : TakeResume(w, i) =>
              /\ g'[w].pc = "snap" /\ g'[w].next = "fireget" /\ g'[w].id = i
              /\ g'[w].res = store[i].pending
         /\ BuildSuccessor(w) =>
              \/ g'[w] = Idle
              \/ /\ g'[w].pc = "reserve" /\ g'[w].pred = g[w].id
                 /\ g'[w].id = g[w].res.succ /\ g'[w].res = g[w].res
                 /\ g'[w].rec.status = "running"
                 /\ g'[w].rec.pending = NoResume /\ ~g'[w].rec.pid
         /\ Rearm(w) =>
              /\ g'[w].pc = "snap" /\ g'[w].next = "idle"
              /\ g'[w].id = g[w].pred
<1>1. g[w] \in Local /\ g \in [Worker -> SoundLocal]
  BY LocalFacts DEF TypeInv
<1>2. ASSUME NEW i \in RunId, TakeResume(w, i)
      PROVE  /\ g'[w].pc = "snap" /\ g'[w].next = "fireget" /\ g'[w].id = i
             /\ g'[w].res = store[i].pending
  BY <1>1, <1>2 DEF TakeResume, Local
<1>3. ASSUME BuildSuccessor(w), ~Done(w)
      PROVE  /\ g'[w].pc = "reserve" /\ g'[w].pred = g[w].id
             /\ g'[w].id = g[w].res.succ /\ g'[w].res = g[w].res
             /\ g'[w].rec.status = "running"
             /\ g'[w].rec.pending = NoResume /\ ~g'[w].rec.pid
  <2> DEFINE r == store[g[w].id]
             n == NewRun(r.lane, r.key, r.engine, g[w].res.count,
                         g[w].res.streak)
  <2>1. n.status = "running" /\ n.pending = NoResume /\ ~n.pid
    BY DEF NewRun, Absent
  <2>2. g' = [g EXCEPT ![w].pc = "reserve", ![w].pred = g[w].id,
                       ![w].id = g[w].res.succ, ![w].rec = n]
    BY <1>3 DEF BuildSuccessor
  <2> HIDE DEF n
  <2>3. /\ g'[w].pc = "reserve" /\ g'[w].pred = g[w].id
        /\ g'[w].id = g[w].res.succ /\ g'[w].res = g[w].res
        /\ g'[w].rec = n
    BY <1>1, <2>2 DEF Local
  <2> QED
    BY <2>1, <2>3
<1>4. BuildSuccessor(w) /\ Done(w) => g'[w] = Idle
  BY MoveFacts
<1>5. Rearm(w) => /\ g'[w].pc = "snap" /\ g'[w].next = "idle"
                  /\ g'[w].id = g[w].pred
  BY <1>1 DEF Rearm, Local
<1> QED
  BY <1>2, <1>3, <1>4, <1>5

LEMMA StopFacts ==
  ASSUME TypeInv, NEW w \in Worker
  PROVE  /\ \A i \in RunId : StopBegin(w, i) =>
              /\ g'[w].id = i
              /\ \/ g'[w].pc = "stopmark" /\ Running(i)
                 \/ g'[w].pc = "stopcancel" /\ Terminal(store[i])
         /\ StopMark(w) => Moves(w, "stopsignal")
         /\ StopSignal(w) => Moves(w, "stopfinalize")
         /\ StopFinalize(w) \/ StopCancel(w) => Rejournals(w, "idle")
<1>1. g[w] \in Local /\ g \in [Worker -> SoundLocal]
  BY LocalFacts DEF TypeInv
<1>2. ASSUME NEW i \in RunId, StopBegin(w, i)
      PROVE  /\ g'[w].id = i
             /\ \/ g'[w].pc = "stopmark" /\ Running(i)
                \/ g'[w].pc = "stopcancel" /\ Terminal(store[i])
  BY <1>1, <1>2 DEF StopBegin, Running, Local
<1>3. /\ StopMark(w) => Moves(w, "stopsignal")
      /\ StopSignal(w) => Moves(w, "stopfinalize")
      /\ StopFinalize(w) \/ StopCancel(w) => Rejournals(w, "idle")
  BY MoveFacts DEF StopMark, StopSignal, StopFinalize, StopCancel
<1> QED
  BY <1>2, <1>3

Posts(w) == \E lane \in LaneKey, key \in IdemKey, engine \in RequestEngine :
              PostBuild(w, lane, key, engine)

LEMMA StartFacts ==
  ASSUME TypeInv, NEW w \in Worker, g[w].pc = "idle" => g[w] = Idle
  PROVE  /\ Posts(w) =>
              /\ g'[w].pc = "reserve" /\ g'[w].pred = NoRun
              /\ g'[w].rec.status = "running"
              /\ g'[w].rec.pending = NoResume /\ ~g'[w].rec.pid
         /\ \A i \in RunId : ObserveExit(w, i) \/ RouteSurvivor(w, i) =>
              \/ /\ Running(i) /\ store' = [store EXCEPT ![i] = Hidden(@)]
                 /\ g'[w].pc = "finalize" /\ g'[w].id = i
              \/ ~Running(i) /\ store' = store /\ g'[w] = g[w]
<1>1. g[w] \in Local /\ g \in [Worker -> SoundLocal]
  BY LocalFacts DEF TypeInv
<1>2. ASSUME NEW lane \in LaneKey, NEW key \in IdemKey,
             NEW engine \in RequestEngine, PostBuild(w, lane, key, engine)
      PROVE  /\ g'[w].pc = "reserve" /\ g'[w].pred = NoRun
             /\ g'[w].rec.status = "running"
             /\ g'[w].rec.pending = NoResume /\ ~g'[w].rec.pid
  <2> DEFINE r == NewRun(lane, key, engine, 0, 0)
  <2>1. r.status = "running" /\ r.pending = NoResume /\ ~r.pid
    BY DEF NewRun, Absent
  <2>2. g' = [g EXCEPT ![w].pc = "reserve", ![w].rec = r] /\ g[w] = Idle
    BY <1>2 DEF PostBuild, At
  <2> HIDE DEF r
  <2>3. g'[w].pc = "reserve" /\ g'[w].rec = r /\ g'[w].pred = g[w].pred
    BY <1>1, <2>2 DEF Local
  <2> QED
    BY <2>1, <2>2, <2>3 DEF Idle
<1>3. ASSUME NEW i \in RunId, ObserveExit(w, i) \/ RouteSurvivor(w, i)
      PROVE  \/ /\ Running(i) /\ store' = [store EXCEPT ![i] = Hidden(@)]
                /\ g'[w].pc = "finalize" /\ g'[w].id = i
             \/ ~Running(i) /\ store' = store /\ g'[w] = g[w]
  <2>1. PICK cause, boot : BeginFinalizing(w, i, cause, boot)
    BY <1>3 DEF ObserveExit, RouteSurvivor
  <2> QED
    BY <1>1, <2>1 DEF BeginFinalizing, Running, Local
<1> QED
  BY <1>2, <1>3 DEF Posts

(* A goroutine takes its next step, or starts.                             *)
Acts(w) ==
  \/ Step(w) \/ Request(w)
  \/ \E i \in RunId : ObserveExit(w, i) \/ TakeResume(w, i) \/ RouteSurvivor(w, i)

-----------------------------------------------------------------------------
(* Ids that were drawn.                                                    *)

(* What LaneInv says, without the lanes.                                   *)
LEMMA DrawnIds ==
  ASSUME TypeInv, LaneInv
  PROVE  /\ \A w \in Worker :
              /\ g[w].pc = "idle" => g[w] = Idle
              /\ g[w].pc \notin {"idle", "reserve", "rearm"}
                   => Drawn(nextId, g[w].id)
              /\ g[w].pc = "reserve" /\ g[w].pred # NoRun
                   => g[w].id = g[w].res.succ
              /\ Fires(g[w]) => Drawn(nextId, g[w].res.succ)
              /\ Respawns(g[w]) => /\ Drawn(nextId, g[w].pred)
                                   /\ Drawn(nextId, g[w].res.succ)
              /\ g[w].pc = "write" /\ g[w].rec.pending # NoResume
                   => Drawn(nextId, g[w].rec.pending.succ)
         /\ \A i \in RunId :
              /\ store[i].pending # NoResume
                   => Drawn(nextId, store[i].pending.succ)
              /\ journal[i].pending # NoResume
                   => Drawn(nextId, journal[i].pending.succ)
         /\ phase = "down" => /\ \A i \in RunId : store[i] = Absent
                              /\ \A w \in Worker : g[w] = Idle
<1>1. PICK f : Consistent(nextId, f)
  BY DEF LaneInv
<1>2. Absent.pending = NoResume
  BY DEF Absent
<1>3. \A w \in Worker : Carried(nextId, f, g[w])
  BY <1>1 DEF Consistent
<1>4. ASSUME NEW w \in Worker
      PROVE  /\ g[w].pc = "idle" => g[w] = Idle
             /\ g[w].pc \notin {"idle", "reserve", "rearm"}
                  => Drawn(nextId, g[w].id)
             /\ g[w].pc = "reserve" /\ g[w].pred # NoRun
                  => g[w].id = g[w].res.succ
             /\ Fires(g[w]) => Drawn(nextId, g[w].res.succ)
             /\ Respawns(g[w]) => /\ Drawn(nextId, g[w].pred)
                                  /\ Drawn(nextId, g[w].res.succ)
             /\ g[w].pc = "write" /\ g[w].rec.pending # NoResume
                  => Drawn(nextId, g[w].rec.pending.succ)
  <2>1. Carried(nextId, f, g[w])
    BY <1>3
  <2>2. Respawns(g[w]) => Succeeds(g[w])
    BY DEF Respawns, Succeeds
  <2> QED
    BY <1>2, <2>1, <2>2 DEF Carried, Heir, InPlace
<1>5. ASSUME NEW i \in RunId
      PROVE  /\ store[i].pending # NoResume
                  => Drawn(nextId, store[i].pending.succ)
             /\ journal[i].pending # NoResume
                  => Drawn(nextId, journal[i].pending.succ)
  BY <1>1, <1>2 DEF Consistent, InPlace, Heir
<1> QED
  BY <1>4, <1>5 DEF LaneInv

(* Every successor is a drawn id, and its predecessor a run in the store.  *)
LEMMA LinksDrawn ==
  ASSUME TypeInv, LaneInv, PresenceInv, NEW p \in RunId, NEW s \in RunId,
         Link(p, s)
  PROVE  /\ Drawn(nextId, s)
         /\ Terminal(store[p]) \/ Terminal(journal[p])
<1>1. \A q : q.succ = s => q # NoResume
  BY PCs DEF NoResume
<1>2. CASE store[p].pending.succ = s
  BY <1>1, <1>2, DrawnIds DEF PresenceInv
<1>3. CASE journal[p].pending.succ = s
  BY <1>1, <1>3, DrawnIds DEF PresenceInv
<1>4. ASSUME NEW w \in Worker, Copies(g[w], p, s)
      PROVE  /\ Drawn(nextId, s)
             /\ Terminal(store[p])
  <2>1. g[w].pc = "write" /\ g[w].id = p /\ g[w].rec.pending.succ = s
    BY <1>4 DEF Copies
  <2>2. PresentFor(g[w])
    BY DEF PresenceInv
  <2> QED
    BY <1>1, <2>1, <2>2, DrawnIds DEF PresentFor, Settling
<1>5. ASSUME NEW w \in Worker, Holds(g[w], s), Parent(g[w]) = p
      PROVE  /\ Drawn(nextId, s)
             /\ Terminal(store[p])
  <2>1. PresentFor(g[w])
    BY DEF PresenceInv
  <2>2. CASE Fires(g[w])
    BY <1>5, <2>1, <2>2, DrawnIds
    DEF PresentFor, Settling, Fires, Holds, Parent
  <2>3. CASE Respawns(g[w]) /\ ~Fires(g[w])
    BY <1>5, <2>1, <2>3, DrawnIds DEF PresentFor, Holds, Parent
  <2> QED
    BY <1>5, <2>2, <2>3 DEF Holds
<1> QED
  BY <1>2, <1>3, <1>4, <1>5 DEF Link

(* An id is reserved once: nothing was ever done with it.                  *)
LEMMA ReservesUnused ==
  ASSUME TypeInv, LaneInv, FreshInv, NEW w \in Worker, Reserve(w)
  PROVE  Unused(g'[w].id)
<1>1. /\ g'[w].id = IF g[w].pred = NoRun THEN nextId ELSE g[w].id
      /\ g'[w].id \in RunId
  BY SpawnFacts
<1>2. CASE g[w].pred = NoRun
  BY <1>1, <1>2 DEF FreshInv, TypeInv, TypeOK, RunId
<1>3. CASE g[w].pred # NoRun
  <2>1. g[w].pc = "reserve"
    BY DEF Reserve, At
  <2>2. /\ g[w].id = g[w].res.succ
        /\ g[w].pred \in RunId
    BY <1>3, <2>1, DrawnIds DEF Respawns, Drawn
  <2>3. Holds(g[w], g[w].id) /\ Parent(g[w]) = g[w].pred
    BY <1>3, <2>1, <2>2 DEF Holds, Respawns, Parent, Fires
  <2>4. Link(g[w].pred, g[w].id)
    BY <2>3 DEF Link
  <2> QED
    BY <1>1, <1>3, <2>2, <2>4 DEF FreshInv
<1> QED
  BY <1>2, <1>3

-----------------------------------------------------------------------------
(* First write wins, and a stored run stays in the store.                  *)

(* Without a crash or a boot, one entry is revised, or a run is reserved   *)
(* whose entry was absent.                                                 *)
LEMMA StatusKept ==
  ASSUME TypeInv, LaneInv, FreshInv, Reliable, [Next]_vars, ~Crash, ~Boot,
         NEW i \in RunId, Present(i)
  PROVE  /\ store'[i].status # "absent"
         /\ Terminal(store[i]) => store'[i].status = store[i].status
<1>1. store \in [RunId -> Run]
  BY DEF TypeInv, TypeOK
<1>2. ASSUME NEW k \in RunId, NEW r, Change(k, r),
             store' = [store EXCEPT ![k] = r]
      PROVE  /\ store'[i].status # "absent"
             /\ Terminal(store[i]) => store'[i].status = store[i].status
  <2>1. CASE k # i
    BY <1>1, <1>2, <2>1 DEF Present
  <2>2. CASE k = i
    <3>1. store'[i] = r /\ store[i] \in Run
      BY <1>1, <1>2, <2>2
    <3>2. CASE r \in Revised(store[i])
      BY <3>1, <3>2
      DEF Present, Revised, Finalized, Hidden, Terminal, Run, Status
    <3>3. r \notin Revised(store[i]) => \E p : r = [store[i] EXCEPT !.pending = p]
      BY <1>2, <2>2 DEF Change, Reliable, Taken
    <3> QED
      BY <3>1, <3>2, <3>3 DEF Present, Run
  <2> QED
    BY <2>1, <2>2
<1>3. ASSUME NEW w \in Worker, Reserve(w)
      PROVE  store'[i] = store[i]
  <2>1. /\ g'[w].id \in RunId
        /\ store' = [store EXCEPT ![g'[w].id] = g[w].rec]
    BY <1>3, SpawnFacts
  <2>2. store[g'[w].id] = Absent
    BY <1>3, ReservesUnused DEF Unused
  <2> QED
    BY <1>1, <2>1, <2>2 DEF Present, Absent
<1> QED
  BY <1>2, <1>3, NextStores DEF StoreStep, Present

-----------------------------------------------------------------------------
(* Where resumes and successors come from.                                 *)

LEMMA IdleHolds == /\ \A s : ~Holds(Idle, s)
                   /\ \A i : ~Turn(Idle, i)
                   /\ ~Ends(Idle) /\ ~Spawns(Idle) /\ ~Unplanned(Idle)
                   /\ ~Respawns(Idle)
                   /\ Idle.pc = "idle" /\ Idle.id = NoRun
BY DEF Idle, Holds, Fires, Respawns, Turn, Ends, Spawns, Unplanned, Unpushed,
       Claims, Records, SpawnPC, EndPC

(* A goroutine holds a resume because it held it before, because it drew   *)
(* the successor's id, or because it took it from the store.               *)
LEMMA HeldFrom ==
  ASSUME TypeInv, LaneInv, Reliable, NEW w \in Worker, Acts(w), NEW s \in RunId,
         Holds(g'[w], s)
  PROVE  \/ Holds(g[w], s) /\ Parent(g'[w]) = Parent(g[w])
         \/ PlanResume(w) /\ Plans(w) /\ s = nextId
         \/ \E i \in RunId : /\ TakeResume(w, i) /\ store[i].pending.succ = s
                             /\ g'[w].pc = "snap" /\ Parent(g'[w]) = i
<1>1. ~(g'[w] = Idle)
  BY IdleHolds
<1>2. CASE Snap(w) \/ Write(w)
  <2>1. g[w].pc \in {"snap", "write"}
    BY <1>2 DEF Snap, Write, At
  <2>2. CASE Moves(w, g[w].next)
    BY <2>1, <2>2, LocalFacts
    DEF Moves, Holds, Parent, Fires, Respawns, Local, AfterJournal
  <2>3. CASE ~Moves(w, g[w].next)
    <3>1. /\ g'[w].pc = "write" /\ g'[w].id = g[w].id
          /\ g'[w].next = g[w].next
          /\ g'[w].res = g[w].res /\ g'[w].pred = g[w].pred
      BY <1>1, <1>2, <2>3, WriteFacts
    <3> QED
      BY <2>1, <3>1 DEF Holds, Parent, Fires, Respawns
  <2> QED
    BY <2>2, <2>3
<1>3. CASE \/ Unwritable(w) \/ Adopt(w) \/ Reserve(w) \/ JournalRun(w)
           \/ SpawnChild(w) \/ SpawnError(w) \/ SetPid(w) \/ JournalPid(w)
           \/ RecordIdem(w)
  <2>1. CASE Unwritable(w)
    <3>1. At(w, "reserve") /\ Moves(w, "rearm") /\ g[w].pred # NoRun
      BY <1>1, <2>1, SpawnFacts DEF Unwritable
    <3> QED
      BY <3>1 DEF At, Moves, Holds, Parent, Fires, Respawns
  <2>2. CASE ~Unwritable(w)
    <3>1. g'[w].pc \in {"record", "journal", "spawn", "setpid", "journalpid"}
      BY <1>1, <1>3, <2>2, SpawnFacts DEF Moves
    <3> QED
      BY <3>1 DEF Holds, Fires, Respawns
  <2> QED
    BY <2>1, <2>2
<1>4. CASE \/ Finalize(w) \/ GetFinalized(w) \/ ClaimPush(w) \/ StartPush(w)
           \/ ScheduleResume(w) \/ EndFinalizing(w)
           \/ StopMark(w) \/ StopSignal(w) \/ StopFinalize(w) \/ StopCancel(w)
  <2>1. \/ g'[w].pc \in {"get", "plan", "end", "stopsignal", "stopfinalize"}
        \/ g'[w].pc \in {"snap", "write"} /\ g'[w].next \in {"push", "pushgo", "end", "idle"}
    BY <1>1, <1>4, EndFacts, WriteFacts, StopFacts DEF Moves, Rejournals
  <2> QED
    BY <2>1 DEF Holds, Fires, Respawns
<1>5. CASE PlanResume(w)
  <2>1. Plans(w)
    <3>1. ~Moves(w, "end")
      BY DEF Moves, Holds, Fires, Respawns
    <3> QED
      BY <1>5, <3>1, EndFacts
  <2> QED
    BY <1>5, <2>1 DEF Plans, Holds
<1>6. CASE BuildSuccessor(w) \/ Rearm(w)
  <2>1. CASE BuildSuccessor(w)
    <3>1. /\ g'[w].pc = "reserve" /\ g'[w].pred = g[w].id
          /\ g'[w].res = g[w].res /\ At(w, "fireget")
      BY <1>1, <2>1, FireFacts DEF BuildSuccessor
    <3> QED
      BY <3>1 DEF At, Holds, Parent, Fires, Respawns
  <2>2. CASE Rearm(w)
    <3>1. g'[w].pc = "snap" /\ g'[w].next = "idle"
      BY <2>2, FireFacts
    <3> QED
      BY <3>1 DEF Holds, Fires, Respawns
  <2> QED
    BY <1>6, <2>1, <2>2
<1>7. CASE Request(w)
  <2>1. \/ g'[w].pc = "reserve" /\ g'[w].pred = NoRun
        \/ g'[w].pc \in {"stopmark", "stopcancel"}
    BY <1>7, StartFacts, StopFacts, DrawnIds DEF Request, Posts
  <2> QED
    BY <2>1 DEF Holds, Fires, Respawns
<1>8. ASSUME NEW i \in RunId,
             ObserveExit(w, i) \/ TakeResume(w, i) \/ RouteSurvivor(w, i)
      PROVE  \/ Holds(g[w], s) /\ Parent(g'[w]) = Parent(g[w])
             \/ /\ TakeResume(w, i) /\ store[i].pending.succ = s
                /\ g'[w].pc = "snap" /\ Parent(g'[w]) = i
  <2>1. CASE TakeResume(w, i)
    <3>1. /\ g'[w].pc = "snap" /\ g'[w].next = "fireget" /\ g'[w].id = i
          /\ g'[w].res = store[i].pending
      BY <2>1, FireFacts
    <3> QED
      BY <2>1, <3>1 DEF Holds, Parent, Fires
  <2>2. CASE ObserveExit(w, i) \/ RouteSurvivor(w, i)
    <3>1. g'[w] = g[w] \/ g'[w].pc = "finalize"
      BY <2>2, StartFacts, DrawnIds
    <3> QED
      BY <3>1 DEF Holds, Fires, Respawns
  <2> QED
    BY <1>8, <2>1, <2>2
<1> QED
  BY <1>2, <1>3, <1>4, <1>5, <1>6, <1>7, <1>8 DEF Acts, Step

(* A record that arms a resume was copied from the store.                  *)
LEMMA CopiedFrom ==
  ASSUME TypeInv, LaneInv, Reliable, NEW w \in Worker, Acts(w), NEW p \in RunId,
         NEW s \in RunId, Copies(g'[w], p, s)
  PROVE  \/ Copies(g[w], p, s)
         \/ /\ Snap(w) \/ GetFinalized(w)
            /\ g[w].id = p /\ store[p].pending.succ = s
<1>1. g'[w].pc = "write"
  BY DEF Copies
<1>2. CASE Snap(w) \/ Write(w)
  <2>1. g[w].next # "write"
    BY LocalFacts DEF Local, AfterJournal
  <2> QED
    BY <1>1, <1>2, <2>1, WriteFacts, IdleHolds DEF Moves, Copies
<1>3. CASE GetFinalized(w)
  BY <1>3, WriteFacts DEF Copies
<1>4. CASE \/ Unwritable(w) \/ Adopt(w) \/ Reserve(w) \/ JournalRun(w)
           \/ SpawnChild(w) \/ SpawnError(w) \/ SetPid(w) \/ JournalPid(w)
           \/ RecordIdem(w)
  BY <1>1, <1>4, SpawnFacts, IdleHolds DEF Moves
<1>5. CASE \/ Finalize(w) \/ ClaimPush(w) \/ StartPush(w) \/ PlanResume(w)
           \/ ScheduleResume(w) \/ EndFinalizing(w)
  BY <1>1, <1>5, EndFacts, IdleHolds DEF Moves, Rejournals, Plans
<1>6. CASE \/ BuildSuccessor(w) \/ Rearm(w) \/ StopMark(w) \/ StopSignal(w)
           \/ StopFinalize(w) \/ StopCancel(w)
  BY <1>1, <1>6, FireFacts, StopFacts, IdleHolds DEF Moves, Rejournals
<1>7. CASE Request(w)
  BY <1>1, <1>7, StartFacts, StopFacts, DrawnIds DEF Request, Posts
<1>8. ASSUME NEW i \in RunId,
             ObserveExit(w, i) \/ TakeResume(w, i) \/ RouteSurvivor(w, i)
      PROVE  Copies(g[w], p, s)
  BY <1>1, <1>8, StartFacts, FireFacts, DrawnIds
<1> QED
  BY <1>2, <1>3, <1>4, <1>5, <1>6, <1>7, <1>8 DEF Acts, Step

(* A turn begins with a reservation, or with the end of a run whose exit   *)
(* was expected, and only moves on from there.                             *)
Begins(w, i) == Running(i) /\ (ObserveExit(w, i) \/ RouteSurvivor(w, i))
LEMMA TurnFrom ==
  ASSUME TypeInv, LaneInv, PresenceInv, Reliable, NEW w \in Worker, Acts(w),
         NEW i \in RunId, Turn(g'[w], i)
  PROVE  \/ /\ Turn(g[w], i)
            /\ Spawns(g'[w]) => Spawns(g[w])
            /\ Unplanned(g'[w]) => Unplanned(g[w])
            /\ Unpushed(g'[w]) => Unpushed(g[w])
            /\ Ends(g'[w]) => Ends(g[w])
            /\ Claims(g'[w]) => Claims(g[w]) \/ (Write(w) /\ Records(g[w], {"push"}))
         \/ Reserve(w) /\ i = g'[w].id /\ g'[w].pc = "journal"
         \/ Begins(w, i) /\ g'[w].pc = "finalize"
<1> DEFINE Goal == \/ /\ Turn(g[w], i)
                      /\ Spawns(g'[w]) => Spawns(g[w])
                      /\ Unplanned(g'[w]) => Unplanned(g[w])
                      /\ Unpushed(g'[w]) => Unpushed(g[w])
                      /\ Ends(g'[w]) => Ends(g[w])
                      /\ Claims(g'[w]) => Claims(g[w])
                                          \/ (Write(w) /\ Records(g[w], {"push"}))
                   \/ Reserve(w) /\ i = g'[w].id /\ g'[w].pc = "journal"
                   \/ Begins(w, i) /\ g'[w].pc = "finalize"
<1> USE DEF Turn, Spawns, Ends, Unplanned, Unpushed, Claims, Records, SpawnPC,
            EndPC
<1>1. ~(g'[w] = Idle) /\ g'[w].id = i
  BY IdleHolds
<1>2. CASE Snap(w) \/ Write(w)
  <2>1. g[w].pc \in {"snap", "write"} /\ Present(g[w].id)
    BY <1>2, PCs DEF Snap, Write, At, PresenceInv, PresentFor
  <2>2. CASE Snap(w)
    <3>1. /\ g'[w].pc = "write" /\ g'[w].id = g[w].id
          /\ g'[w].next = g[w].next
      BY <1>1, <2>1, <2>2, WriteFacts DEF Present
    <3> QED
      BY <1>1, <2>1, <3>1
  <2>3. CASE Write(w)
    <3>1. Moves(w, g[w].next) /\ g[w].next \in AfterJournal
      BY <1>1, <2>3, WriteFacts, LocalFacts DEF Local
    <3>2. g[w].pc = "write" /\ g'[w].id = g[w].id /\ g'[w].pc = g[w].next
      BY <2>3, <3>1 DEF Write, At, Moves
    <3> QED
      BY <1>1, <2>3, <3>1, <3>2 DEF AfterJournal
  <2> QED
    BY <1>2, <2>2, <2>3
<1>3. CASE Reserve(w)
  BY <1>1, <1>3, SpawnFacts
<1>4. CASE JournalRun(w) \/ SpawnChild(w) \/ SetPid(w)
  <2>1. /\ g[w].pc \in {"journal", "spawn", "setpid"}
        /\ g'[w].pc \in {"spawn", "setpid", "journalpid"}
        /\ g'[w].id = g[w].id
    BY <1>4, SpawnFacts DEF JournalRun, SpawnChild, SetPid, At, Moves
  <2> QED
    BY <1>1, <2>1
<1>5. CASE \/ Unwritable(w) \/ Adopt(w) \/ SpawnError(w) \/ JournalPid(w)
           \/ RecordIdem(w)
  <2>1. g'[w].pc \in {"rearm", "record"}
    BY <1>1, <1>5, SpawnFacts DEF Moves
  <2> QED
    BY <2>1
<1>6. CASE \/ Finalize(w) \/ GetFinalized(w) \/ ClaimPush(w) \/ StartPush(w)
           \/ PlanResume(w) \/ ScheduleResume(w) \/ EndFinalizing(w)
  <2>1. CASE Finalize(w)
    <3>1. /\ g[w].pc = "finalize" /\ g'[w].pc \in {"get", "end"}
          /\ g'[w].id = g[w].id
      BY <2>1, EndFacts DEF Finalize, At, Moves
    <3> QED
      BY <1>1, <3>1
  <2>2. CASE GetFinalized(w)
    <3>1. /\ g[w].pc = "get" /\ g'[w].pc = "write" /\ g'[w].next = "push"
          /\ g'[w].id = g[w].id
      BY <2>2, WriteFacts DEF GetFinalized, At
    <3> QED
      BY <1>1, <3>1
  <2>3. CASE ClaimPush(w)
    <3>1. /\ g[w].pc = "push" /\ g'[w].id = g[w].id
          /\ \/ g'[w].pc = "snap" /\ g'[w].next = "pushgo"
             \/ g'[w].pc = "plan"
      BY <2>3, EndFacts DEF ClaimPush, At, Moves, Rejournals
    <3> QED
      BY <1>1, <3>1
  <2>4. CASE StartPush(w)
    <3>1. /\ g[w].pc = "pushgo" /\ g'[w].id = g[w].id /\ g'[w].pc = "plan"
      BY <2>4, EndFacts DEF StartPush, At, Moves
    <3> QED
      BY <1>1, <3>1
  <2>5. CASE PlanResume(w)
    <3>1. /\ g[w].pc = "plan" /\ g'[w].id = g[w].id
          /\ g'[w].pc \in {"schedule", "end"}
      BY <2>5, EndFacts DEF PlanResume, At, Moves, Plans
    <3> QED
      BY <1>1, <3>1
  <2>6. CASE ScheduleResume(w)
    <3>1. /\ g[w].pc = "schedule" /\ g'[w].id = g[w].id
          /\ \/ g'[w].pc = "snap" /\ g'[w].next = "end"
             \/ g'[w].pc = "end"
      BY <2>6, EndFacts DEF ScheduleResume, At, Moves, Rejournals
    <3> QED
      BY <1>1, <3>1
  <2> QED
    BY <1>1, <1>6, <2>1, <2>2, <2>3, <2>4, <2>5, <2>6, EndFacts
<1>7. CASE \/ BuildSuccessor(w) \/ Rearm(w) \/ StopMark(w) \/ StopSignal(w)
           \/ StopFinalize(w) \/ StopCancel(w)
  <2>1. \/ g'[w].pc \in {"reserve", "stopsignal", "stopfinalize"}
        \/ g'[w].pc = "snap" /\ g'[w].next = "idle"
    BY <1>1, <1>7, FireFacts, StopFacts DEF Moves, Rejournals
  <2> QED
    BY <2>1
<1>8. CASE Request(w)
  <2>1. g'[w].pc \in {"reserve", "stopmark", "stopcancel"}
    BY <1>8, StartFacts, StopFacts, DrawnIds DEF Request, Posts
  <2> QED
    BY <2>1
<1>9. ASSUME NEW k \in RunId, TakeResume(w, k)
      PROVE  Goal
  <2>1. g'[w].pc = "snap" /\ g'[w].next = "fireget"
    BY <1>9, FireFacts
  <2> QED
    BY <2>1
<1>10. ASSUME NEW k \in RunId, ObserveExit(w, k) \/ RouteSurvivor(w, k)
      PROVE  Goal
  <2>1. \/ Running(k) /\ g'[w].pc = "finalize" /\ g'[w].id = k
        \/ g'[w] = g[w]
    BY <1>10, StartFacts, DrawnIds
  <2> QED
    BY <1>1, <1>10, <2>1 DEF Begins
<1> QED
  BY <1>2, <1>3, <1>4, <1>5, <1>6, <1>7, <1>8, <1>9, <1>10 DEF Acts, Step

(* A goroutine stays, dies with the process, or acts.                      *)
LEMMA GoroutineSteps ==
  ASSUME TypeInv, LaneInv, [Next]_vars
  PROVE  /\ \A w \in Worker : g'[w] = g[w] \/ g'[w] = Idle \/ Acts(w)
         /\ \A v, w \in Worker : Acts(v) /\ v # w => g'[w] = g[w]
         /\ \/ \E w \in Worker : Acts(w)
            \/ Crash
            \/ g' = g /\ (Boot \/ Serve \/ (\E i \in RunId : ChildExits(i))
                               \/ UNCHANGED vars)
<1>1. ASSUME NEW v \in Worker, NEW w \in Worker, Acts(v), v # w
      PROVE  g'[w] = g[w]
  BY <1>1, OthersStay DEF Acts
<1>2. \/ \E w \in Worker : Acts(w)
      \/ Crash
      \/ g' = g /\ (Boot \/ Serve \/ (\E i \in RunId : ChildExits(i))
                         \/ UNCHANGED vars)
  BY DEF Next, Acts, Boot, Serve, ChildExits, vars
<1>3. Crash => \A w \in Worker : g'[w] = Idle
  BY DEF Crash
<1> QED
  BY <1>1, <1>2, <1>3

(* Only a plan makes a new successor.                                      *)
LEMMA LinkFrom ==
  ASSUME TypeInv, LaneInv, PresenceInv, Reliable, [Next]_vars,
         NEW p \in RunId, NEW s \in RunId, Link(p, s)'
  PROVE  \/ Link(p, s)
         \/ \E w \in Worker : /\ PlanResume(w) /\ Plans(w)
                              /\ p = g[w].id /\ s = nextId
<1> DEFINE New == \E w \in Worker : /\ PlanResume(w) /\ Plans(w)
                                    /\ p = g[w].id /\ s = nextId
<1>1. /\ store \in [RunId -> Run] /\ journal \in [RunId -> Run]
      /\ \A w \in Worker : /\ g[w].rec \in Run /\ g[w].res \in PendingResume
                           /\ PresentFor(g[w])
      /\ s # NoRun /\ NoResume.succ = NoRun /\ Absent.pending = NoResume
  BY LocalFacts, PCs DEF TypeInv, TypeOK, PresenceInv, NoResume, Absent
<1>2. ASSUME store'[p].pending.succ = s PROVE Link(p, s)
  <2>1. ASSUME NEW k \in RunId, NEW r, Change(k, r),
               store' = [store EXCEPT ![k] = r]
        PROVE  Link(p, s)
    <3>1. CASE k # p
      BY <1>1, <1>2, <2>1, <3>1 DEF Link
    <3>2. CASE k = p
      <4>1. r.pending.succ = s /\ store[p] \in Run
        BY <1>1, <1>2, <2>1, <3>2
      <4>2. CASE r \in Revised(store[p]) \/ r = Taken(store[p])
        <5>1. r.pending \in {store[p].pending, NoResume}
          BY <4>1, <4>2 DEF Revised, Taken, Finalized, Hidden, Run
        <5> QED
          BY <1>1, <4>1, <5>1 DEF Link
      <4>3. ASSUME NEW w \in Worker, At(w, "schedule"), p = g[w].id,
                   r = [store[p] EXCEPT !.pending = g[w].res]
            PROVE  Link(p, s)
        <5>1. g[w].res.succ = s
          BY <4>1, <4>3 DEF Run
        <5> QED
          BY <4>3, <5>1 DEF Link, Holds, Parent, Fires, At
      <4>4. ASSUME NEW w \in Worker, At(w, "rearm"), p = g[w].pred,
                   r = [store[p] EXCEPT !.pending =
                         [g[w].res EXCEPT !.attempts = g[w].res.attempts + 1]]
            PROVE  Link(p, s)
        <5>1. g[w].res.succ = s
          BY <1>1, <4>1, <4>4 DEF Run, PendingResume
        <5>2. p # NoRun
          BY PCs
        <5> QED
          BY <4>4, <5>1, <5>2 DEF Link, Holds, Parent, Fires, Respawns, At
      <4> QED
        BY <1>1, <2>1, <3>2, <4>1, <4>2, <4>3, <4>4 DEF Change
    <3> QED
      BY <3>1, <3>2
  <2>2. ASSUME NEW w \in Worker, Reserve(w) PROVE Link(p, s)
    <3>1. /\ g'[w].id \in RunId
          /\ store' = [store EXCEPT ![g'[w].id] = g[w].rec]
      BY <2>2, SpawnFacts
    <3>2. g[w].rec.pending = NoResume
      BY <1>1, <2>2 DEF Reserve, At, PresentFor
    <3> QED
      BY <1>1, <1>2, <3>1, <3>2 DEF Link
  <2>3. CASE store' \in {store, journal} \/ store' = [i \in RunId |-> Absent]
    BY <1>1, <1>2, <2>3 DEF Link
  <2> QED
    BY <2>1, <2>2, <2>3, NextStores DEF StoreStep
<1>3. ASSUME journal'[p].pending.succ = s PROVE Link(p, s)
  <2>1. CASE journal'[p] \in {journal[p], Absent}
    BY <1>1, <1>3, <2>1 DEF Link
  <2>2. ASSUME NEW w \in Worker, g[w].pc \in {"write", "journal", "journalpid"},
               p = g[w].id, journal'[p] = Durable(g[w].rec)
        PROVE  Link(p, s)
    <3>1. g[w].rec.pending.succ = s
      BY <1>1, <1>3, <2>2 DEF Durable, Run
    <3>2. g[w].pc = "write"
      BY <1>1, <2>2, <3>1 DEF PresentFor, Spawns, SpawnPC
    <3> QED
      BY <2>2, <3>1, <3>2 DEF Link, Copies
  <2> QED
    BY <2>1, <2>2, NextJournals DEF JournalStep
<1>4. ASSUME NEW w \in Worker, Copies(g'[w], p, s) PROVE Link(p, s)
  <2>1. g'[w] # Idle
    BY <1>4, IdleHolds DEF Copies
  <2> QED
    BY <1>4, <2>1, GoroutineSteps, CopiedFrom DEF Link
<1>5. ASSUME NEW w \in Worker, Holds(g'[w], s), Parent(g'[w]) = p
      PROVE  Link(p, s) \/ New
  <2>1. CASE g'[w] = g[w]
    BY <1>5, <2>1 DEF Link
  <2>2. CASE g'[w] # g[w]
    <3>1. Acts(w)
      BY <1>5, <2>2, GoroutineSteps, IdleHolds
    <3>2. CASE Holds(g[w], s) /\ Parent(g'[w]) = Parent(g[w])
      BY <1>5, <3>2 DEF Link
    <3>3. CASE PlanResume(w) /\ Plans(w) /\ s = nextId
      BY <1>5, <3>3 DEF Plans, Parent, Fires
    <3>4. CASE \E i \in RunId : store[i].pending.succ = s /\ Parent(g'[w]) = i
      BY <1>5, <3>4 DEF Link
    <3> QED
      BY <1>5, <3>1, <3>2, <3>3, <3>4, HeldFrom
  <2> QED
    BY <2>1, <2>2
<1> QED
  BY <1>2, <1>3, <1>4, <1>5 DEF Link

(* A goroutine acts in a process that lives on.                            *)
LEMMA ActsAlive ==
  ASSUME TypeInv, LaneInv, NEW w \in Worker, Acts(w)
  PROVE  ~Crash /\ ~Boot /\ phase' = phase
<1>1. phase' = phase
  <2>1. CASE Step(w)
    BY <2>1
    DEF Step, Snap, Write, Unwritable, Adopt, Reserve, JournalRun,
        SpawnChild, SpawnError, SetPid, JournalPid, RecordIdem, Finalize,
        GetFinalized, ClaimPush, StartPush, PlanResume, ScheduleResume,
        EndFinalizing, BuildSuccessor, Rearm, StopMark, StopSignal,
        StopFinalize, StopCancel, control
  <2>2. CASE ~Step(w)
    BY <2>2 DEF Acts, Request, PostBuild, StopBegin, ObserveExit, TakeResume,
                RouteSurvivor, control
  <2> QED
    BY <2>1, <2>2
<1> QED
  BY <1>1 DEF Crash, Boot

(* An exit is expected from the moment its pid is journaled, or from a boot*)
(* that found the run unfinished, until a goroutine takes it up.           *)
LEMMA ExpectedFrom ==
  ASSUME TypeInv, [Next]_vars, NEW i \in RunId
  PROVE  /\ i \in waiting' =>
              \/ i \in waiting
              \/ \E w \in Worker : JournalPid(w) /\ i = g[w].id
              \/ Boot /\ i \in Reattached
         /\ \A c : <<i, c>> \in toRoute' =>
              \/ <<i, c>> \in toRoute
              \/ Boot /\ \/ i \in Exited /\ c = "exit"
                         \/ i \in Interrupted /\ c = "interrupted"
         /\ ~Boot => toRoute' \subseteq toRoute
         /\ Crash => waiting' = {} /\ toRoute' = {}
<1>1. ASSUME NEW w \in Worker, Step(w)
      PROVE  /\ toRoute' = toRoute
             /\ waiting' = waiting \/ (JournalPid(w) /\ waiting' = waiting \cup {g[w].id})
  BY <1>1
  DEF Step, Snap, Write, Unwritable, Adopt, Reserve, JournalRun, SpawnChild,
      SpawnError, SetPid, JournalPid, Awaited, RecordIdem, Finalize,
      GetFinalized, ClaimPush, StartPush, PlanResume, ScheduleResume,
      EndFinalizing, BuildSuccessor, Rearm, StopMark, StopSignal,
      StopFinalize, StopCancel, control
<1>2. ASSUME \/ \E w \in Worker : Request(w)
             \/ \E w \in Worker, k \in RunId :
                  ObserveExit(w, k) \/ TakeResume(w, k) \/ RouteSurvivor(w, k)
             \/ \E k \in RunId : ChildExits(k)
             \/ Crash \/ Serve \/ UNCHANGED vars
      PROVE  waiting' \subseteq waiting /\ toRoute' \subseteq toRoute
  BY <1>2 DEF Request, PostBuild, StopBegin, ObserveExit, TakeResume,
              RouteSurvivor, ChildExits, Crash, Serve, vars, control
<1>3. ASSUME Boot
      PROVE  /\ waiting' = Reattached
             /\ toRoute' = (Exited \X {"exit"}) \cup (Interrupted \X {"interrupted"})
  BY <1>3 DEF Boot
<1>4. Crash => waiting' = {} /\ toRoute' = {}
  BY DEF Crash
<1> QED
  BY <1>1, <1>2, <1>3, <1>4 DEF Next

-----------------------------------------------------------------------------
(* Every step keeps the presence of the runs that are worked on.           *)

LEMMA FinalizedTerminal ==
  \A ok : \A r \in Run : r.status # "absent" => Terminal(Finalized(r, ok))
BY DEF Run, Status, Finalized, Terminal

LEMMA ActorPresent ==
  ASSUME TypeInv, LaneInv, PresenceInv, FreshInv, Reliable, [Next]_vars,
         NEW w \in Worker, Acts(w)
  PROVE  PresentFor(g[w])'
<1>1. /\ g[w] \in Local /\ PresentFor(g[w]) /\ store \in [RunId -> Run]
      /\ g[w].rec \in Run
  BY LocalFacts DEF TypeInv, TypeOK, PresenceInv
<1>2. ASSUME NEW i \in RunId, Present(i)
      PROVE  /\ Present(i)'
             /\ Terminal(store[i]) => Terminal(store'[i])
  BY <1>2, StatusKept, ActsAlive DEF Present, Terminal
<1>3. /\ \A i \in RunId : Terminal(store[i]) \/ Running(i) => Present(i)
      /\ g[w].pc \notin {"idle", "reserve", "rearm"} => g[w].id \in RunId
      /\ Respawns(g[w]) => g[w].pred \in RunId
  BY DrawnIds DEF Terminal, Running, Present, Drawn
<1>4. CASE g'[w] = Idle
  BY <1>4, IdleHolds DEF PresentFor, Settling, Spawns, SpawnPC
<1> SUFFICES ASSUME g'[w] # Idle PROVE PresentFor(g[w])'
  BY <1>4
<1>5. CASE Snap(w) \/ Write(w) \/ GetFinalized(w)
  <2>1. /\ g[w].pc \in {"snap", "write", "get"} /\ Terminal(store[g[w].id])
        /\ Present(g[w].id) /\ g[w].id \in RunId
    BY <1>1, <1>3, <1>5, PCs
    DEF Snap, Write, GetFinalized, At, PresentFor, Settling
  <2>2. CASE Moves(w, g[w].next) /\ Write(w)
    <3>1. g[w].next \in AfterJournal
      BY <1>1 DEF Local
    <3> QED
      BY <1>2, <2>1, <2>2, <3>1
      DEF Moves, PresentFor, Settling, Respawns, Spawns, SpawnPC, AfterJournal
  <2>3. CASE ~(Moves(w, g[w].next) /\ Write(w))
    <3>1. /\ g'[w].pc = "write" /\ g'[w].id = g[w].id
          /\ g'[w].rec = store[g[w].id]
      BY <1>5, <2>1, <2>3, WriteFacts DEF Present
    <3> QED
      BY <1>2, <2>1, <3>1
      DEF PresentFor, Settling, Respawns, Spawns, SpawnPC, Terminal
  <2> QED
    BY <2>2, <2>3
<1>6. CASE Unwritable(w)
  <2>1. Moves(w, "rearm") /\ g[w].pred # NoRun /\ g[w].pc = "reserve"
    BY <1>6, SpawnFacts DEF Unwritable, At
  <2>2. Respawns(g[w])
    BY <2>1 DEF Respawns
  <2> QED
    BY <1>1, <1>2, <1>3, <2>1, <2>2
    DEF Moves, PresentFor, Settling, Respawns, Spawns, SpawnPC
<1>7. CASE Adopt(w)
  <2>1. g'[w].pc = "record" /\ g'[w].id \in RunId /\ Running(g'[w].id)
    BY <1>7, SpawnFacts
  <2> QED
    BY <1>2, <1>3, <2>1 DEF PresentFor, Settling, Respawns, Spawns, SpawnPC
<1>8. CASE Reserve(w)
  <2>1. /\ g'[w].pc = "journal" /\ g'[w].rec = g[w].rec
        /\ g'[w].id \in RunId
        /\ store' = [store EXCEPT ![g'[w].id] = g[w].rec]
        /\ g[w].pc = "reserve"
    BY <1>8, SpawnFacts DEF Reserve, At
  <2>2. g[w].rec.status = "running" /\ g[w].rec.pending = NoResume
    BY <1>1, <2>1 DEF PresentFor
  <2> QED
    BY <1>1, <2>1, <2>2
    DEF PresentFor, Settling, Respawns, Spawns, SpawnPC, Present
<1>9. CASE JournalRun(w) \/ SpawnChild(w) \/ SetPid(w)
  <2>1. /\ g[w].pc \in {"journal", "spawn", "setpid"}
        /\ g'[w].pc \in {"spawn", "setpid", "journalpid"}
        /\ g'[w].id = g[w].id
        /\ g'[w].rec \in {g[w].rec, [g[w].rec EXCEPT !.pid = TRUE]}
    BY <1>9, SpawnFacts DEF JournalRun, SpawnChild, SetPid, At, Moves
  <2>2. /\ g[w].rec.status = "running" /\ g[w].rec.pending = NoResume
        /\ Present(g[w].id)
    BY <1>1, <2>1 DEF PresentFor, Spawns, SpawnPC
  <2>3. g'[w].rec.status = "running" /\ g'[w].rec.pending = NoResume
    BY <1>1, <2>1, <2>2 DEF Run
  <2> QED
    BY <1>2, <1>3, <2>1, <2>2, <2>3
    DEF PresentFor, Settling, Respawns, Spawns, SpawnPC
<1>10. CASE SpawnError(w) \/ JournalPid(w) \/ RecordIdem(w)
  <2>1. Moves(w, "record") /\ g[w].pc = "journalpid"
    BY <1>10, SpawnFacts DEF JournalPid, At
  <2> QED
    BY <1>1, <1>2, <1>3, <2>1
    DEF Moves, PresentFor, Settling, Respawns, Spawns, SpawnPC
<1>11. CASE Finalize(w) \/ StopFinalize(w)
  <2>1. /\ g[w].pc \in {"finalize", "stopfinalize"}
        /\ g'[w].pc \in {"get", "end", "snap"} /\ g'[w].id = g[w].id
    BY <1>11, EndFacts, StopFacts
    DEF Finalize, StopFinalize, At, Moves, Rejournals
  <2>2. Present(g[w].id) /\ g[w].id \in RunId
    BY <1>1, <1>3, <2>1 DEF PresentFor
  <2>3. \E ok : store'[g[w].id] = Finalized(store[g[w].id], ok)
    BY <1>1, <1>11, <2>2 DEF Finalize, StopFinalize, Update, Present
  <2>4. Terminal(store'[g[w].id])
    BY <1>1, <2>2, <2>3, FinalizedTerminal DEF Present
  <2> QED
    BY <2>1, <2>4
    DEF PresentFor, Settling, Respawns, Spawns, SpawnPC, Present, Terminal
<1>12. CASE \/ ClaimPush(w) \/ StartPush(w) \/ PlanResume(w)
            \/ ScheduleResume(w) \/ EndFinalizing(w) \/ StopCancel(w)
  <2>1. /\ g[w].pc \in {"push", "pushgo", "plan", "schedule", "stopcancel"}
        /\ g'[w].pc \in {"snap", "plan", "schedule", "end"}
        /\ g'[w].id = g[w].id
    BY <1>12, EndFacts, StopFacts
    DEF ClaimPush, StartPush, PlanResume, ScheduleResume, StopCancel, At,
        Moves, Rejournals, Plans
  <2>2. Terminal(store[g[w].id]) /\ g[w].id \in RunId
    BY <1>1, <1>3, <2>1 DEF PresentFor, Settling
  <2> QED
    BY <1>2, <1>3, <2>1, <2>2
    DEF PresentFor, Settling, Respawns, Spawns, SpawnPC
<1>13. CASE BuildSuccessor(w)
  <2>1. /\ g'[w].pc = "reserve" /\ g'[w].pred = g[w].id
        /\ g'[w].rec.status = "running" /\ g'[w].rec.pending = NoResume
        /\ g[w].pc = "fireget"
    BY <1>13, FireFacts DEF BuildSuccessor, At
  <2>2. Terminal(store[g[w].id]) /\ g[w].id \in RunId
    BY <1>1, <1>3, <2>1 DEF PresentFor, Settling
  <2> QED
    BY <1>2, <1>3, <2>1, <2>2
    DEF PresentFor, Settling, Respawns, Spawns, SpawnPC
<1>14. CASE Rearm(w)
  <2>1. /\ g'[w].pc = "snap" /\ g'[w].id = g[w].pred /\ g[w].pc = "rearm"
    BY <1>14, FireFacts DEF Rearm, At
  <2>2. g[w].pred \in RunId
    BY <2>1, LocalFacts, PCs DEF At
  <2>3. Terminal(store[g[w].pred])
    BY <1>1, <2>1, <2>2, PCs DEF PresentFor, Respawns
  <2> QED
    BY <1>2, <1>3, <2>1, <2>2, <2>3
    DEF PresentFor, Settling, Respawns, Spawns, SpawnPC
<1>15. CASE StopMark(w) \/ StopSignal(w)
  <2>1. /\ g[w].pc \in {"stopmark", "stopsignal"}
        /\ g'[w].pc \in {"stopsignal", "stopfinalize"}
        /\ g'[w].id = g[w].id
    BY <1>15, StopFacts DEF StopMark, StopSignal, At, Moves
  <2> QED
    BY <1>1, <1>2, <1>3, <2>1
    DEF PresentFor, Settling, Respawns, Spawns, SpawnPC
<1>16. CASE Posts(w)
  <2>1. /\ g'[w].pc = "reserve" /\ g'[w].pred = NoRun
        /\ g'[w].rec.status = "running" /\ g'[w].rec.pending = NoResume
    BY <1>16, StartFacts, DrawnIds
  <2> QED
    BY <2>1 DEF PresentFor, Settling, Respawns, Spawns, SpawnPC
<1>17. ASSUME NEW i \in RunId, StopBegin(w, i)
       PROVE  PresentFor(g[w])'
  <2>1. /\ g'[w].id = i
        /\ \/ g'[w].pc = "stopmark" /\ Running(i)
           \/ g'[w].pc = "stopcancel" /\ Terminal(store[i])
    BY <1>17, StopFacts
  <2> QED
    BY <1>2, <1>3, <2>1 DEF PresentFor, Settling, Respawns, Spawns, SpawnPC
<1>18. ASSUME NEW i \in RunId, TakeResume(w, i)
       PROVE  PresentFor(g[w])'
  <2>1. g'[w].pc = "snap" /\ g'[w].id = i
    BY <1>18, FireFacts
  <2>2. Terminal(store[i])
    BY <1>18 DEF TakeResume, PresenceInv
  <2> QED
    BY <1>2, <1>3, <2>1, <2>2
    DEF PresentFor, Settling, Respawns, Spawns, SpawnPC
<1>19. ASSUME NEW i \in RunId, ObserveExit(w, i) \/ RouteSurvivor(w, i)
       PROVE  PresentFor(g[w])'
  <2>1. \/ Running(i) /\ g'[w].pc = "finalize" /\ g'[w].id = i
        \/ g'[w] = g[w] /\ g[w].pc = "idle"
    BY <1>19, StartFacts, DrawnIds DEF ObserveExit, RouteSurvivor, At
  <2> QED
    BY <1>2, <1>3, <2>1 DEF PresentFor, Settling, Respawns, Spawns, SpawnPC
<1> QED
  BY <1>5, <1>6, <1>7, <1>8, <1>9, <1>10, <1>11, <1>12, <1>13, <1>14, <1>15,
     <1>16, <1>17, <1>18, <1>19 DEF Acts, Step, Request, Posts

(* What a step leaves of the entry of a run that arms a resume.            *)
LEMMA ArmedTerminal ==
  ASSUME TypeInv, LaneInv, PresenceInv, FreshInv, Reliable, [Next]_vars,
         NEW i \in RunId
  PROVE  /\ store'[i].pending # NoResume => Terminal(store'[i])
         /\ journal'[i].pending # NoResume => Terminal(journal'[i])
<1>1. /\ store \in [RunId -> Run] /\ journal \in [RunId -> Run]
      /\ \A w \in Worker : g[w].rec \in Run /\ PresentFor(g[w])
      /\ Absent.pending = NoResume
      /\ \A k \in RunId :
           /\ store[k].pending # NoResume => Terminal(store[k])
           /\ journal[k].pending # NoResume => Terminal(journal[k])
  BY LocalFacts DEF TypeInv, TypeOK, PresenceInv, Absent
<1>2. ASSUME store'[i].pending # NoResume PROVE Terminal(store'[i])
  <2>1. ASSUME NEW k \in RunId, NEW r, Change(k, r),
               store' = [store EXCEPT ![k] = r]
        PROVE  Terminal(store'[i])
    <3>1. CASE k # i
      BY <1>1, <1>2, <2>1, <3>1
    <3>2. CASE k = i
      <4>1. r.pending # NoResume /\ store[i] \in Run /\ store'[i] = r
        BY <1>1, <1>2, <2>1, <3>2
      <4>2. CASE r \in Revised(store[i]) \/ r = Taken(store[i])
        <5>1. r.pending \in {store[i].pending, NoResume}
          BY <4>1, <4>2 DEF Revised, Taken, Finalized, Hidden, Run
        <5>2. Terminal(store[i])
          BY <1>1, <4>1, <5>1
        <5>3. r.status = store[i].status
          BY <4>1, <4>2, <5>2
          DEF Revised, Taken, Finalized, Hidden, Run, Terminal
        <5> QED
          BY <4>1, <5>2, <5>3 DEF Terminal
      <4>3. ASSUME NEW w \in Worker, NEW p,
                   \/ At(w, "schedule") /\ i = g[w].id
                   \/ At(w, "rearm") /\ i = g[w].pred,
                   r = [store[i] EXCEPT !.pending = p]
            PROVE  Terminal(store'[i])
        <5>1. i # NoRun
          BY PCs
        <5>2. Terminal(store[i])
          BY <1>1, <4>3, <5>1 DEF At, PresentFor, Settling, Respawns
        <5> QED
          BY <4>1, <4>3, <5>2 DEF Run, Terminal
      <4> QED
        BY <1>1, <2>1, <3>2, <4>1, <4>2, <4>3 DEF Change
    <3> QED
      BY <3>1, <3>2
  <2>2. ASSUME NEW w \in Worker, Reserve(w) PROVE Terminal(store'[i])
    <3>1. /\ g'[w].id \in RunId
          /\ store' = [store EXCEPT ![g'[w].id] = g[w].rec]
      BY <2>2, SpawnFacts
    <3>2. g[w].rec.pending = NoResume
      BY <1>1, <2>2 DEF Reserve, At, PresentFor
    <3> QED
      BY <1>1, <1>2, <3>1, <3>2
  <2>3. CASE store' \in {store, journal} \/ store' = [k \in RunId |-> Absent]
    BY <1>1, <1>2, <2>3
  <2> QED
    BY <2>1, <2>2, <2>3, NextStores DEF StoreStep
<1>3. ASSUME journal'[i].pending # NoResume PROVE Terminal(journal'[i])
  <2>1. CASE journal'[i] \in {journal[i], Absent}
    BY <1>1, <1>3, <2>1
  <2>2. ASSUME NEW w \in Worker, g[w].pc \in {"write", "journal", "journalpid"},
               journal'[i] = Durable(g[w].rec)
        PROVE  Terminal(journal'[i])
    <3>1. /\ journal'[i].pending = g[w].rec.pending
          /\ journal'[i].status = g[w].rec.status
      BY <1>1, <2>2 DEF Durable, Run
    <3>2. PresentFor(g[w])
      BY <1>1
    <3> QED
      BY <1>3, <2>2, <3>1, <3>2 DEF PresentFor, Spawns, SpawnPC, Terminal
  <2> QED
    BY <2>1, <2>2, NextJournals DEF JournalStep
<1> QED
  BY <1>2, <1>3

LEMMA PresenceKept ==
  ASSUME TypeInv, LaneInv, PresenceInv, FreshInv, Reliable, [Next]_vars
  PROVE  PresenceInv'
<1>1. ASSUME NEW w \in Worker PROVE PresentFor(g[w])'
  <2>1. CASE g'[w] = Idle
    BY <2>1, IdleHolds DEF PresentFor, Settling
  <2>2. CASE Acts(w)
    BY <2>2, ActorPresent
  <2>3. CASE g'[w] = g[w] /\ g'[w] # Idle
    <3>1. PresentFor(g[w])
      BY DEF PresenceInv
    <3>2. ~Crash /\ ~Boot
      BY <2>3, DrawnIds DEF Crash, Boot
    <3>3. /\ g[w].pc \notin {"idle", "reserve", "rearm"} => g[w].id \in RunId
          /\ Respawns(g[w]) => g[w].pred \in RunId
      BY DrawnIds DEF Drawn
    <3>4. ASSUME NEW i \in RunId, Present(i)
          PROVE  /\ Present(i)'
                 /\ Terminal(store[i]) => Terminal(store'[i])
      BY <3>2, <3>4, StatusKept DEF Present, Terminal
    <3>5. \A i \in RunId : Terminal(store[i]) => Present(i)
      BY DEF Terminal, Present
    <3> QED
      BY <2>3, <3>1, <3>3, <3>4, <3>5 DEF PresentFor, Settling, Respawns, Spawns, SpawnPC
  <2> QED
    BY <2>1, <2>2, <2>3, GoroutineSteps
<1>2. ASSUME NEW i \in RunId, Expected(i)' PROVE Present(i)'
  <2>1. CASE Boot
    <3>1. journal[i].status = "running" /\ store' = journal
      BY <1>2, <2>1
      DEF Boot, Expected, ToRoute, Exited, Interrupted, Reattached, Unfinished
    <3> QED
      BY <3>1 DEF Present
  <2>2. CASE ~Boot
    <3>1. ~Crash
      BY <1>2, ExpectedFrom DEF Expected, ToRoute
    <3>2. Present(i)
      <4>1. CASE Expected(i)
        BY <4>1 DEF PresenceInv
      <4>2. ASSUME NEW w \in Worker, JournalPid(w), i = g[w].id
            PROVE  Present(i)
        BY <4>2 DEF JournalPid, At, PresenceInv, PresentFor
      <4> QED
        BY <1>2, <2>2, <4>1, <4>2, ExpectedFrom DEF Expected, ToRoute
    <3> QED
      BY <2>2, <3>1, <3>2, StatusKept DEF Present
  <2> QED
    BY <2>1, <2>2
<1> QED
  BY <1>1, <1>2, ArmedTerminal DEF PresenceInv

-----------------------------------------------------------------------------
(* A run has one turn at a time.                                           *)

LEMMA ActsUp ==
  ASSUME TypeInv, LaneInv, NEW w \in Worker, Acts(w)
  PROVE  phase # "down"
<1>1. CASE Step(w)
  <2>1. g[w].pc # "idle"
    BY <1>1
    DEF Step, Snap, Write, Unwritable, Adopt, Reserve, JournalRun,
        SpawnChild, SpawnError, SetPid, JournalPid, RecordIdem, Finalize,
        GetFinalized, ClaimPush, StartPush, PlanResume, ScheduleResume,
        EndFinalizing, BuildSuccessor, Rearm, StopMark, StopSignal,
        StopFinalize, StopCancel, At
  <2> QED
    BY <2>1, DrawnIds, IdleHolds
<1>2. CASE ~Step(w)
  BY <1>2 DEF Acts, Request, PostBuild, StopBegin, ObserveExit, TakeResume,
              RouteSurvivor
<1> QED
  BY <1>1, <1>2

(* What a goroutine takes up is no longer expected.                        *)
LEMMA BeginsExpected ==
  ASSUME TypeInv, TurnInv, NEW w \in Worker, NEW i \in RunId, Begins(w, i)
  PROVE  Expected(i) /\ ~Expected(i)'
<1>1. CASE ObserveExit(w, i)
  BY <1>1 DEF ObserveExit, Expected, ToRoute, TurnInv
<1>2. CASE RouteSurvivor(w, i)
  <2>1. PICK c \in {"exit", "interrupted"} :
          /\ <<i, c>> \in toRoute /\ toRoute' = toRoute \ {<<i, c>>}
          /\ waiting' = waiting
    BY <1>2 DEF RouteSurvivor
  <2>2. i \notin waiting
    BY <2>1 DEF TurnInv, ToRoute
  <2>3. \A d \in {"exit", "interrupted"} : <<i, d>> \in toRoute => d = c
    BY <2>1 DEF TurnInv
  <2>4. ~ToRoute(i)'
    BY <2>1, <2>3 DEF ToRoute
  <2> QED
    BY <2>1, <2>2, <2>4 DEF Expected, ToRoute
<1> QED
  BY <1>1, <1>2 DEF Begins

LEMMA TurnPresent ==
  ASSUME PresenceInv, NEW w \in Worker, NEW i \in RunId, Turn(g[w], i)
  PROVE  Present(i)
<1>1. PresentFor(g[w])
  BY DEF PresenceInv
<1> QED
  BY <1>1 DEF PresentFor, Turn, Spawns, Ends, Records, SpawnPC, EndPC

LEMMA JournalPidTurn ==
  ASSUME TypeInv, NEW w \in Worker, JournalPid(w)
  PROVE  /\ g[w].pc = "journalpid" /\ Turn(g[w], g[w].id) /\ Acts(w)
         /\ \A i : ~Turn(g'[w], i)
<1>1. g[w].pc = "journalpid"
  BY DEF JournalPid, At
<1>2. \A i : ~Turn(g'[w], i)
  BY SpawnFacts, IdleHolds
  DEF Moves, Turn, Spawns, Ends, Records, SpawnPC, EndPC
<1> QED
  BY <1>1, <1>2 DEF Turn, Spawns, SpawnPC, Acts, Step

LEMMA TurnKept ==
  ASSUME TypeInv, LaneInv, PresenceInv, TurnInv, FreshInv, Reliable,
         [Next]_vars
  PROVE  TurnInv'
<1>1. phase' = "down" => waiting' = {} /\ toRoute' = {} /\ loaded' = {}
  <2>1. CASE Crash
    BY <2>1 DEF Crash
  <2>2. ASSUME NEW w \in Worker, Acts(w) PROVE phase' # "down"
    BY <2>2, ActsUp, ActsAlive
  <2>3. CASE Boot \/ Serve \/ (\E i \in RunId : ChildExits(i))
             \/ UNCHANGED vars
    BY <2>3 DEF Boot, Serve, ChildExits, vars, control, TurnInv
  <2> QED
    BY <2>1, <2>2, <2>3, GoroutineSteps
<1>2. ASSUME NEW i \in RunId, NEW w \in Worker, Acts(w), Turn(g'[w], i),
             ~Turn(g[w], i)
      PROVE  /\ \A v \in Worker : ~Turn(g[v], i)
             /\ ~Expected(i)'
  <2>1. CASE Reserve(w) /\ i = g'[w].id
    <3>1. ~Present(i)
      BY <2>1, ReservesUnused DEF Unused, Present, Absent
    <3>2. ~Expected(i) /\ \A v \in Worker : ~Turn(g[v], i)
      BY <3>1, TurnPresent DEF PresenceInv
    <3>3. waiting' = waiting /\ toRoute' = toRoute
      BY <2>1 DEF Reserve
    <3> QED
      BY <3>2, <3>3 DEF Expected, ToRoute
  <2>2. CASE Begins(w, i)
    BY <2>2, BeginsExpected DEF TurnInv
  <2> QED
    BY <1>2, <2>1, <2>2, TurnFrom
<1>3. ASSUME NEW i \in RunId, NEW v \in Worker, NEW w \in Worker,
             Turn(g'[v], i), Turn(g'[w], i)
      PROVE  v = w
  <2>1. /\ g'[v] = g[v] \/ Acts(v)
        /\ g'[w] = g[w] \/ Acts(w)
    BY <1>3, GoroutineSteps, IdleHolds
  <2>2. CASE Turn(g[v], i) /\ Turn(g[w], i)
    BY <2>2 DEF TurnInv
  <2>3. CASE ~Turn(g[v], i)
    BY <1>2, <1>3, <2>1, <2>3, GoroutineSteps
  <2>4. CASE ~Turn(g[w], i)
    BY <1>2, <1>3, <2>1, <2>4, GoroutineSteps
  <2> QED
    BY <2>2, <2>3, <2>4
<1>4. ASSUME NEW i \in RunId, NEW w \in Worker, Expected(i)', Turn(g'[w], i)
      PROVE  FALSE
  <2>1. g'[w] # Idle
    BY <1>4, IdleHolds
  <2>2. Turn(g[w], i)
    BY <1>2, <1>4, <2>1, GoroutineSteps
  <2>3. ~Boot /\ ~Crash
    BY <1>4, <2>1, <2>2, DrawnIds, IdleHolds DEF Boot, Crash
  <2>4. ~Expected(i)
    BY <2>2 DEF TurnInv
  <2>5. PICK v \in Worker : JournalPid(v) /\ i = g[v].id
    BY <1>4, <2>3, <2>4, ExpectedFrom DEF Expected, ToRoute
  <2>6. v = w
    BY <2>2, <2>5, JournalPidTurn DEF TurnInv
  <2> QED
    BY <1>4, <2>5, <2>6, JournalPidTurn
<1>5. ASSUME NEW i \in RunId
      PROVE  /\ i \in waiting' => ~ToRoute(i)'
             /\ ~(<<i, "exit">> \in toRoute' /\ <<i, "interrupted">> \in toRoute')
  <2>1. CASE Boot
    BY <2>1 DEF Boot, ToRoute, Exited, Interrupted, Reattached
  <2>2. CASE ~Boot
    <3>1. ToRoute(i)' => ToRoute(i)
      BY <2>2, ExpectedFrom DEF ToRoute
    <3>2. i \in waiting' => i \in waiting
                            \/ \E v \in Worker : Turn(g[v], i)
      BY <2>2, ExpectedFrom, JournalPidTurn
    <3> QED
      BY <2>2, <3>1, <3>2, ExpectedFrom DEF TurnInv, Expected
  <2> QED
    BY <2>1, <2>2
<1>6. \A i \in RunId :
        /\ \A v, w \in Worker : Turn(g'[v], i) /\ Turn(g'[w], i) => v = w
        /\ Expected(i)' => \A w \in Worker : ~Turn(g'[w], i)
  BY <1>3, <1>4
<1> QED
  BY <1>1, <1>5, <1>6 DEF TurnInv

-----------------------------------------------------------------------------
(* Successors form chains.                                                 *)

LEMMA NewChild ==
  ASSUME TypeInv, LaneInv, PresenceInv, Reliable, [Next]_vars,
         NEW i \in RunId, Childless(i), ~Childless(i)'
  PROVE  \E w \in Worker :
           /\ PlanResume(w) /\ Plans(w) /\ g[w].id = i
           /\ g[w].pc = "plan" /\ g'[w].pc = "schedule"
<1>1. PICK s \in RunId : Link(i, s)'
  BY DEF Childless
<1>2. ~Link(i, s)
  BY DEF Childless
<1>3. PICK w \in Worker : PlanResume(w) /\ Plans(w) /\ i = g[w].id
  BY <1>1, <1>2, LinkFrom
<1> QED
  BY <1>3 DEF PlanResume, Plans, At

LEMMA IdsDrawnNext ==
  ASSUME TypeInv, LaneInv, [Next]_vars, NEW w \in Worker
  PROVE  g'[w].pc \notin {"idle", "reserve", "rearm"} => g'[w].id \in RunId
<1>1. PICK f : Consistent(nextId, f)'
  BY NextLane DEF LaneInv
<1> QED
  BY <1>1 DEF Consistent, Carried, Drawn

LEMMA PathKept ==
  ASSUME TypeInv, LaneInv, PresenceInv, TurnInv, PathInv, FreshInv, Reliable,
         [Next]_vars
  PROVE  PathInv'
<1>1. ASSUME NEW p \in RunId, NEW q \in RunId, NEW s \in RunId,
             NEW t \in RunId, Link(p, s)', Link(q, t)', ~Link(p, s)
      PROVE  p = q <=> s = t
  <2>1. PICK w \in Worker : /\ PlanResume(w) /\ Plans(w)
                            /\ p = g[w].id /\ s = nextId
    BY <1>1, LinkFrom
  <2>2. g[w].pc = "plan" /\ g'[w].pc = "schedule" /\ Acts(w)
    BY <2>1 DEF PlanResume, Plans, At, Acts, Step
  <2>3. CASE Link(q, t)
    <3>1. t # nextId
      <4>1. Drawn(nextId, t)
        BY <2>3, LinksDrawn
      <4>2. nextId \in Nat
        BY DEF TypeInv, TypeOK
      <4> QED
        BY <4>1, <4>2 DEF Drawn, RunId
    <3>2. Childless(p)
      BY <2>1, <2>2 DEF PathInv, Unplanned
    <3> QED
      BY <2>1, <2>3, <3>1, <3>2 DEF Childless
  <2>4. CASE ~Link(q, t)
    <3>1. PICK v \in Worker : /\ PlanResume(v) /\ Plans(v)
                              /\ q = g[v].id /\ t = nextId
      BY <1>1, <2>4, LinkFrom
    <3>2. g[v].pc = "plan" /\ g'[v].pc = "schedule"
      BY <3>1 DEF PlanResume, Plans, At
    <3>3. v = w
      BY <2>2, <3>2, GoroutineSteps
    <3> QED
      BY <2>1, <3>1, <3>3
  <2> QED
    BY <2>3, <2>4
<1>2. ASSUME NEW p \in RunId, NEW q \in RunId, NEW s \in RunId,
             NEW t \in RunId, Link(p, s)', Link(q, t)'
      PROVE  p = q <=> s = t
  <2>1. CASE Link(p, s) /\ Link(q, t)
    BY <2>1 DEF PathInv
  <2>2. CASE ~Link(p, s)
    BY <1>1, <1>2, <2>2
  <2>3. CASE ~Link(q, t)
    BY <1>1, <1>2, <2>3
  <2> QED
    BY <2>1, <2>2, <2>3
<1>3. ASSUME NEW w \in Worker, Unplanned(g[w])'
      PROVE  Childless(g[w].id)'
  <2> DEFINE i == g'[w].id
  <2>1. /\ g'[w] # Idle /\ g'[w].pc # "schedule" /\ Turn(g'[w], i)
    <3>1. Unplanned(g'[w])
      BY <1>3
    <3>2. g'[w] # Idle
      BY <3>1, IdleHolds
    <3> QED
      BY <3>1, <3>2
      DEF Unplanned, Unpushed, Claims, Records, Turn, Spawns, Ends, EndPC,
          SpawnPC
  <2>2. CASE Turn(g[w], i) /\ Unplanned(g[w])
    <3>1. i \in RunId /\ Childless(i)
      BY <2>2, PCs, DrawnIds
      DEF PathInv, Turn, Drawn, Unplanned, Unpushed, Claims, Records, Spawns,
          SpawnPC
    <3>2. ASSUME NEW v \in Worker, g[v].id = i, g[v].pc = "plan",
                 g'[v].pc = "schedule"
          PROVE  FALSE
      <4>1. Turn(g[v], i)
        BY <3>2 DEF Turn, Ends, EndPC
      <4> QED
        BY <2>1, <2>2, <3>1, <3>2, <4>1 DEF TurnInv
    <3> QED
      BY <3>1, <3>2, NewChild
  <2>3. CASE Acts(w) /\ Reserve(w)
    <3>1. Unused(i) /\ i \in RunId
      BY <2>3, ReservesUnused, SpawnFacts
    <3>2. Childless(i)
      BY <3>1, LinksDrawn DEF Childless, Unused, Terminal, Absent
    <3>3. g'[w].pc = "journal"
      BY <2>3, SpawnFacts
    <3>4. ASSUME NEW v \in Worker, g'[v].pc = "schedule", g[v].pc = "plan"
          PROVE  FALSE
      BY <2>3, <3>3, <3>4, GoroutineSteps
    <3> QED
      BY <3>1, <3>2, <3>4, NewChild
  <2>4. CASE Begins(w, i) /\ i \in RunId
    <3>1. Expected(i)
      BY <2>4, BeginsExpected
    <3>2. Childless(i)
      BY <2>4, <3>1 DEF PathInv
    <3>3. ASSUME NEW v \in Worker, g[v].id = i, g[v].pc = "plan"
          PROVE  FALSE
      BY <2>4, <3>1, <3>3 DEF TurnInv, Turn, Ends, EndPC
    <3> QED
      BY <2>4, <3>2, <3>3, NewChild
  <2>5. CASE g'[w] = g[w]
    BY <1>3, <2>1, <2>2, <2>5
  <2>6. CASE Acts(w)
    <3>1. i \in RunId
      <4>1. g'[w].pc \notin {"idle", "reserve", "rearm"}
        BY <1>3 DEF Unplanned, Unpushed, Claims, Records, Spawns, SpawnPC
      <4> QED
        BY <4>1, IdsDrawnNext
    <3> QED
      BY <1>3, <2>1, <2>2, <2>3, <2>4, <2>6, <3>1, TurnFrom
  <2> QED
    BY <2>1, <2>5, <2>6, GoroutineSteps
<1>4. ASSUME NEW i \in RunId, Expected(i)' PROVE Childless(i)'
  <2>1. CASE Boot
    <3>1. ~Terminal(journal[i])
      BY <1>4, <2>1
      DEF Boot, Expected, ToRoute, Exited, Interrupted, Reattached,
          Unfinished, Terminal
    <3>2. store[i] = Absent /\ \A w \in Worker : g[w].pc # "plan"
      BY <2>1, DrawnIds, IdleHolds DEF Boot
    <3>3. Childless(i)
      BY <3>1, <3>2, LinksDrawn DEF Childless, Absent, Terminal
    <3> QED
      BY <3>2, <3>3, NewChild
  <2>2. CASE Expected(i)
    <3>1. Childless(i)
      BY <2>2 DEF PathInv
    <3>2. ASSUME NEW v \in Worker, g[v].id = i, g[v].pc = "plan"
          PROVE  FALSE
      BY <2>2, <3>2 DEF TurnInv, Turn, Ends, EndPC
    <3> QED
      BY <3>1, <3>2, NewChild
  <2>3. ASSUME NEW w \in Worker, JournalPid(w), i = g[w].id
        PROVE  Childless(i)'
    <3>1. g[w].pc = "journalpid" /\ Turn(g[w], i)
      BY <2>3, JournalPidTurn
    <3>2. Childless(i)
      BY <2>3, <3>1 DEF PathInv, Unplanned, Unpushed, Spawns, SpawnPC
    <3>3. ASSUME NEW v \in Worker, g[v].id = i, g[v].pc = "plan"
          PROVE  FALSE
      BY <3>1, <3>3 DEF TurnInv, Turn, Ends, EndPC
    <3> QED
      BY <3>2, <3>3, NewChild
  <2> QED
    BY <1>4, <2>1, <2>2, <2>3, ExpectedFrom DEF Expected, ToRoute
<1> QED
  BY <1>2, <1>3, <1>4 DEF PathInv

-----------------------------------------------------------------------------
(* A taken resume is taken from everywhere.                                *)

(* The store arms a resume when it is scheduled or armed again, or because *)
(* a boot reads it from the journal.                                       *)
LEMMA ArmedFrom ==
  ASSUME TypeInv, LaneInv, PresenceInv, Reliable, [Next]_vars,
         NEW p \in RunId, NEW s \in RunId, store'[p].pending.succ = s
  PROVE  \/ store[p].pending.succ = s
         \/ \E w \in Worker : /\ ScheduleResume(w) \/ Rearm(w)
                              /\ Holds(g[w], s) /\ Parent(g[w]) = p
         \/ Boot /\ journal[p].pending.succ = s
<1>1. /\ store \in [RunId -> Run]
      /\ \A w \in Worker : /\ g[w].rec \in Run /\ g[w].res \in PendingResume
                           /\ PresentFor(g[w])
      /\ s # NoRun /\ p # NoRun
      /\ NoResume.succ = NoRun /\ Absent.pending = NoResume
  BY LocalFacts, PCs DEF TypeInv, TypeOK, PresenceInv, NoResume, Absent
<1> DEFINE Goal == \/ store[p].pending.succ = s
                   \/ \E w \in Worker : /\ ScheduleResume(w) \/ Rearm(w)
                                        /\ Holds(g[w], s) /\ Parent(g[w]) = p
<1>2. ASSUME NEW k \in RunId, NEW r, Change(k, r),
             store' = [store EXCEPT ![k] = r]
      PROVE  Goal
  <2>1. CASE k # p
    BY <1>1, <1>2, <2>1
  <2>2. CASE k = p
    <3>1. r.pending.succ = s /\ store[p] \in Run
      BY <1>1, <1>2, <2>2
    <3>2. CASE r \in Revised(store[p]) \/ r = Taken(store[p])
      <4>1. r.pending \in {store[p].pending, NoResume}
        BY <3>1, <3>2 DEF Revised, Taken, Finalized, Hidden, Run
      <4> QED
        BY <1>1, <3>1, <4>1
    <3>3. ASSUME NEW w \in Worker, ScheduleResume(w), At(w, "schedule"),
                 p = g[w].id, r = [store[p] EXCEPT !.pending = g[w].res]
          PROVE  Goal
      <4>1. g[w].res.succ = s
        BY <3>1, <3>3 DEF Run
      <4> QED
        BY <3>3, <4>1 DEF Holds, Parent, Fires, At
    <3>4. ASSUME NEW w \in Worker, Rearm(w), At(w, "rearm"), p = g[w].pred,
                 r = [store[p] EXCEPT !.pending =
                       [g[w].res EXCEPT !.attempts = g[w].res.attempts + 1]]
          PROVE  Goal
      <4>1. g[w].res.succ = s
        BY <1>1, <3>1, <3>4 DEF Run, PendingResume
      <4> QED
        BY <1>1, <3>4, <4>1 DEF Holds, Parent, Fires, Respawns, At
    <3> QED
      BY <1>1, <1>2, <2>2, <3>1, <3>2, <3>3, <3>4 DEF Change
  <2> QED
    BY <2>1, <2>2
<1>3. ASSUME NEW w \in Worker, Reserve(w) PROVE Goal
  <2>1. /\ g'[w].id \in RunId
        /\ store' = [store EXCEPT ![g'[w].id] = g[w].rec]
    BY <1>3, SpawnFacts
  <2>2. g[w].rec.pending = NoResume
    BY <1>1, <1>3 DEF Reserve, At, PresentFor
  <2> QED
    BY <1>1, <2>1, <2>2
<1>4. CASE store' = store \/ store' = [k \in RunId |-> Absent]
  BY <1>1, <1>4
<1> QED
  BY <1>2, <1>3, <1>4, NextStores DEF StoreStep

(* The goroutine that arms a resume lets go of it.                         *)
LEMMA ArmsNotHeld ==
  ASSUME TypeInv, NEW w \in Worker, ScheduleResume(w) \/ Rearm(w)
  PROVE  Acts(w) /\ \A s : ~Holds(g'[w], s)
<1>1. \/ g'[w].pc = "end"
      \/ g'[w].pc = "snap" /\ g'[w].next \in {"end", "idle"}
  BY EndFacts, FireFacts DEF Moves, Rejournals
<1> QED
  BY <1>1 DEF Acts, Step, Holds, Fires, Respawns

(* A resume that was held and still is has not come back to the store, to  *)
(* a copy or, once its taking was journaled, to the journal.               *)
LEMMA HeldApart ==
  ASSUME TypeInv, LaneInv, PresenceInv, PathInv, HeldInv, Reliable,
         [Next]_vars, NEW w \in Worker, NEW s \in RunId, NEW p \in RunId,
         Holds(g[w], s), Holds(g'[w], s)
  PROVE  /\ store'[p].pending.succ # s
         /\ journal'[p].pending.succ = s => g'[w].pc \in {"snap", "write"}
         /\ \A v \in Worker : ~Copies(g'[v], p, s)
<1>1. /\ store[p].pending.succ # s
      /\ journal[p].pending.succ = s => g[w].pc \in {"snap", "write"}
      /\ \A v \in Worker : ~Copies(g[v], p, s)
      /\ \A v \in Worker : Holds(g[v], s) => v = w
  BY DEF HeldInv
<1>2. g[w] # Idle /\ g'[w] # Idle /\ (g'[w] = g[w] \/ Acts(w))
  BY GoroutineSteps, IdleHolds
<1>3. store'[p].pending.succ # s
  <2>1. ~Boot
    BY <1>2, DrawnIds DEF Boot
  <2> QED
    BY <1>1, <2>1, ArmedFrom, ArmsNotHeld
<1>4. ASSUME journal'[p].pending.succ = s PROVE g'[w].pc \in {"snap", "write"}
  <2>1. journal[p].pending.succ = s
    <3>1. ASSUME NEW v \in Worker, p = g[v].id,
                 g[v].pc \in {"write", "journal", "journalpid"},
                 journal'[p] = Durable(g[v].rec)
          PROVE  FALSE
      <4>1. g[v].rec.pending.succ = s /\ PresentFor(g[v])
        BY <1>4, <3>1, LocalFacts DEF Durable, Run, PresenceInv, TypeInv
      <4>2. g[v].pc = "write"
        BY <3>1, <4>1, PCs DEF PresentFor, Spawns, SpawnPC, NoResume
      <4> QED
        BY <1>1, <3>1, <4>1, <4>2 DEF Copies
    <3>2. journal'[p] # Absent
      BY <1>4, PCs DEF Absent, NoResume
    <3> QED
      BY <1>4, <3>1, <3>2, NextJournals DEF JournalStep
  <2>2. g[w].pc \in {"snap", "write"}
    BY <1>1, <2>1
  <2>3. CASE g'[w] = g[w]
    BY <2>2, <2>3
  <2>4. CASE Snap(w)
    <3>1. Present(g[w].id)
      BY <2>2, PCs DEF PresenceInv, PresentFor
    <3> QED
      BY <1>2, <2>4, <3>1, WriteFacts DEF Present
  <2>5. CASE Write(w)
    <3>1. g[w].pc = "write" /\ g[w].id \in RunId /\ g[w].rec \in Run
      BY <2>5, LocalFacts, DrawnIds DEF Write, At, Drawn, TypeInv
    <3>2. Parent(g[w]) = g[w].id
      BY <3>1 DEF Holds, Parent, Fires, Respawns
    <3>3. p = g[w].id
      <4>1. Link(p, s) /\ Link(g[w].id, s)
        BY <2>1, <3>2 DEF Link
      <4> QED
        BY <3>1, <4>1 DEF PathInv
    <3>4. journal'[p] = Durable(g[w].rec)
      BY <2>5, <3>1, <3>3, WriteFacts DEF TypeInv, TypeOK
    <3>5. g[w].rec.pending.succ = s
      BY <1>4, <3>1, <3>4 DEF Durable, Run
    <3> QED
      BY <1>1, <3>1, <3>3, <3>5 DEF Copies
  <2>6. Acts(w) => Snap(w) \/ Write(w)
    BY <2>2
    DEF Acts, Step, Request, Unwritable, Adopt, Reserve, JournalRun,
        SpawnChild, SpawnError, SetPid, JournalPid, RecordIdem, Finalize,
        GetFinalized, ClaimPush, StartPush, PlanResume, ScheduleResume,
        EndFinalizing, BuildSuccessor, Rearm, StopMark, StopSignal,
        StopFinalize, StopCancel, At, PostBuild, StopBegin, ObserveExit,
        TakeResume, RouteSurvivor
  <2> QED
    BY <1>2, <2>3, <2>4, <2>5, <2>6
<1>5. ASSUME NEW v \in Worker, Copies(g'[v], p, s) PROVE FALSE
  <2>1. g'[v] # Idle
    BY <1>5, IdleHolds DEF Copies
  <2> QED
    BY <1>1, <1>5, <2>1, GoroutineSteps, CopiedFrom
<1> QED
  BY <1>3, <1>4, <1>5

(* A resume is held from the draw of its successor's id: no other trace of *)
(* that id exists.                                                         *)
LEMMA PlannedApart ==
  ASSUME TypeInv, LaneInv, PresenceInv, Reliable, [Next]_vars,
         NEW w \in Worker, PlanResume(w), Plans(w), NEW p \in RunId
  PROVE  /\ store'[p].pending.succ # nextId
         /\ journal'[p].pending.succ # nextId
         /\ \A v \in Worker : ~Copies(g'[v], p, nextId)
         /\ \A v \in Worker \ {w} : ~Holds(g'[v], nextId)
<1>1. nextId \in RunId /\ store' = store /\ journal' = journal /\ Acts(w)
      /\ g'[w].pc = "schedule"
  BY DEF PlanResume, Plans, Acts, Step
<1>2. \A q \in RunId : ~Link(q, nextId)
  BY <1>1, LinksDrawn DEF Drawn, RunId
<1>3. ASSUME NEW v \in Worker \ {w}
      PROVE  g'[v] = g[v] /\ ~Holds(g[v], nextId)
  <2>1. Holds(g[v], nextId) => Parent(g[v]) \in RunId
    BY DrawnIds DEF Holds, Parent, Fires, Drawn
  <2> QED
    BY <1>1, <1>2, <2>1, GoroutineSteps DEF Link
<1> QED
  BY <1>1, <1>2, <1>3 DEF Link, Copies

(* A resume that is taken was only in the store and in the journal.        *)
LEMMA TakenApart ==
  ASSUME TypeInv, LaneInv, PresenceInv, PathInv, HeldInv, Reliable,
         [Next]_vars, NEW w \in Worker, NEW i \in RunId, TakeResume(w, i),
         NEW s \in RunId, store[i].pending.succ = s, NEW p \in RunId
  PROVE  /\ store'[p].pending.succ # s
         /\ g'[w].pc = "snap"
         /\ \A v \in Worker : ~Copies(g'[v], p, s)
         /\ \A v \in Worker \ {w} : ~Holds(g'[v], s)
<1>0. ~BeingArmed(i)
  BY DEF TakeResume, Reliable, OneAtATime, BeingArmed, At
<1>1. /\ store' = [store EXCEPT ![i] = Taken(store[i])] /\ ~BeingArmed(i)
      /\ g'[w].pc = "snap" /\ Acts(w) /\ store \in [RunId -> Run]
  BY <1>0, FireFacts DEF TakeResume, Acts, TypeInv, TypeOK
<1>2. \A q \in RunId : Link(q, s) => q = i
  BY DEF Link, PathInv
<1>3. \A v \in Worker : ~Holds(g[v], s)
  BY DEF HeldInv
<1>4. store'[p].pending.succ # s
  <2>1. CASE p = i
    <3>1. store'[p].pending = NoResume
      BY <1>1, <2>1 DEF Taken, Run
    <3> QED
      BY <3>1, PCs DEF NoResume
  <2>2. CASE p # i
    BY <1>1, <1>2, <2>2 DEF Link
  <2> QED
    BY <2>1, <2>2
<1>5. ASSUME NEW v \in Worker, v # w, Copies(g[v], p, s) PROVE FALSE
  <2>1. p = i /\ g[v].pc = "write" /\ g[v].id = i
    BY <1>2, <1>5 DEF Link, Copies
  <2>2. g[v].next \in {"push", "pushgo", "fireget"}
    BY <1>1, <2>1, LocalFacts DEF BeingArmed, TypeInv, Local, AfterJournal
  <2>3. CASE g[v].next = "fireget"
    <3> DEFINE t == g[v].res.succ
    <3>1. t \in RunId
      BY <2>1, <2>3, DrawnIds DEF Fires, Drawn
    <3>2. Holds(g[v], t) /\ Parent(g[v]) = i
      BY <2>1, <2>3 DEF Holds, Parent, Fires
    <3>3. Link(i, t) /\ Link(i, s)
      BY <3>2 DEF Link
    <3>4. t = s
      BY <3>1, <3>3 DEF PathInv
    <3> QED
      BY <1>3, <3>2, <3>4
  <2>4. CASE g[v].next \in {"push", "pushgo"}
    <3>1. Unplanned(g[v])
      BY <2>1, <2>4 DEF Unplanned, Unpushed, Claims, Records
    <3>2. ~Link(i, s)
      BY <2>1, <3>1 DEF PathInv, Childless
    <3> QED
      BY <3>2 DEF Link
  <2> QED
    BY <2>2, <2>3, <2>4
<1>6. \A v \in Worker \ {w} : g'[v] = g[v]
  BY <1>1, GoroutineSteps
<1> QED
  BY <1>1, <1>3, <1>4, <1>5, <1>6 DEF Copies

LEMMA HeldKept ==
  ASSUME TypeInv, LaneInv, PresenceInv, PathInv, HeldInv, Reliable,
         [Next]_vars
  PROVE  HeldInv'
<1> SUFFICES ASSUME NEW s \in RunId, NEW w \in Worker, Holds(g'[w], s)
             PROVE  /\ \A v \in Worker : Holds(g'[v], s) => v = w
                    /\ \A p \in RunId :
                         /\ store'[p].pending.succ # s
                         /\ journal'[p].pending.succ = s
                              => g'[w].pc \in {"snap", "write"}
                         /\ \A v \in Worker : ~Copies(g'[v], p, s)
  BY DEF HeldInv
<1> DEFINE Takes(u) ==
             \E i \in RunId : TakeResume(u, i) /\ store[i].pending.succ = s
           Draws(u) == PlanResume(u) /\ Plans(u) /\ s = nextId
<1>1. ASSUME NEW u \in Worker, Holds(g'[u], s)
      PROVE  Holds(g[u], s) \/ Takes(u) \/ Draws(u)
  BY <1>1, GoroutineSteps, HeldFrom, IdleHolds
<1>2. CASE Takes(w)
  BY <1>2, TakenApart
<1>3. CASE Draws(w)
  BY <1>3, PlannedApart
<1>4. CASE Holds(g[w], s) /\ ~Takes(w) /\ ~Draws(w)
  <2>1. ASSUME NEW v \in Worker, Holds(g'[v], s) PROVE v = w
    <3>1. CASE Holds(g[v], s)
      BY <1>4, <3>1 DEF HeldInv
    <3>2. CASE Takes(v)
      BY <3>2, TakenApart
    <3>3. CASE Draws(v)
      BY <3>3, PlannedApart
    <3> QED
      BY <1>1, <2>1, <3>1, <3>2, <3>3
  <2> QED
    BY <1>4, <2>1, HeldApart
<1> QED
  BY <1>1, <1>2, <1>3, <1>4

LEMMA LaunchesStay ==
  ASSUME [Next]_vars, \A w \in Worker : ~SpawnChild(w)
  PROVE  launched' = launched
<1>1. ASSUME NEW w \in Worker, Step(w) PROVE launched' = launched
  BY <1>1
  DEF Step, Snap, Write, Unwritable, Adopt, Reserve, JournalRun, SpawnError,
      SetPid, JournalPid, RecordIdem, Finalize, GetFinalized, ClaimPush,
      StartPush, PlanResume, ScheduleResume, EndFinalizing, BuildSuccessor,
      Rearm, StopMark, StopSignal, StopFinalize, StopCancel, history
<1>2. CASE ~(\E w \in Worker : Step(w))
  BY <1>2
  DEF Next, Request, PostBuild, StopBegin, ObserveExit, TakeResume,
      RouteSurvivor, ChildExits, Crash, Boot, Serve, vars, history
<1> QED
  BY <1>1, <1>2

-----------------------------------------------------------------------------
(* A run id is used from its reservation on, and not before.               *)

LEMMA PushesStay ==
  ASSUME [Next]_vars, \A w \in Worker : ~StartPush(w)
  PROVE  pushes' = pushes
<1>1. ASSUME NEW w \in Worker, Step(w) PROVE pushes' = pushes
  BY <1>1
  DEF Step, Snap, Write, Unwritable, Adopt, Reserve, JournalRun, SpawnChild,
      SpawnError, SetPid, JournalPid, RecordIdem, Finalize, GetFinalized,
      ClaimPush, PlanResume, ScheduleResume, EndFinalizing, BuildSuccessor,
      Rearm, StopMark, StopSignal, StopFinalize, StopCancel, history
<1>2. CASE ~(\E w \in Worker : Step(w))
  BY <1>2
  DEF Next, Request, PostBuild, StopBegin, ObserveExit, TakeResume,
      RouteSurvivor, ChildExits, Crash, Boot, Serve, vars, history
<1> QED
  BY <1>1, <1>2
(* Only a reservation makes use of an id.                                  *)
LEMMA UsedFrom ==
  ASSUME TypeInv, LaneInv, PresenceInv, Reliable, [Next]_vars,
         NEW i \in RunId, Unused(i), ~Unused(i)'
  PROVE  \E w \in Worker : Reserve(w) /\ i = g'[w].id
<1> DEFINE Goal == \E w \in Worker : Reserve(w) /\ i = g'[w].id
<1>1. /\ store[i] = Absent /\ journal[i] = Absent
      /\ launched[i] = <<>> /\ pushes[i] = 0
      /\ store \in [RunId -> Run] /\ ~Present(i)
      /\ launched \in [RunId -> Seq(Engine)] /\ pushes \in [RunId -> Nat]
      /\ Absent.pending = NoResume
  BY DEF Unused, TypeInv, TypeOK, Present, Absent
<1>2. ASSUME store'[i] # Absent PROVE Goal
  <2>1. ASSUME NEW k \in RunId, NEW r, Change(k, r),
               store' = [store EXCEPT ![k] = r]
        PROVE  FALSE
    <3>1. k = i
      BY <1>1, <1>2, <2>1
    <3> QED
      BY <1>1, <2>1, <3>1 DEF Change, Reliable
  <2>2. ASSUME NEW w \in Worker, Reserve(w) PROVE Goal
    BY <1>1, <1>2, <2>2, SpawnFacts
  <2> QED
    BY <1>1, <1>2, <2>1, <2>2, NextStores DEF StoreStep
<1>3. journal'[i] = Absent
  <2>1. ASSUME NEW w \in Worker, i = g[w].id,
               g[w].pc \in {"write", "journal", "journalpid"}
        PROVE  FALSE
    BY <1>1, <2>1 DEF PresenceInv, PresentFor
  <2> QED
    BY <1>1, <2>1, NextJournals DEF JournalStep
<1>4. launched'[i] = <<>>
  <2>1. ASSUME NEW w \in Worker, SpawnChild(w)
        PROVE  launched'[i] = <<>>
    <3>1. g[w].id # i
      BY <1>1, <2>1 DEF SpawnChild, At, PresenceInv, PresentFor
    <3> QED
      BY <1>1, <2>1, <3>1 DEF SpawnChild
  <2>2. CASE \A w \in Worker : ~SpawnChild(w)
    BY <1>1, <2>2, LaunchesStay
  <2> QED
    BY <2>1, <2>2
<1>5. pushes'[i] = 0
  <2>1. ASSUME NEW w \in Worker, StartPush(w)
        PROVE  pushes'[i] = 0
    <3>1. g[w].id # i
      BY <1>1, <2>1 DEF StartPush, At, PresenceInv, PresentFor
    <3> QED
      BY <1>1, <2>1, <3>1 DEF StartPush
  <2>2. CASE \A w \in Worker : ~StartPush(w)
    BY <1>1, <2>2, PushesStay
  <2> QED
    BY <2>1, <2>2
<1> QED
  BY <1>1, <1>2, <1>3, <1>4, <1>5 DEF Unused

LEMMA ReservedUnlinked ==
  ASSUME TypeInv, LaneInv, PresenceInv, HeldInv, Reliable, [Next]_vars,
         NEW w \in Worker, Reserve(w), NEW i \in RunId, i = g'[w].id
  PROVE  i < nextId' /\ \A p \in RunId : ~Link(p, i)'
<1>1. /\ g[w].pc = "reserve" /\ g'[w].pc = "journal" /\ Acts(w)
      /\ i = IF g[w].pred = NoRun THEN nextId ELSE g[w].id
      /\ nextId' = IF g[w].pred = NoRun THEN nextId + 1 ELSE nextId
      /\ store' = [store EXCEPT ![i] = g[w].rec]
      /\ journal' = journal
      /\ nextId \in Nat /\ store \in [RunId -> Run]
      /\ NoResume.succ = NoRun /\ NoRun # i
  BY SpawnFacts, PCs DEF Reserve, At, Acts, Step, TypeInv, TypeOK, NoResume
<1>2. \A v \in Worker \ {w} : g'[v] = g[v]
  BY <1>1, GoroutineSteps
<1>3. CASE g[w].pred = NoRun
  <2>1. \A p \in RunId : ~Link(p, i)
    BY <1>1, <1>3, LinksDrawn DEF Drawn
  <2>2. ASSUME NEW v \in Worker, PlanResume(v), Plans(v) PROVE FALSE
    BY <1>1, <1>2, <2>2 DEF PlanResume, Plans, At
  <2> QED
    BY <1>1, <1>3, <2>1, <2>2, LinkFrom DEF RunId
<1>4. CASE g[w].pred # NoRun
  <2>1. Respawns(g[w]) /\ i = g[w].id
    BY <1>1, <1>4 DEF Respawns
  <2>2. g[w].id = g[w].res.succ /\ Drawn(nextId, i)
    BY <1>1, <1>4, <2>1, DrawnIds
  <2>3. Holds(g[w], i)
    BY <2>1, <2>2 DEF Holds
  <2>4. ASSUME NEW p \in RunId
        PROVE  /\ store[p].pending.succ # i /\ journal[p].pending.succ # i
               /\ \A v \in Worker : ~Copies(g[v], p, i)
               /\ \A v \in Worker \ {w} : ~Holds(g[v], i)
    BY <1>1, <2>3 DEF HeldInv
  <2>5. ~Holds(g'[w], i) /\ \A p : ~Copies(g'[w], p, i)
    BY <1>1 DEF Holds, Copies, Fires, Respawns
  <2>6. g[w].rec.pending = NoResume
    BY <1>1 DEF PresenceInv, PresentFor
  <2>7. ASSUME NEW p \in RunId PROVE ~Link(p, i)'
    <3>1. store'[p].pending.succ # i
      BY <1>1, <2>4, <2>6
    <3> QED
      BY <1>1, <1>2, <2>4, <2>5, <3>1 DEF Link
  <2> QED
    BY <1>1, <1>4, <2>2, <2>7 DEF Drawn
<1> QED
  BY <1>3, <1>4

LEMMA FreshKept ==
  ASSUME TypeInv, LaneInv, PresenceInv, HeldInv, FreshInv, Reliable,
         [Next]_vars
  PROVE  FreshInv'
<1> SUFFICES ASSUME NEW i \in RunId,
                    i >= nextId' \/ \E p \in RunId : Link(p, i)'
             PROVE  Unused(i)'
  BY DEF FreshInv
<1>1. nextId \in Nat /\ nextId' \in Nat /\ nextId' >= nextId
  <2>1. nextId \in Nat /\ nextId' \in Nat
    BY NextType DEF TypeInv, TypeOK
  <2>2. nextId' \in {nextId, nextId + 1}
    BY IdsStay, SpawnFacts, EndFacts DEF Plans
  <2> QED
    BY <2>1, <2>2
<1>2. Unused(i)
  <2>1. CASE i >= nextId'
    BY <1>1, <2>1 DEF FreshInv, RunId
  <2>2. CASE \E p \in RunId : Link(p, i)'
    BY <1>1, <2>2, LinkFrom DEF FreshInv
  <2> QED
    BY <2>1, <2>2
<1>3. \A w \in Worker : Reserve(w) => i # g'[w].id
  BY <1>1, ReservedUnlinked DEF RunId
<1> QED
  BY <1>2, <1>3, UsedFrom

-----------------------------------------------------------------------------
(* An id is launched once.                                                 *)

LEMMA AgentsStay ==
  ASSUME [Next]_vars, \A w \in Worker : ~SpawnChild(w),
         \A i \in RunId : ~ChildExits(i)
  PROVE  alive' = alive /\ ending' = ending
<1>1. ASSUME NEW w \in Worker, Step(w) PROVE alive' = alive /\ ending' = ending
  BY <1>1
  DEF Step, Snap, Write, Unwritable, Adopt, Reserve, JournalRun, SpawnError,
      SetPid, JournalPid, RecordIdem, Finalize, GetFinalized, ClaimPush,
      StartPush, PlanResume, ScheduleResume, EndFinalizing, BuildSuccessor,
      Rearm, StopMark, StopSignal, StopFinalize, StopCancel, children
<1>2. CASE ~(\E w \in Worker : Step(w))
  BY <1>2
  DEF Next, Request, PostBuild, StopBegin, ObserveExit, TakeResume,
      RouteSurvivor, Crash, Boot, Serve, vars, children
<1> QED
  BY <1>1, <1>2

LEMMA SpawnTurn ==
  ASSUME TypeInv, [Next]_vars, LaneInv, NEW w \in Worker, SpawnChild(w)
  PROVE  /\ g[w].pc = "spawn" /\ g'[w].pc = "setpid" /\ g[w].id \in RunId
         /\ Turn(g[w], g[w].id) /\ Acts(w)
         /\ \A v \in Worker \ {w} : g'[v] = g[v]
         /\ launched' = [launched EXCEPT
                           ![g[w].id] = Append(@, g[w].rec.engine)]
         /\ alive' = alive \cup {g[w].id} /\ ending' = ending
<1>1. g[w].pc = "spawn" /\ g'[w].pc = "setpid" /\ Acts(w)
  BY SpawnFacts DEF SpawnChild, At, Moves, Acts, Step
<1> QED
  BY <1>1, DrawnIds, GoroutineSteps
  DEF SpawnChild, Turn, Spawns, SpawnPC, Drawn

(* The spawn lies ahead since the reservation.                             *)
LEMMA AheadFrom ==
  ASSUME TypeInv, LaneInv, PresenceInv, Reliable, [Next]_vars,
         NEW w \in Worker, Acts(w), g'[w].pc \in {"journal", "spawn"}
  PROVE  \/ Reserve(w)
         \/ g[w].pc \in {"journal", "spawn"} /\ g'[w].id = g[w].id
<1> DEFINE i == g'[w].id
<1>1. i \in RunId /\ Turn(g'[w], i) /\ Spawns(g'[w])
  BY IdsDrawnNext DEF Turn, Spawns, SpawnPC
<1>2. CASE Turn(g[w], i) /\ Spawns(g[w])
  <2>1. g[w].pc \in SpawnPC /\ g[w].id = i
    BY <1>2 DEF Spawns, Turn
  <2>2. \/ JournalRun(w) \/ SpawnChild(w) \/ SpawnError(w) \/ SetPid(w)
        \/ JournalPid(w)
    BY <2>1
    DEF SpawnPC, Acts, Step, Request, Snap, Write, Unwritable, Adopt, Reserve,
        RecordIdem, Finalize, GetFinalized, ClaimPush, StartPush, PlanResume,
        ScheduleResume, EndFinalizing, BuildSuccessor, Rearm, StopMark,
        StopSignal, StopFinalize, StopCancel, At, PostBuild, StopBegin,
        ObserveExit, TakeResume, RouteSurvivor
  <2>3. CASE JournalRun(w)
    BY <2>1, <2>3 DEF JournalRun, At
  <2> QED
    BY <1>1, <2>2, <2>3, SpawnFacts, JournalPidTurn DEF Moves
<1>3. ~(g'[w].pc = "finalize")
  OBVIOUS
<1> QED
  BY <1>1, <1>2, <1>3, TurnFrom

LEMMA LaunchKept ==
  ASSUME TypeInv, LaneInv, PresenceInv, TurnInv, FreshInv, LaunchInv, Reliable,
         [Next]_vars
  PROVE  LaunchInv'
<1>1. ASSUME NEW w \in Worker, g'[w].pc \in {"journal", "spawn"}
      PROVE  launched'[g'[w].id] = <<>>
  <2> DEFINE i == g'[w].id
  <2>1. i \in RunId /\ launched \in [RunId -> Seq(Engine)]
    BY <1>1, IdsDrawnNext DEF TypeInv, TypeOK
  <2>2. CASE Reserve(w)
    <3>1. launched[i] = <<>>
      BY <2>2, ReservesUnused DEF Unused
    <3>2. \A v \in Worker : ~SpawnChild(v)
      BY <2>2, SpawnFacts, SpawnTurn DEF Reserve, At
    <3> QED
      BY <3>1, <3>2, LaunchesStay
  <2>3. CASE g[w].pc \in {"journal", "spawn"} /\ g[w].id = i
    <3>1. launched[i] = <<>> /\ Turn(g[w], i)
      BY <2>3 DEF LaunchInv, Turn, Spawns, SpawnPC
    <3>2. ASSUME NEW v \in Worker, SpawnChild(v)
          PROVE  g[v].id # i
      BY <1>1, <2>1, <3>1, <3>2, SpawnTurn DEF TurnInv
    <3>3. CASE \E v \in Worker : SpawnChild(v)
      BY <2>1, <3>1, <3>2, <3>3, SpawnTurn
    <3> QED
      BY <3>1, <3>3, LaunchesStay
  <2>4. g'[w] # Idle
    BY <1>1, IdleHolds
  <2> QED
    BY <1>1, <2>2, <2>3, <2>4, AheadFrom, GoroutineSteps
<1>2. ASSUME NEW i \in RunId
      PROVE  /\ Len(launched'[i]) <= 1
             /\ launched'[i] = <<>> => i \notin alive' /\ ending'[i] = NoEnding
             /\ i \in alive' => ending'[i] = NoEnding
  <2>1. /\ Len(launched[i]) <= 1
        /\ launched[i] = <<>> => i \notin alive /\ ending[i] = NoEnding
        /\ i \in alive => ending[i] = NoEnding
        /\ launched \in [RunId -> Seq(Engine)] /\ ending \in [RunId -> Ending]
    BY DEF LaunchInv, TypeInv, TypeOK
  <2>2. ASSUME NEW w \in Worker, SpawnChild(w)
        PROVE  /\ Len(launched'[i]) <= 1
               /\ launched'[i] = <<>> => i \notin alive' /\ ending'[i] = NoEnding
               /\ i \in alive' => ending'[i] = NoEnding
    <3>1. CASE i = g[w].id
      <4>1. launched[i] = <<>>
        BY <2>2, <3>1, SpawnTurn DEF LaunchInv
      <4>2. launched'[i] = Append(<<>>, g[w].rec.engine) /\ ending' = ending
        BY <2>1, <2>2, <3>1, <4>1, SpawnTurn
      <4>3. Len(launched'[i]) = 1 /\ launched'[i] # <<>>
        BY <4>2
      <4> QED
        BY <2>1, <4>1, <4>2, <4>3
    <3>2. CASE i # g[w].id
      BY <2>1, <2>2, <3>2, SpawnTurn
    <3> QED
      BY <3>1, <3>2
  <2>3. CASE (\A w \in Worker : ~SpawnChild(w)) /\ \E k \in RunId : ChildExits(k)
    <3>1. launched' = launched
      BY <2>3, LaunchesStay
    <3> QED
      BY <2>1, <2>3, <3>1 DEF ChildExits
  <2>4. CASE (\A w \in Worker : ~SpawnChild(w)) /\ \A k \in RunId : ~ChildExits(k)
    BY <2>1, <2>4, LaunchesStay, AgentsStay
  <2> QED
    BY <2>2, <2>3, <2>4
<1> QED
  BY <1>1, <1>2 DEF LaunchInv

-----------------------------------------------------------------------------
(* A branch is pushed once.                                                *)

LEMMA PushTurn ==
  ASSUME TypeInv, [Next]_vars, LaneInv, NEW w \in Worker, StartPush(w)
  PROVE  /\ Claims(g[w]) /\ g'[w].pc = "plan" /\ g[w].id \in RunId
         /\ Turn(g[w], g[w].id) /\ Acts(w) /\ ~Boot
         /\ \A v \in Worker \ {w} : g'[v] = g[v]
         /\ journal' = journal
         /\ pushes' = [pushes EXCEPT ![g[w].id] = @ + 1]
<1>1. g[w].pc = "pushgo" /\ g'[w].pc = "plan" /\ Acts(w)
  BY EndFacts DEF StartPush, At, Moves, Acts, Step
<1> QED
  BY <1>1, DrawnIds, GoroutineSteps, ActsAlive
  DEF StartPush, Turn, Ends, EndPC, Claims, Drawn

(* The journal says running of a run from its reservation to the first     *)
(* record of its end.                                                      *)
LEMMA RunningFrom ==
  ASSUME TypeInv, PresenceInv, [Next]_vars, NEW i \in RunId,
         journal'[i].status = "running"
  PROVE  \/ journal[i].status = "running"
         \/ \E w \in Worker : /\ JournalRun(w) \/ JournalPid(w)
                              /\ Spawns(g[w]) /\ g[w].id = i
<1>1. journal'[i] # Absent
  BY DEF Absent
<1>2. ASSUME NEW w \in Worker, i = g[w].id,
             Write(w) \/ JournalRun(w) \/ JournalPid(w),
             g[w].pc \in {"write", "journal", "journalpid"},
             journal'[i] = Durable(g[w].rec), journal'[i] # journal[i]
      PROVE  /\ JournalRun(w) \/ JournalPid(w)
             /\ Spawns(g[w])
  <2>1. g[w].rec.status = "running"
    BY <1>2, LocalFacts DEF Durable, Run, TypeInv
  <2>2. g[w].pc # "write"
    BY <2>1 DEF PresenceInv, PresentFor, Terminal
  <2> QED
    BY <1>2, <2>2 DEF Spawns, SpawnPC, Write, At
<1> QED
  BY <1>1, <1>2, NextJournals DEF JournalStep

LEMMA StillUnpushed ==
  ASSUME TypeInv, LaneInv, [Next]_vars, NEW i \in RunId, pushes[i] = 0,
         \A w \in Worker : StartPush(w) => g[w].id # i
  PROVE  pushes'[i] = 0
<1>1. pushes \in [RunId -> Nat]
  BY DEF TypeInv, TypeOK
<1>2. CASE \E w \in Worker : StartPush(w)
  BY <1>1, <1>2, PushTurn
<1> QED
  BY <1>2, PushesStay

LEMMA PushKept ==
  ASSUME TypeInv, LaneInv, PresenceInv, TurnInv, FreshInv, PushInv, Reliable,
         [Next]_vars
  PROVE  PushInv'
<1>1. \A l : Claims(l) => Unpushed(l) /\ ~Spawns(l)
  BY DEF Claims, Unpushed, Spawns, Records, SpawnPC
<1>2. ASSUME NEW i \in RunId, NEW v \in Worker, NEW w \in Worker,
             StartPush(v), g[v].id = i, Turn(g[w], i)
      PROVE  v = w
  BY <1>2, PushTurn DEF TurnInv
<1>3. ASSUME NEW w \in Worker, Unpushed(g'[w])
      PROVE  /\ Turn(g'[w], g'[w].id) /\ g'[w].id \in RunId
             /\ g'[w] # Idle /\ g'[w].pc # "plan"
  <2>1. g'[w] # Idle
    BY <1>3, IdleHolds DEF Unplanned
  <2> QED
    BY <1>3, <2>1, IdsDrawnNext
    DEF Unpushed, Claims, Records, Turn, Spawns, Ends, EndPC, SpawnPC
<1>4. ASSUME NEW w \in Worker, Unpushed(g'[w])
      PROVE  pushes'[g'[w].id] = 0
  <2> DEFINE i == g'[w].id
  <2>1. i \in RunId /\ Turn(g'[w], i) /\ g'[w] # Idle /\ g'[w].pc # "plan"
    BY <1>3, <1>4
  <2>2. CASE Turn(g[w], i) /\ Unpushed(g[w])
    <3>1. pushes[i] = 0
      BY <2>2 DEF PushInv, Turn
    <3>2. \A v \in Worker : StartPush(v) => g[v].id # i
      BY <1>2, <2>1, <2>2, PushTurn
    <3> QED
      BY <2>1, <3>1, <3>2, StillUnpushed
  <2>3. CASE Reserve(w)
    <3>1. pushes[i] = 0
      BY <2>3, ReservesUnused DEF Unused
    <3>2. \A v \in Worker : ~StartPush(v)
      BY <2>3, SpawnFacts, PushTurn DEF Reserve, At
    <3> QED
      BY <2>1, <3>1, <3>2, StillUnpushed
  <2>4. CASE Begins(w, i)
    <3>1. Expected(i)
      BY <2>1, <2>4, BeginsExpected
    <3>2. pushes[i] = 0 /\ \A v \in Worker : ~Turn(g[v], i)
      BY <2>1, <3>1 DEF PushInv, TurnInv
    <3> QED
      BY <2>1, <3>2, PushTurn, StillUnpushed
  <2>5. CASE g'[w] = g[w]
    BY <1>4, <2>1, <2>2, <2>5
  <2> QED
    BY <1>4, <2>1, <2>2, <2>3, <2>4, <2>5, GoroutineSteps, TurnFrom
<1>5. ASSUME NEW w \in Worker, Claims(g'[w])
      PROVE  journal'[g'[w].id].status # "running"
  <2> DEFINE i == g'[w].id
  <2>1. i \in RunId /\ Turn(g'[w], i) /\ g'[w] # Idle
    BY <1>1, <1>3, <1>5
  <2>2. CASE Turn(g[w], i) /\ Claims(g[w])
    <3>1. journal[i].status # "running"
      BY <2>2 DEF PushInv, Turn
    <3>2. ~Spawns(g[w])
      BY <1>1, <2>2
    <3>3. ASSUME NEW v \in Worker, Spawns(g[v]), g[v].id = i
          PROVE  FALSE
      BY <2>1, <2>2, <3>2, <3>3 DEF TurnInv, Turn
    <3> QED
      BY <2>1, <3>1, <3>3, RunningFrom
  <2>3. CASE Turn(g[w], i) /\ Write(w) /\ Records(g[w], {"push"})
    <3>1. g[w].id = i /\ g[w].pc = "write"
      BY <2>3 DEF Turn, Write, At
    <3>2. journal'[i] = Durable(g[w].rec) /\ Terminal(g[w].rec)
      BY <2>1, <2>3, <3>1, WriteFacts
      DEF TypeInv, TypeOK, PresenceInv, PresentFor
    <3> QED
      BY <3>2, LocalFacts DEF Durable, Terminal, Run, TypeInv
  <2>4. g'[w].pc \notin {"journal", "finalize"}
    BY <1>5 DEF Claims, Records
  <2>5. CASE g'[w] = g[w]
    BY <1>5, <2>1, <2>2, <2>5
  <2> QED
    BY <1>5, <2>1, <2>2, <2>3, <2>4, <2>5, GoroutineSteps, TurnFrom
<1>6. ASSUME NEW i \in RunId, Expected(i)' \/ journal'[i].status = "running"
      PROVE  pushes'[i] = 0
  <2>1. CASE journal[i].status = "running"
    <3>1. pushes[i] = 0
      BY <2>1 DEF PushInv
    <3>2. \A w \in Worker : StartPush(w) => g[w].id # i
      BY <2>1, PushTurn DEF PushInv
    <3> QED
      BY <3>1, <3>2, StillUnpushed
  <2>2. CASE Expected(i)
    <3>1. pushes[i] = 0 /\ \A w \in Worker : ~Turn(g[w], i)
      BY <2>2 DEF PushInv, TurnInv
    <3> QED
      BY <3>1, PushTurn, StillUnpushed
  <2>3. ASSUME NEW w \in Worker, Spawns(g[w]), g[w].id = i
        PROVE  pushes'[i] = 0
    <3>1. pushes[i] = 0 /\ Turn(g[w], i)
      BY <2>3 DEF PushInv, Unpushed, Turn
    <3>2. \A v \in Worker : StartPush(v) => g[v].id # i
      BY <1>1, <1>2, <2>3, <3>1, PushTurn
    <3> QED
      BY <3>1, <3>2, StillUnpushed
  <2>4. ASSUME NEW w \in Worker, JournalPid(w), i = g[w].id
        PROVE  Spawns(g[w])
    BY <2>4, JournalPidTurn DEF Spawns, SpawnPC
  <2>5. Boot /\ Expected(i)' => journal[i].status = "running"
    BY DEF Boot, Expected, ToRoute, Exited, Interrupted, Reattached,
           Unfinished
  <2>6. \/ journal[i].status = "running" \/ Expected(i)
        \/ \E w \in Worker : Spawns(g[w]) /\ g[w].id = i
    <3>1. CASE journal'[i].status = "running"
      BY <3>1, RunningFrom
    <3>2. CASE Expected(i)'
      BY <2>4, <2>5, <3>2, ExpectedFrom DEF Expected, ToRoute
    <3> QED
      BY <1>6, <3>1, <3>2
  <2> QED
    BY <2>1, <2>2, <2>3, <2>6
<1>7. ASSUME NEW i \in RunId PROVE pushes'[i] <= 1
  <2>1. pushes[i] <= 1 /\ pushes \in [RunId -> Nat]
    BY DEF PushInv, TypeInv, TypeOK
  <2>2. ASSUME NEW w \in Worker, StartPush(w) PROVE pushes'[i] <= 1
    <3>1. pushes[g[w].id] = 0
      BY <1>1, <2>2, PushTurn DEF PushInv
    <3> QED
      BY <2>1, <2>2, <3>1, PushTurn
  <2> QED
    BY <2>1, <2>2, PushesStay
<1>8. \A w \in Worker : /\ Unpushed(g[w])' => pushes'[g'[w].id] = 0
                        /\ Claims(g[w])' => journal'[g'[w].id].status # "running"
  BY <1>4, <1>5
<1> QED
  BY <1>6, <1>7, <1>8 DEF PushInv

-----------------------------------------------------------------------------
(* The handoff stays hidden until its own goroutine ends it.               *)

(* What of a stored run only one handler changes.                          *)
LEMMA EntryStays ==
  ASSUME TypeInv, LaneInv, FreshInv, Reliable, [Next]_vars, ~Crash, ~Boot,
         NEW i \in RunId, Present(i)
  PROVE  /\ \/ \E w \in Worker : EndFinalizing(w) /\ g[w].id = i
            \/ store[i].finalizing => store'[i].finalizing
         /\ \/ \E w \in Worker : /\ Finalize(w) \/ StopFinalize(w)
                                 /\ g[w].id = i
            \/ store'[i].status = store[i].status
         /\ \/ \E w \in Worker : SetPid(w) /\ g[w].id = i
            \/ store'[i].pid = store[i].pid
<1> DEFINE Closed(w)   == EndFinalizing(w) /\ g[w].id = i
           Final(w)   == (Finalize(w) \/ StopFinalize(w)) /\ g[w].id = i
           Pid(w)     == SetPid(w) /\ g[w].id = i
           Same(r)    == /\ store[i].finalizing => r.finalizing
                         /\ r.status = store[i].status
                         /\ r.pid = store[i].pid
           Goal == /\ (\E w \in Worker : Closed(w))
                        \/ (store[i].finalizing => store'[i].finalizing)
                   /\ (\E w \in Worker : Final(w))
                        \/ store'[i].status = store[i].status
                   /\ (\E w \in Worker : Pid(w)) \/ store'[i].pid = store[i].pid
<1>1. store \in [RunId -> Run]
  BY DEF TypeInv, TypeOK
<1>2. ASSUME NEW k \in RunId, NEW r, Update(k, r), k = i => Same(r)
      PROVE  Goal
  <2>1. Same(store'[i]) \/ store'[i] = store[i]
    BY <1>1, <1>2 DEF Update
  <2> QED
    BY <2>1
<1>3. ASSUME NEW w \in Worker, Step(w) PROVE Goal
  <2> DEFINE k == g[w].id
  <2>1. CASE ClaimPush(w) \/ ScheduleResume(w) \/ StopMark(w) \/ StopCancel(w)
    <3> DEFINE r1 == [store[k] EXCEPT !.pushed = TRUE]
               r2 == [store[k] EXCEPT !.pending = g[w].res]
               r3 == [store[k] EXCEPT !.stopReq = TRUE, !.pending = NoResume]
    <3>1. k \in RunId
      BY <2>1, LocalFacts, PCs
      DEF ClaimPush, ScheduleResume, StopMark, StopCancel
    <3>2. store' = store \/ Update(k, r1) \/ Update(k, r2) \/ Update(k, r3)
      BY <2>1 DEF ClaimPush, ScheduleResume, StopMark, StopCancel, Cancelled
    <3>3. k = i => Same(r1) /\ Same(r2) /\ Same(r3)
      BY <1>1, <3>1 DEF Run
    <3>4. store' = store => Goal
      OBVIOUS
    <3> HIDE DEF r1, r2, r3, Same, Goal
    <3> QED
      BY <1>2, <3>1, <3>2, <3>3, <3>4
  <2>2. CASE Finalize(w) \/ StopFinalize(w)
    <3>1. k \in RunId
      BY <2>2, LocalFacts, PCs DEF Finalize, StopFinalize
    <3>2. PICK ok : Update(k, Finalized(store[k], ok))
      BY <2>2 DEF Finalize, StopFinalize
    <3> DEFINE r == Finalized(store[k], ok)
    <3>3. r.finalizing = store[k].finalizing /\ r.pid = store[k].pid
      BY <1>1, <3>1 DEF Finalized, Run
    <3> HIDE DEF r
    <3>4. CASE k = i
      <4>1. /\ store[i].finalizing => store'[i].finalizing
            /\ store'[i].pid = store[i].pid
        BY <1>1, <3>1, <3>2, <3>3, <3>4 DEF Update, r
      <4> QED
        BY <2>2, <3>4, <4>1
    <3>5. CASE k # i
      BY <1>2, <3>1, <3>2, <3>5
    <3> QED
      BY <3>4, <3>5
  <2>3. CASE SetPid(w)
    <3> DEFINE r == [store[k] EXCEPT !.pid = TRUE]
    <3>1. k \in RunId /\ Update(k, r)
      BY <2>3, LocalFacts, PCs DEF SetPid
    <3>2. r.finalizing = store[k].finalizing /\ r.status = store[k].status
      BY <1>1, <3>1 DEF Run
    <3> HIDE DEF r
    <3>3. CASE k = i
      <4>1. /\ store[i].finalizing => store'[i].finalizing
            /\ store'[i].status = store[i].status
        BY <1>1, <3>1, <3>2, <3>3 DEF Update
      <4> QED
        BY <2>3, <3>3, <4>1
    <3>4. CASE k # i
      BY <1>2, <3>1, <3>4
    <3> QED
      BY <3>3, <3>4
  <2>4. CASE EndFinalizing(w)
    <3> DEFINE r == [store[k] EXCEPT !.finalizing = FALSE]
    <3>1. k \in RunId /\ Update(k, r)
      BY <2>4, LocalFacts, PCs DEF EndFinalizing
    <3>2. r.pid = store[k].pid /\ r.status = store[k].status
      BY <1>1, <3>1 DEF Run
    <3> HIDE DEF r
    <3>3. CASE k = i
      <4>1. /\ store'[i].pid = store[i].pid
            /\ store'[i].status = store[i].status
        BY <1>1, <3>1, <3>2, <3>3 DEF Update
      <4> QED
        BY <2>4, <3>3, <4>1
    <3>4. CASE k # i
      BY <1>2, <3>1, <3>4
    <3> QED
      BY <3>3, <3>4
  <2>5. CASE Rearm(w)
    <3> DEFINE j == g[w].pred
               r == [store[j] EXCEPT
                      !.pending = [g[w].res EXCEPT !.attempts = g[w].res.attempts + 1]]
    <3>1. j \in RunId /\ (store' = store \/ Update(j, r))
      BY <2>5, LocalFacts DEF Rearm
    <3>2. j = i => Same(r)
      BY <1>1, <3>1 DEF Run
    <3>3. store' = store => Goal
      OBVIOUS
    <3> HIDE DEF r, Same, Goal
    <3> QED
      BY <1>2, <3>1, <3>2, <3>3
  <2>6. CASE Reserve(w)
    <3>1. /\ g'[w].id \in RunId
          /\ store' = [store EXCEPT ![g'[w].id] = g[w].rec]
      BY <2>6, SpawnFacts
    <3>2. store[g'[w].id] = Absent /\ Absent.status = "absent"
      BY <2>6, ReservesUnused DEF Unused, Absent
    <3>3. store'[i] = store[i]
      BY <1>1, <3>1, <3>2 DEF Present
    <3> QED
      BY <3>3
  <2>7. CASE \/ Snap(w) \/ Write(w) \/ Unwritable(w) \/ Adopt(w)
             \/ JournalRun(w) \/ SpawnChild(w) \/ JournalPid(w)
             \/ RecordIdem(w) \/ GetFinalized(w) \/ StartPush(w)
             \/ PlanResume(w) \/ BuildSuccessor(w) \/ StopSignal(w)
    <3>1. store' = store
      BY <2>7, SpawnFacts
      DEF Snap, Write, Unwritable, Adopt, SpawnChild, JournalPid, RecordIdem,
          GetFinalized, StartPush, PlanResume, BuildSuccessor, StopSignal
    <3> QED
      BY <3>1
  <2> HIDE DEF Goal
  <2> QED
    BY <1>3, <2>1, <2>2, <2>3, <2>4, <2>5, <2>6, <2>7, SpawnFacts DEF Step
<1>4. ASSUME NEW w \in Worker, NEW k \in RunId, TakeResume(w, k)
      PROVE  Goal
  <2>1. store' = [store EXCEPT ![k] = Taken(store[k])]
    BY <1>1, <1>4 DEF TakeResume
  <2>2. k = i => Same(Taken(store[k]))
    BY <1>1 DEF Taken, Run
  <2>3. Same(store'[i])
    BY <1>1, <2>1, <2>2
  <2> QED
    BY <2>3
<1>5. ASSUME NEW w \in Worker, NEW k \in RunId,
             ObserveExit(w, k) \/ RouteSurvivor(w, k)
      PROVE  Goal
  <2>1. store' = store \/ store' = [store EXCEPT ![k] = Hidden(store[k])]
    BY <1>1, <1>5, StartFacts, DrawnIds
  <2>2. k = i => Same(Hidden(store[k]))
    BY <1>1 DEF Hidden, Run
  <2>3. Same(store'[i])
    BY <1>1, <2>1, <2>2
  <2> QED
    BY <2>3
<1>6. ASSUME \/ \E w \in Worker : Request(w)
             \/ Serve \/ (\E k \in RunId : ChildExits(k)) \/ UNCHANGED vars
      PROVE  Goal
  <2>1. store' = store
    BY <1>6 DEF Request, PostBuild, StopBegin, Serve, ChildExits, vars
  <2> QED
    BY <2>1
<1>7. Goal
  <2> HIDE DEF Goal
  <2> QED
    BY <1>3, <1>4, <1>5, <1>6 DEF Next
<1> QED
  BY <1>7

LEMMA HiddenKept ==
  ASSUME TypeInv, LaneInv, PresenceInv, TurnInv, FreshInv, HiddenInv, Reliable,
         [Next]_vars
  PROVE  HiddenInv'
<1> SUFFICES ASSUME NEW w \in Worker, Ends(g'[w])
             PROVE  store'[g'[w].id].finalizing
  BY DEF HiddenInv
<1> DEFINE i == g'[w].id
<1>1. /\ g'[w] # Idle /\ g'[w].pc # "journal"
      /\ g'[w].pc \notin {"idle", "reserve", "rearm"} /\ Turn(g'[w], i)
  <2>1. g'[w] # Idle
    BY IdleHolds
  <2> QED
    BY <2>1 DEF Ends, Records, EndPC, Turn
<1>2. i \in RunId
  BY <1>1, IdsDrawnNext
<1>3. CASE Turn(g[w], i) /\ Ends(g[w])
  <2>1. store[i].finalizing /\ Present(i)
    BY <1>2, <1>3, TurnPresent DEF HiddenInv, Turn
  <2>2. ~Crash /\ ~Boot
    BY <1>1, <1>3, DrawnIds, IdleHolds DEF Crash, Boot
  <2>3. ASSUME NEW v \in Worker, EndFinalizing(v), g[v].id = i
        PROVE  FALSE
    <3>1. Turn(g[v], i) /\ g'[v] = Idle
      BY <2>3, EndFacts DEF EndFinalizing, At, Turn, Ends, EndPC
    <3>2. v = w
      BY <1>2, <1>3, <3>1 DEF TurnInv
    <3> QED
      BY <1>1, <3>1, <3>2
  <2> QED
    BY <1>2, <2>1, <2>2, <2>3, EntryStays
<1>4. CASE Begins(w, i)
  <2>1. \/ store' = [store EXCEPT ![i] = Hidden(@)]
        \/ ~Running(i)
    BY <1>2, <1>4, StartFacts, DrawnIds DEF Begins
  <2>2. store' = [store EXCEPT ![i] = Hidden(@)] /\ store \in [RunId -> Run]
    BY <1>4, <2>1 DEF Begins, TypeInv, TypeOK
  <2> QED
    BY <1>2, <2>2 DEF Hidden, Run
<1>5. CASE g'[w] = g[w]
  BY <1>1, <1>3, <1>5
<1> QED
  BY <1>1, <1>2, <1>3, <1>4, <1>5, GoroutineSteps, TurnFrom

-----------------------------------------------------------------------------
(* The theorems.                                                           *)

LEMMA OnceKept ==
  ASSUME TypeInv, LaneInv, OnceInv, Reliable, [Next]_vars
  PROVE  OnceInv'
BY PresenceKept, TurnKept, PathKept, HeldKept, FreshKept, LaunchKept, PushKept,
   HiddenKept
   DEF OnceInv

LEMMA OnceInit == Init => OnceInv
<1> SUFFICES ASSUME Init PROVE OnceInv
  OBVIOUS
<1>1. /\ \A i \in RunId : /\ store[i] = Absent /\ journal[i] = Absent
                          /\ launched[i] = <<>> /\ pushes[i] = 0
                          /\ ending[i] = NoEnding
      /\ \A w \in Worker : g[w] = Idle
      /\ alive = {} /\ waiting = {} /\ toRoute = {} /\ loaded = {}
      /\ nextId = 1
  BY DEF Init
<1>2. /\ Absent.status = "absent" /\ Absent.pending = NoResume
      /\ NoResume.succ = NoRun /\ \A i \in RunId : i # NoRun
  BY PCs DEF Absent, NoResume
<1>3. /\ Idle.pc = "idle" /\ \A i : ~Turn(Idle, i)
      /\ ~Ends(Idle) /\ ~Spawns(Idle) /\ ~Unplanned(Idle) /\ ~Respawns(Idle)
      /\ ~Unpushed(Idle) /\ ~Claims(Idle)
      /\ \A s : ~Holds(Idle, s) /\ \A p : ~Copies(Idle, p, s)
  BY IdleHolds DEF Unplanned, Unpushed, Copies
<1>4. \A p, s \in RunId : ~Link(p, s)
  BY <1>1, <1>2, <1>3 DEF Link
<1>5. \A i \in RunId : ~Expected(i)
  BY <1>1 DEF Expected, ToRoute
<1>6. PresenceInv
  BY <1>1, <1>2, <1>3, <1>5 DEF PresenceInv, PresentFor, Settling
<1>7. TurnInv /\ PathInv
  BY <1>1, <1>3, <1>4, <1>5 DEF TurnInv, PathInv, ToRoute
<1>8. HeldInv /\ FreshInv
  BY <1>1, <1>3, <1>4 DEF HeldInv, FreshInv, Unused
<1>9. LaunchInv /\ PushInv /\ HiddenInv
  BY <1>1, <1>2, <1>3, <1>5 DEF LaunchInv, PushInv, HiddenInv
<1> QED
  BY <1>6, <1>7, <1>8, <1>9 DEF OnceInv

LEMMA OnceHolds ==
  ASSUME Reliable
  PROVE  Spec => [](TypeInv /\ LaneInv /\ OnceInv)
<1>1. Init => TypeInv /\ LaneInv /\ OnceInv
  BY InitType, InitLane, OnceInit
<1>2. TypeInv /\ LaneInv /\ OnceInv /\ [Next]_vars
        => (TypeInv /\ LaneInv /\ OnceInv)'
  BY NextType, NextLane, OnceKept
<1> QED
  BY <1>1, <1>2, PTL DEF Spec

(* A resume fires exactly once: whatever timer, sweep, re-arm, stop and    *)
(* restart do in between, no two agents are launched under one run id.     *)
THEOREM LaunchesOnce == ASSUME Reliable PROVE Spec => []LaunchedOnce
<1>1. TypeInv /\ LaneInv /\ OnceInv => LaunchedOnce
  BY DEF OnceInv, LaunchInv, LaunchedOnce
<1> QED
  BY <1>1, OnceHolds, PTL

(* BR4: the branch of a run is pushed at most once, though its exit is     *)
(* finalized again by every restart that finds it unfinished.              *)
THEOREM PushesOnce == ASSUME Reliable PROVE Spec => []PushedOnce
<1>1. TypeInv /\ LaneInv /\ OnceInv => PushedOnce
  BY DEF OnceInv, PushInv, PushedOnce
<1> QED
  BY <1>1, OnceHolds, PTL

(* Until the goroutine that handles the end of a build has decided between *)
(* resume and park, no observer of the store takes the build for settled.  *)
THEOREM HandoffIsHidden == ASSUME Reliable PROVE Spec => []HandoffHidden
<1>1. TypeInv /\ LaneInv /\ OnceInv => HandoffHidden
  BY DEF OnceInv, HiddenInv, HandoffHidden, Deciding, LooksSettled, Ends,
         EndPC, Records
<1> QED
  BY <1>1, OnceHolds, PTL

-----------------------------------------------------------------------------
(* Without a crash the outcome of a run is final, whatever fails.          *)

(* A goroutine has a resume because it had it before, because it drew the  *)
(* successor's id, or because it took it from the store; when the spawn of *)
(* a reserved successor fails, that leaves the store.                      *)
LEMMA TokenFrom ==
  ASSUME TypeInv, LaneInv, NEW w \in Worker, Acts(w), NEW s, Token(g'[w], s)
  PROVE  \/ /\ Token(g[w], s)
            /\ g'[w].pc \in ReservedPC =>
                 \/ g[w].pc \in ReservedPC /\ g'[w].id = g[w].id
                 \/ Reserve(w) /\ g'[w].id = g[w].id
            /\ g'[w].pc \notin ReservedPC =>
                 \/ g[w].pc \notin ReservedPC
                 \/ store' = [store EXCEPT ![g[w].id] = Absent]
         \/ PlanResume(w) /\ s = nextId /\ g'[w].pc \notin ReservedPC
         \/ /\ g'[w].pc \notin ReservedPC
            /\ \E i \in RunId : TakeResume(w, i) /\ store[i].pending.succ = s
<1> DEFINE Kept == /\ Token(g[w], s)
                   /\ g'[w].pc \in ReservedPC =>
                        \/ g[w].pc \in ReservedPC /\ g'[w].id = g[w].id
                        \/ Reserve(w) /\ g'[w].id = g[w].id
                   /\ g'[w].pc \notin ReservedPC =>
                        \/ g[w].pc \notin ReservedPC
                        \/ store' = [store EXCEPT ![g[w].id] = Absent]
<1> USE DEF ReservedPC
<1>1. ~(g'[w] = Idle)
  BY DEF Idle, Token, Fires, Succeeds
<1>2. CASE Snap(w) \/ Write(w)
  <2>1. g[w].pc \in {"snap", "write"}
    BY <1>2 DEF Snap, Write, At
  <2>2. CASE Moves(w, g[w].next)
    BY <2>1, <2>2, LocalFacts
    DEF Moves, Token, Fires, Succeeds, Local, AfterJournal
  <2>3. CASE ~Moves(w, g[w].next)
    <3>1. /\ g'[w].pc = "write" /\ g'[w].id = g[w].id
          /\ g'[w].next = g[w].next
          /\ g'[w].res = g[w].res /\ g'[w].pred = g[w].pred
      BY <1>1, <1>2, <2>3, WriteFacts
    <3> QED
      BY <2>1, <3>1 DEF Token, Fires, Succeeds
  <2> QED
    BY <2>2, <2>3
<1>3. CASE Unwritable(w)
  <2>1. At(w, "reserve") /\ Moves(w, "rearm") /\ g[w].pred # NoRun
    BY <1>1, <1>3, SpawnFacts DEF Unwritable
  <2> QED
    BY <2>1 DEF At, Moves, Token, Fires, Succeeds
<1>4. CASE Reserve(w)
  <2>1. /\ g'[w].pc = "journal" /\ g[w].pc = "reserve"
        /\ g'[w].pred = g[w].pred /\ g'[w].res = g[w].res
        /\ g'[w].id = IF g[w].pred = NoRun THEN nextId ELSE g[w].id
    <3>1. g[w] \in Local /\ g \in [Worker -> SoundLocal]
      BY LocalFacts DEF TypeInv
    <3>2. PICK i : g' = [g EXCEPT ![w].pc = "journal", ![w].id = i]
      BY <1>4 DEF Reserve
    <3>3. g'[w].pred = g[w].pred /\ g'[w].res = g[w].res
      BY <3>1, <3>2 DEF Local
    <3> QED
      BY <1>4, <3>3, SpawnFacts DEF Reserve, At
  <2> QED
    BY <1>4, <2>1 DEF Token, Fires, Succeeds
<1>5. CASE JournalRun(w) \/ SpawnError(w)
  <2>1. /\ g[w].pc \in {"journal", "spawn"}
        /\ \/ Moves(w, "spawn") /\ g[w].pc = "journal"
           \/ /\ store' = [store EXCEPT ![g[w].id] = Absent]
              /\ SpawnFails(w) \/ Done(w)
    BY <1>5, MoveFacts DEF JournalRun, SpawnError, At
  <2>2. CASE Moves(w, "spawn") /\ g[w].pc = "journal"
    BY <2>2 DEF Moves, Token, Fires, Succeeds
  <2>3. CASE ~(Moves(w, "spawn") /\ g[w].pc = "journal")
    <3>1. /\ store' = [store EXCEPT ![g[w].id] = Absent]
          /\ Moves(w, "rearm") /\ g[w].pred # NoRun
      BY <1>1, <2>1, <2>3, MoveFacts
    <3> QED
      BY <2>1, <3>1 DEF Moves, Token, Fires, Succeeds
  <2> QED
    BY <2>2, <2>3
<1>6. CASE \/ Adopt(w) \/ SpawnChild(w) \/ SetPid(w) \/ JournalPid(w)
           \/ RecordIdem(w)
  <2>1. g'[w].pc \in {"record", "setpid", "journalpid"}
    BY <1>1, <1>6, SpawnFacts DEF Moves
  <2> QED
    BY <2>1 DEF Token, Fires, Succeeds
<1>7. CASE \/ Finalize(w) \/ GetFinalized(w) \/ ClaimPush(w) \/ StartPush(w)
           \/ ScheduleResume(w) \/ EndFinalizing(w)
           \/ StopMark(w) \/ StopSignal(w) \/ StopFinalize(w) \/ StopCancel(w)
  <2>1. \/ g'[w].pc \in {"get", "plan", "end", "stopsignal", "stopfinalize"}
        \/ /\ g'[w].pc \in {"snap", "write"}
           /\ g'[w].next \in {"push", "pushgo", "end", "idle"}
    BY <1>1, <1>7, EndFacts, WriteFacts, StopFacts DEF Moves, Rejournals
  <2> QED
    BY <2>1 DEF Token, Fires, Succeeds
<1>8. CASE PlanResume(w)
  <2>1. Plans(w)
    <3>1. ~Moves(w, "end")
      BY DEF Moves, Token, Fires, Succeeds
    <3> QED
      BY <1>8, <3>1, EndFacts
  <2> QED
    BY <1>8, <2>1 DEF Plans, Token
<1>9. CASE BuildSuccessor(w)
  <2>1. /\ g'[w].pc = "reserve" /\ g'[w].pred = g[w].id
        /\ g'[w].res = g[w].res /\ At(w, "fireget")
    BY <1>1, <1>9, FireFacts DEF BuildSuccessor
  <2> QED
    BY <2>1 DEF At, Token, Fires, Succeeds
<1>10. CASE Rearm(w)
  <2>1. g'[w].pc = "snap" /\ g'[w].next = "idle"
    BY <1>10, FireFacts
  <2> QED
    BY <2>1 DEF Token, Fires, Succeeds
<1>11. CASE Request(w)
  <2>1. \/ g'[w].pc = "reserve" /\ g'[w].pred = NoRun
        \/ g'[w].pc \in {"stopmark", "stopcancel"}
    BY <1>11, StartFacts, StopFacts, DrawnIds DEF Request, Posts
  <2> QED
    BY <2>1 DEF Token, Fires, Succeeds
<1>12. ASSUME NEW i \in RunId, TakeResume(w, i)
       PROVE  g'[w].pc \notin ReservedPC /\ store[i].pending.succ = s
  <2>1. /\ g'[w].pc = "snap" /\ g'[w].res = store[i].pending
    BY <1>12, FireFacts
  <2> QED
    BY <2>1 DEF Token
<1>13. ASSUME NEW i \in RunId, ObserveExit(w, i) \/ RouteSurvivor(w, i)
       PROVE  Kept
  <2>1. g'[w] = g[w] \/ g'[w].pc = "finalize"
    BY <1>13, StartFacts, DrawnIds
  <2> QED
    BY <2>1 DEF Token, Fires, Succeeds
<1> QED
  BY <1>2, <1>3, <1>4, <1>5, <1>6, <1>7, <1>8, <1>9, <1>10, <1>11, <1>12,
     <1>13
  DEF Acts, Step

(* The store arms a resume when its goroutine schedules it or arms it      *)
(* again, and then no longer has it.                                       *)
Arms(w, p, s) ==
  /\ Acts(w) /\ g[w].pc \in {"schedule", "rearm"} /\ Token(g[w], s)
  /\ g'[w].pc \in {"snap", "end"} /\ \A t : ~Token(g'[w], t)
  /\ p = IF g[w].pc = "rearm" THEN g[w].pred ELSE g[w].id

LEMMA TokenArmed ==
  ASSUME TypeInv, LaneInv, [Next]_vars, phase # "down",
         NEW p \in RunId, NEW s \in RunId, store'[p].pending.succ = s
  PROVE  \/ /\ store[p].pending.succ = s
            /\ \A w \in Worker : ~TakeResume(w, p)
         \/ \E w \in Worker : Arms(w, p, s)
<1>1. /\ store \in [RunId -> Run]
      /\ \A w \in Worker : g[w].rec \in Run /\ g[w].res \in PendingResume
      /\ s # NoRun /\ p # NoRun
      /\ NoResume.succ = NoRun /\ Absent.pending = NoResume
  BY LocalFacts, PCs DEF TypeInv, TypeOK, NoResume, Absent
<1> DEFINE Goal == \/ store[p].pending.succ = s
                   \/ \E w \in Worker : Arms(w, p, s)
<1>2. ASSUME NEW w \in Worker, ScheduleResume(w) \/ Rearm(w)
      PROVE  /\ Acts(w) /\ g'[w].pc \in {"snap", "end"}
             /\ \A t : ~Token(g'[w], t)
  <2>1. \/ g'[w].pc = "end"
        \/ g'[w].pc = "snap" /\ g'[w].next \in {"end", "idle"}
    BY <1>2, EndFacts, FireFacts DEF Moves, Rejournals
  <2> QED
    BY <1>2, <2>1 DEF Acts, Step, Token, Fires, Succeeds
<1>3. ASSUME NEW k \in RunId, NEW r, Change(k, r),
             store' = [store EXCEPT ![k] = r]
      PROVE  Goal
  <2>1. CASE k # p
    BY <1>1, <1>3, <2>1
  <2>2. CASE k = p
    <3>1. r.pending.succ = s /\ store[p] \in Run
      BY <1>1, <1>3, <2>2
    <3>2. CASE r \in Revised(store[p]) \/ r = Taken(store[p])
      <4>1. r.pending \in {store[p].pending, NoResume}
        BY <3>1, <3>2 DEF Revised, Taken, Finalized, Hidden, Run
      <4> QED
        BY <1>1, <3>1, <4>1
    <3>3. ASSUME NEW w \in Worker, ScheduleResume(w), At(w, "schedule"),
                 p = g[w].id, r = [store[p] EXCEPT !.pending = g[w].res]
          PROVE  Goal
      <4>1. g[w].res.succ = s
        BY <3>1, <3>3 DEF Run
      <4>2. Token(g[w], s) /\ g[w].pc = "schedule"
        BY <3>3, <4>1 DEF Token, Fires, At
      <4>3. Arms(w, p, s)
        BY <1>2, <3>3, <4>2 DEF Arms
      <4> QED
        BY <4>3
    <3>4. ASSUME NEW w \in Worker, Rearm(w), At(w, "rearm"), p = g[w].pred,
                 r = [store[p] EXCEPT !.pending =
                       [g[w].res EXCEPT !.attempts = g[w].res.attempts + 1]]
          PROVE  Goal
      <4>1. g[w].res.succ = s
        BY <1>1, <3>1, <3>4 DEF Run, PendingResume
      <4>2. Token(g[w], s) /\ g[w].pc = "rearm"
        BY <1>1, <3>4, <4>1 DEF Token, Succeeds, At
      <4>3. Arms(w, p, s)
        BY <1>2, <3>4, <4>2 DEF Arms
      <4> QED
        BY <4>3
    <3> HIDE DEF Goal
    <3> QED
      BY <1>1, <1>3, <2>2, <3>1, <3>2, <3>3, <3>4 DEF Change
  <2> QED
    BY <2>1, <2>2
<1>4. ASSUME NEW w \in Worker, Reserve(w) PROVE Goal
  <2>1. /\ g'[w].id \in RunId
        /\ store' = [store EXCEPT ![g'[w].id] = g[w].rec]
    BY <1>4, SpawnFacts
  <2>2. g[w].rec.pending = NoResume
    BY <1>4 DEF Reserve, At, LaneInv, Consistent, Carried
  <2> QED
    BY <1>1, <2>1, <2>2
<1>5. ASSUME store' = store \/ store' = [k \in RunId |-> Absent]
      PROVE  Goal
  BY <1>1, <1>5
<1>6. Goal
  <2>1. ~Boot
    BY DEF Boot
  <2> HIDE DEF Goal
  <2> QED
    BY <1>3, <1>4, <1>5, <2>1, NextStores DEF StoreStep
<1>7. ASSUME NEW w \in Worker, TakeResume(w, p) PROVE FALSE
  <2>1. store' = [store EXCEPT ![p] = Taken(store[p])]
    BY <1>1, <1>7 DEF TakeResume
  <2>2. store'[p].pending = NoResume
    BY <1>1, <2>1 DEF Taken, Run
  <2> QED
    BY <1>1, <2>2
<1> QED
  BY <1>6, <1>7

(* Only a reservation brings a run into the store.                         *)
LEMMA TokenPresent ==
  ASSUME TypeInv, LaneInv, [Next]_vars, phase # "down",
         NEW i \in RunId, Present(i)'
  PROVE  \/ Present(i)
         \/ \E w \in Worker : Reserve(w) /\ i = g'[w].id
<1>1. store \in [RunId -> Run]
  BY DEF TypeInv, TypeOK
<1>2. ASSUME NEW k \in RunId, NEW r, Change(k, r),
             store' = [store EXCEPT ![k] = r]
      PROVE  Present(i)
  <2>1. CASE k # i
    BY <1>1, <1>2, <2>1 DEF Present
  <2>2. CASE k = i
    <3>1. store'[i] = r /\ store[i] \in Run
      BY <1>1, <1>2, <2>2
    <3>2. CASE r = Taken(store[i])
      BY <3>1, <3>2 DEF Present, Taken, Run
    <3>3. CASE r = Absent
      BY <3>1, <3>3 DEF Present, Absent
    <3> QED
      BY <1>2, <2>2, <3>2, <3>3 DEF Change
  <2> QED
    BY <2>1, <2>2
<1>3. ASSUME NEW w \in Worker, Reserve(w), i # g'[w].id
      PROVE  Present(i)
  BY <1>1, <1>3, SpawnFacts DEF Present
<1>4. CASE store' = store \/ store' = [k \in RunId |-> Absent]
  BY <1>4 DEF Present, Absent
<1>5. ~Boot
  BY DEF Boot
<1> QED
  BY <1>2, <1>3, <1>4, <1>5, NextStores DEF StoreStep

(* A reserved id is fresh, or the goroutine has it from its resume.        *)
LEMMA TokenReserves ==
  ASSUME TypeInv, LaneInv, NEW w \in Worker, Reserve(w)
  PROVE  /\ Acts(w) /\ g[w].pc = "reserve" /\ g'[w].pc = "journal"
         /\ g'[w].id \in RunId
         /\ \/ g'[w].id = nextId /\ store[g'[w].id] = Absent
            \/ Token(g[w], g'[w].id)
         /\ g[w].pred # NoRun => g'[w].id = g[w].res.succ
<1>1. /\ g'[w].id = IF g[w].pred = NoRun THEN nextId ELSE g[w].id
      /\ g'[w].id \in RunId /\ g[w].pc = "reserve" /\ g'[w].pc = "journal"
  BY SpawnFacts DEF Reserve, At
<1>2. CASE g[w].pred = NoRun
  <2>1. ~Drawn(nextId, nextId)
    BY DEF TypeInv, TypeOK, Drawn
  <2> QED
    BY <1>1, <1>2, <2>1 DEF LaneInv, Consistent, InPlace, Acts, Step
<1>3. CASE g[w].pred # NoRun
  BY <1>1, <1>3, DrawnIds DEF Token, Succeeds, Acts, Step
<1> QED
  BY <1>2, <1>3, <1>1

LEMMA TokenDrawn ==
  ASSUME TypeInv, LaneInv
  PROVE  /\ \A w \in Worker, s \in RunId : Token(g[w], s) => Drawn(nextId, s)
         /\ \A p, s \in RunId : store[p].pending.succ = s => Drawn(nextId, s)
         /\ nextId \in Nat /\ ~Drawn(nextId, nextId)
<1>1. \A q : q.succ \in RunId => q # NoResume
  BY PCs DEF NoResume
<1>2. ASSUME NEW w \in Worker, NEW s \in RunId, Token(g[w], s)
      PROVE  Drawn(nextId, s)
  BY <1>2 DEF Token, LaneInv, Consistent, Carried, Heir
<1> QED
  BY <1>1, <1>2, DrawnIds DEF TypeInv, TypeOK, Drawn

LEMMA TokenKept ==
  ASSUME TypeInv, LaneInv, TokenInv, MaxCrashes = 0, [Next]_vars
  PROVE  TokenInv'
<1>1. ~Crash /\ ~Boot /\ phase # "down" /\ phase' # "down"
  <2>1. ~Crash
    BY DEF Crash, TypeInv, TypeOK
  <2>2. ~Boot /\ phase # "down"
    BY DEF TokenInv, Boot
  <2>3. CASE \E w \in Worker : Acts(w)
    BY <2>1, <2>2, <2>3, ActsAlive
  <2>4. CASE Serve \/ (\E i \in RunId : ChildExits(i)) \/ UNCHANGED vars
    BY <2>1, <2>2, <2>4 DEF Serve, ChildExits, vars, control
  <2> QED
    BY <2>1, <2>2, <2>3, <2>4, GoroutineSteps
<1>2. \A w \in Worker : g'[w] = g[w] \/ Acts(w)
  BY <1>1, GoroutineSteps
<1>3. ASSUME NEW s \in RunId, NEW w \in Worker, Token(g'[w], s), ~Token(g[w], s)
      PROVE  /\ \A v \in Worker \ {w} : ~Token(g[v], s) /\ g'[v] = g[v]
             /\ ~Present(s) /\ ~Reserve(w) /\ g'[w].pc \notin ReservedPC
             /\ \A p \in RunId : store'[p].pending.succ # s
  <2>1. Acts(w) /\ \A v \in Worker \ {w} : g'[v] = g[v]
    BY <1>2, <1>3, GoroutineSteps
  <2>2. \/ PlanResume(w) /\ s = nextId
        \/ \E i \in RunId : TakeResume(w, i) /\ store[i].pending.succ = s
    BY <1>3, <2>1, TokenFrom
  <2>3. g'[w].pc \notin ReservedPC
    BY <1>3, <2>1, TokenFrom
  <2>4. \A v \in Worker : ~Token(g[v], s)
    BY <2>2, TokenDrawn DEF TokenInv
  <2>5. ~Present(s)
    <3>1. CASE s = nextId
      <4>1. store[s] = Absent \/ Drawn(nextId, s)
        BY DEF LaneInv, Consistent, InPlace
      <4> QED
        BY <3>1, <4>1, TokenDrawn DEF Present, Absent
    <3>2. ASSUME NEW i \in RunId, store[i].pending.succ = s
          PROVE  ~Present(s)
      BY <3>2 DEF TokenInv
    <3> QED
      BY <2>2, <3>1, <3>2
  <2>6. ASSUME NEW p \in RunId, store'[p].pending.succ = s
        PROVE  FALSE
    <3>1. store[p].pending.succ = s /\ ~TakeResume(w, p)
      BY <1>1, <2>4, <2>6, TokenArmed DEF Arms
    <3>2. PICK i \in RunId : TakeResume(w, i) /\ store[i].pending.succ = s
      BY <2>2, <3>1, TokenDrawn
    <3>3. i = p
      BY <3>1, <3>2 DEF TokenInv
    <3> QED
      BY <3>1, <3>2, <3>3
  <2>7. ~Reserve(w)
    BY <2>3, TokenReserves DEF ReservedPC
  <2> QED
    BY <2>1, <2>3, <2>4, <2>5, <2>6, <2>7
<1>4. ASSUME NEW w \in Worker, Succeeds(g'[w]), g'[w].pc \in ReservedPC
      PROVE  g'[w].id = g'[w].res.succ
  <2>1. CASE g'[w] = g[w]
    BY <1>4, <2>1 DEF TokenInv
  <2>2. CASE Acts(w)
    <3> DEFINE s == g'[w].res.succ
    <3>1. Token(g'[w], s)
      BY <1>4 DEF Token
    <3>2. /\ Token(g[w], s)
          /\ \/ g[w].pc \in ReservedPC /\ g'[w].id = g[w].id
             \/ Reserve(w) /\ g'[w].id = g[w].id
      <4> HIDE DEF s
      <4> QED
        BY <1>4, <2>2, <3>1, TokenFrom
    <3>3. g[w].res.succ = s
      BY <3>2 DEF Token
    <3>4. CASE g[w].pc \in ReservedPC /\ g'[w].id = g[w].id
      <4>1. Succeeds(g[w])
        BY <3>2, <3>4 DEF Token, Fires, ReservedPC
      <4> QED
        BY <3>3, <3>4, <4>1 DEF TokenInv
    <3>5. CASE Reserve(w)
      <4>1. g[w].pred # NoRun
        BY <3>2, <3>5 DEF Token, Fires, Succeeds, Reserve, At
      <4> QED
        BY <3>3, <3>5, <4>1, TokenReserves
    <3> QED
      BY <3>2, <3>4, <3>5
  <2> QED
    BY <1>2, <2>1, <2>2
<1>5. ASSUME NEW s \in RunId, NEW p \in RunId, store'[p].pending.succ = s,
             store[p].pending.succ # s
      PROVE  /\ \A q \in RunId \ {p} : store'[q].pending.succ # s
             /\ ~Present(s) /\ \A w \in Worker : ~Reserve(w)
             /\ \A w \in Worker : ~Token(g'[w], s)
  <2>1. PICK w \in Worker : Arms(w, p, s)
    BY <1>1, <1>5, TokenArmed
  <2>2. \A v \in Worker \ {w} : g'[v] = g[v] /\ ~Token(g[v], s)
    BY <2>1, GoroutineSteps DEF TokenInv, Arms
  <2>3. ASSUME NEW q \in RunId \ {p}, store'[q].pending.succ = s
        PROVE  FALSE
    <3>1. store[q].pending.succ # s
      BY <2>1 DEF TokenInv, Arms
    <3>2. PICK v \in Worker : Arms(v, q, s)
      BY <1>1, <2>3, <3>1, TokenArmed
    <3> QED
      BY <2>1, <2>2, <2>3, <3>2 DEF Arms
  <2>4. ~Present(s)
    BY <2>1 DEF TokenInv, Arms, ReservedPC
  <2>5. ASSUME NEW v \in Worker, Reserve(v) PROVE FALSE
    <3>1. g[v].pc = "reserve" /\ g'[v].pc = "journal"
      BY <2>5, TokenReserves
    <3> QED
      BY <2>1, <2>2, <3>1 DEF Arms
  <2>6. \A v \in Worker : ~Token(g'[v], s)
    BY <2>1, <2>2 DEF Arms
  <2> QED
    BY <2>3, <2>4, <2>5, <2>6
<1>6. ASSUME NEW s \in RunId, NEW v \in Worker, NEW w \in Worker,
             Token(g'[v], s), Token(g'[w], s)
      PROVE  v = w
  BY <1>3, <1>6 DEF TokenInv
<1>7. ASSUME NEW s \in RunId, NEW p \in RunId, NEW q \in RunId,
             store'[p].pending.succ = s, store'[q].pending.succ = s
      PROVE  p = q
  BY <1>5, <1>7 DEF TokenInv
<1>8. ASSUME NEW s \in RunId, NEW p \in RunId, NEW w \in Worker,
             store'[p].pending.succ = s, Token(g'[w], s)
      PROVE  FALSE
  BY <1>3, <1>5, <1>8 DEF TokenInv
<1>9. ASSUME NEW s \in RunId, Present(s)', ~Present(s)
      PROVE  /\ \A p \in RunId : store'[p].pending.succ # s
             /\ \A w \in Worker : Token(g'[w], s) => g'[w].pc \in ReservedPC
  <2>1. PICK v \in Worker : Reserve(v) /\ s = g'[v].id
    BY <1>1, <1>9, TokenPresent
  <2>2. \/ s = nextId
        \/ Token(g[v], s)
    BY <2>1, TokenReserves
  <2>3. \A p \in RunId : store[p].pending.succ # s
    BY <2>2, TokenDrawn DEF TokenInv
  <2>4. \A w \in Worker \ {v} : ~Token(g[w], s)
    BY <2>2, TokenDrawn DEF TokenInv
  <2>5. g'[v].pc \in ReservedPC
    BY <2>1, TokenReserves DEF ReservedPC
  <2>6. ASSUME NEW p \in RunId, store'[p].pending.succ = s PROVE FALSE
    BY <1>5, <2>1, <2>3, <2>6
  <2>7. ASSUME NEW w \in Worker, Token(g'[w], s), w # v PROVE FALSE
    <3>1. g'[w] = g[w]
      BY <2>1, <2>7, TokenReserves, GoroutineSteps
    <3> QED
      BY <2>4, <2>7, <3>1
  <2> QED
    BY <2>5, <2>6, <2>7
<1>10. ASSUME NEW s \in RunId, NEW p \in RunId, store'[p].pending.succ = s
       PROVE  ~Present(s)'
  BY <1>5, <1>9, <1>10 DEF TokenInv
<1>11. ASSUME NEW s \in RunId, NEW w \in Worker, Token(g'[w], s),
              g'[w].pc \notin ReservedPC
       PROVE  ~Present(s)'
  <2>1. CASE Token(g[w], s) /\ g[w].pc \in ReservedPC
    <3>1. g'[w] # g[w]
      BY <1>11, <2>1
    <3>2. store' = [store EXCEPT ![g[w].id] = Absent]
      <4>1. Acts(w)
        BY <1>2, <3>1
      <4>2. g[w].pc # "plan" /\ g[w].pc # "idle"
        BY <2>1 DEF ReservedPC
      <4>3. ~PlanResume(w) /\ \A i \in RunId : ~TakeResume(w, i)
        BY <4>2 DEF PlanResume, TakeResume, At
      <4> QED
        BY <1>11, <2>1, <4>1, <4>3, TokenFrom
    <3>3. g[w].id = s
      BY <2>1 DEF TokenInv, Token, Fires, ReservedPC
    <3> QED
      BY <3>2, <3>3 DEF Present, Absent, TypeInv, TypeOK
  <2>2. CASE Token(g[w], s) /\ g[w].pc \notin ReservedPC
    BY <1>9, <1>11, <2>2 DEF TokenInv
  <2>3. CASE ~Token(g[w], s)
    BY <1>3, <1>9, <1>11, <2>3
  <2> QED
    BY <2>1, <2>2, <2>3
<1>12. \A s \in RunId :
         /\ \A p, q \in RunId : store'[p].pending.succ = s
                                 /\ store'[q].pending.succ = s => p = q
         /\ \A v, w \in Worker : Token(g'[v], s) /\ Token(g'[w], s) => v = w
         /\ \A p \in RunId : store'[p].pending.succ = s
                              => /\ ~Present(s)'
                                 /\ \A w \in Worker : ~Token(g'[w], s)
         /\ \A w \in Worker : Token(g'[w], s) /\ g'[w].pc \notin ReservedPC
                               => ~Present(s)'
  BY <1>6, <1>7, <1>8, <1>10, <1>11
<1>13. \A w \in Worker : Succeeds(g'[w]) /\ g'[w].pc \in ReservedPC
                         => g'[w].id = g'[w].res.succ
  BY <1>4
<1> QED
  BY <1>1, <1>12, <1>13 DEF TokenInv

LEMMA TokenInit == Init => TokenInv
<1> SUFFICES ASSUME Init PROVE TokenInv
  OBVIOUS
<1>1. /\ \A i \in RunId : store[i] = Absent
      /\ \A w \in Worker : g[w] = Idle
      /\ phase = "up"
  BY DEF Init
<1>2. /\ Absent.pending = NoResume /\ NoResume.succ = NoRun
      /\ \A i \in RunId : i # NoRun
  BY PCs DEF Absent, NoResume
<1>3. ~Succeeds(Idle) /\ \A s : ~Token(Idle, s)
  BY DEF Idle, Token, Fires, Succeeds
<1> QED
  BY <1>1, <1>2, <1>3 DEF TokenInv

(* Without a crash a successor is reserved over no run.                    *)
LEMMA TokenStatus ==
  ASSUME TypeInv, LaneInv, TokenInv, MaxCrashes = 0, [Next]_vars,
         NEW i \in RunId, Terminal(store[i])
  PROVE  store'[i].status \in {store[i].status, "absent"}
<1>1. store \in [RunId -> Run] /\ store[i].status \in {"done", "error"}
  BY DEF TypeInv, TypeOK, Terminal
<1>2. ASSUME NEW k \in RunId, NEW r, Change(k, r),
             store' = [store EXCEPT ![k] = r]
      PROVE  store'[i].status \in {store[i].status, "absent"}
  <2>1. CASE k # i
    BY <1>1, <1>2, <2>1
  <2>2. CASE k = i
    <3>1. store'[i] = r /\ store[i] \in Run
      BY <1>1, <1>2, <2>2
    <3>2. CASE r \in Revised(store[i])
      BY <1>1, <3>1, <3>2 DEF Revised, Finalized, Hidden, Run
    <3>3. CASE r = Absent
      BY <3>1, <3>3 DEF Absent
    <3>4. CASE r # Absent /\ r \notin Revised(store[i])
      <4>1. \E p : r = [store[i] EXCEPT !.pending = p]
        BY <1>2, <2>2, <3>4 DEF Change, Taken
      <4> QED
        BY <3>1, <4>1 DEF Run
    <3> QED
      BY <3>2, <3>3, <3>4
  <2> QED
    BY <2>1, <2>2
<1>3. ASSUME NEW w \in Worker, Reserve(w)
      PROVE  store'[i] = store[i]
  <2>1. /\ g'[w].id \in RunId
        /\ store' = [store EXCEPT ![g'[w].id] = g[w].rec]
    BY <1>3, SpawnFacts
  <2>2. ~Present(g'[w].id)
    <3>1. CASE store[g'[w].id] = Absent
      BY <3>1 DEF Present, Absent
    <3>2. CASE Token(g[w], g'[w].id) /\ g[w].pc = "reserve"
      BY <2>1, <3>2 DEF TokenInv, ReservedPC
    <3> QED
      BY <1>3, <3>1, <3>2, TokenReserves
  <2> QED
    BY <1>1, <2>1, <2>2 DEF Present
<1>4. ~Boot /\ ~Crash
  BY DEF Boot, Crash, TokenInv, TypeInv, TypeOK
<1> QED
  BY <1>1, <1>2, <1>3, <1>4, NextStores DEF StoreStep

(* First write wins: a serving backend never revises the outcome of a run, *)
(* whichever of its exit, a stop and a resume under its id comes last, if  *)
(* the backend does not crash or its writes and spawns succeed.            *)
THEOREM StatusesFinal ==
  ASSUME Reliable \/ MaxCrashes = 0
  PROVE  Spec => StatusFinal
<1> DEFINE Final == \A i \in RunId :
                      phase # "down" /\ phase' # "down" /\ Terminal(store[i])
                        => store'[i].status \in {store[i].status, "absent"}
<1>1. CASE Reliable
  <2>1. TypeInv /\ LaneInv /\ OnceInv /\ [Next]_vars => [Final]_vars
    <3> SUFFICES ASSUME TypeInv, LaneInv, OnceInv, [Next]_vars,
                        NEW i \in RunId, phase # "down", phase' # "down",
                        Terminal(store[i])
                 PROVE  store'[i].status \in {store[i].status, "absent"}
      OBVIOUS
    <3>1. ~Crash /\ ~Boot /\ Present(i)
      BY DEF Crash, Boot, Terminal, Present
    <3> QED
      BY <1>1, <3>1, StatusKept DEF OnceInv
  <2> QED
    BY <1>1, <2>1, OnceHolds, PTL DEF Spec, StatusFinal
<1>2. CASE MaxCrashes = 0
  <2>1. Init => TypeInv /\ LaneInv /\ TokenInv
    BY InitType, InitLane, TokenInit
  <2>2. TypeInv /\ LaneInv /\ TokenInv /\ [Next]_vars
          => (TypeInv /\ LaneInv /\ TokenInv)'
    BY <1>2, NextType, NextLane, TokenKept
  <2>3. TypeInv /\ LaneInv /\ TokenInv /\ [Next]_vars => [Final]_vars
    BY <1>2, TokenStatus
  <2> QED
    BY <2>1, <2>2, <2>3, PTL DEF Spec, StatusFinal
<1> QED
  BY <1>1, <1>2

-----------------------------------------------------------------------------
(* Of the agents that live on a lane, one is in charge.                    *)

(* The record of a run whose agent is being brought up, or is awaited,     *)
(* says running unless the run was stopped, and has no pid before the      *)
(* agent is awaited; a record that is about to be written over that of a   *)
(* living agent has none.                                                  *)
ChargeFor(l) ==
  /\ l.pc \in {"stopsignal", "stopfinalize"} => l.id \in stopped
  /\ Spawns(l) =>
       /\ l.id \notin loaded
       /\ l.id \in stopped \/ (Running(l.id) /\ ~journal[l.id].pid)
  /\ l.pc \in {"reserve", "journal", "spawn", "setpid"} => ~l.rec.pid
  /\ l.pc \in {"journal", "spawn", "setpid"} => ~store[l.id].pid
  /\ l.pc = "finalize" => l.id \in stopped \/ Running(l.id)
  /\ l.pc = "write" /\ l.id \in alive => l.id \in stopped \/ ~l.rec.pid

(* An agent that lives and was not stopped is awaited as soon as its pid   *)
(* is journaled, and its pid is in the store only from then on or just     *)
(* before.                                                                 *)
ChargeInv ==
  /\ \A w \in Worker : ChargeFor(g[w])
  /\ \A i \in RunId :
       /\ Expected(i) => i \in stopped \/ Running(i)
       /\ i \in alive /\ i \notin stopped =>
            /\ journal[i].pid => /\ journal[i].status = "running"
                                 /\ phase # "down" => i \in waiting
            /\ \/ i \in waiting \/ ~store[i].pid
               \/ \E w \in Worker : g[w].id = i /\ g[w].pc = "journalpid"

(* How a goroutine comes to the points that matter here.                   *)
LEMMA PointsFrom ==
  ASSUME TypeInv, LaneInv, PresenceInv, Reliable, NEW w \in Worker, Acts(w)
  PROVE  \/ g'[w] = g[w]
         \/ /\ g'[w].pc \in {"stopsignal", "stopfinalize"} =>
                 /\ g'[w].id = g[w].id
                 /\ StopMark(w) \/ g[w].pc = "stopsignal"
            /\ g'[w].pc = "finalize" => \E i \in RunId : /\ Begins(w, i)
                                                         /\ g'[w].id = i
            /\ g'[w].pc = "write" =>
                 /\ g[w].pc \in {"snap", "get"} /\ g'[w].id = g[w].id
                 /\ g'[w].rec = store[g[w].id]
            /\ g'[w].pc \in {"reserve", "journal", "spawn", "setpid"} =>
                 \/ ~g'[w].rec.pid
                 \/ /\ g'[w].rec = g[w].rec
                    /\ g[w].pc \in {"reserve", "journal", "spawn"}
            /\ g'[w].pc \in {"journal", "spawn", "setpid"} =>
                 \/ Reserve(w) /\ g'[w].pc = "journal"
                 \/ g'[w].id = g[w].id /\ g[w].pc \in {"journal", "spawn"}
<1> DEFINE Goal ==
      \/ g'[w] = g[w]
      \/ /\ g'[w].pc \in {"stopsignal", "stopfinalize"} =>
              /\ g'[w].id = g[w].id
              /\ StopMark(w) \/ g[w].pc = "stopsignal"
         /\ g'[w].pc = "finalize" => \E i \in RunId : /\ Begins(w, i)
                                                      /\ g'[w].id = i
         /\ g'[w].pc = "write" =>
              /\ g[w].pc \in {"snap", "get"} /\ g'[w].id = g[w].id
              /\ g'[w].rec = store[g[w].id]
         /\ g'[w].pc \in {"reserve", "journal", "spawn", "setpid"} =>
              \/ ~g'[w].rec.pid
              \/ /\ g'[w].rec = g[w].rec
                 /\ g[w].pc \in {"reserve", "journal", "spawn"}
         /\ g'[w].pc \in {"journal", "spawn", "setpid"} =>
              \/ Reserve(w) /\ g'[w].pc = "journal"
              \/ g'[w].id = g[w].id /\ g[w].pc \in {"journal", "spawn"}
<1> SUFFICES Goal
  OBVIOUS
<1>1. ASSUME g'[w].pc \notin {"stopsignal", "stopfinalize", "finalize", "write",
                              "reserve", "journal", "spawn", "setpid"}
      PROVE  Goal
  BY <1>1
<1>2. g'[w] = Idle => Goal
  BY <1>1, IdleHolds
<1>3. CASE Snap(w)
  <2>1. g[w].pc = "snap" /\ Present(g[w].id)
    BY <1>3 DEF Snap, At, PresenceInv, PresentFor
  <2>2. g'[w].pc = "write" /\ g'[w].id = g[w].id /\ g'[w].rec = store[g[w].id]
    BY <1>3, <2>1, WriteFacts DEF Present
  <2> QED
    BY <2>1, <2>2
<1>4. CASE Write(w)
  <2>1. g[w].next \in AfterJournal
    BY LocalFacts DEF Local
  <2>2. g'[w] = Idle \/ g'[w].pc = g[w].next
    BY <1>4, WriteFacts DEF Moves
  <2> QED
    BY <1>1, <1>2, <2>1, <2>2 DEF AfterJournal
<1>5. CASE Reserve(w)
  <2>1. g'[w].pc = "journal" /\ g'[w].rec = g[w].rec /\ g[w].pc = "reserve"
    BY <1>5, SpawnFacts DEF Reserve, At
  <2> QED
    BY <1>5, <2>1
<1>6. CASE JournalRun(w) \/ SpawnChild(w)
  <2>1. /\ g'[w].pc \in {"spawn", "setpid"} /\ g[w].pc \in {"journal", "spawn"}
        /\ g'[w].rec = g[w].rec /\ g'[w].id = g[w].id
    BY <1>6, SpawnFacts DEF JournalRun, SpawnChild, At, Moves
  <2> QED
    BY <2>1
<1>7. CASE \/ Unwritable(w) \/ Adopt(w) \/ SpawnError(w) \/ SetPid(w)
           \/ JournalPid(w) \/ RecordIdem(w)
  <2>1. g'[w] = Idle \/ g'[w].pc \in {"rearm", "record", "journalpid"}
    BY <1>7, SpawnFacts DEF Moves
  <2> QED
    BY <1>1, <1>2, <2>1
<1>8. CASE \/ Finalize(w) \/ ClaimPush(w) \/ StartPush(w) \/ PlanResume(w)
           \/ ScheduleResume(w) \/ EndFinalizing(w)
  <2>1. \/ g'[w] = Idle
        \/ g'[w].pc \in {"get", "end", "snap", "plan", "schedule"}
    BY <1>8, EndFacts DEF Moves, Rejournals, Plans
  <2> QED
    BY <1>1, <1>2, <2>1
<1>9. CASE GetFinalized(w)
  <2>1. /\ g'[w].pc = "write" /\ g'[w].id = g[w].id
        /\ g'[w].rec = store[g[w].id] /\ g[w].pc = "get"
    BY <1>9, WriteFacts DEF GetFinalized, At
  <2> QED
    BY <2>1
<1>10. CASE BuildSuccessor(w) \/ Rearm(w)
  <2>1. \/ g'[w] = Idle \/ g'[w].pc = "snap"
        \/ g'[w].pc = "reserve" /\ ~g'[w].rec.pid
    BY <1>10, FireFacts
  <2> QED
    BY <1>1, <1>2, <2>1
<1>11. CASE StopMark(w) \/ StopSignal(w)
  <2>1. /\ g'[w].pc \in {"stopsignal", "stopfinalize"}
        /\ g'[w].id = g[w].id
        /\ StopMark(w) \/ g[w].pc = "stopsignal"
    BY <1>11, StopFacts DEF Moves, StopSignal, At
  <2> QED
    BY <2>1
<1>12. CASE StopFinalize(w) \/ StopCancel(w)
  <2>1. g'[w].pc = "snap"
    BY <1>12, StopFacts DEF Moves, Rejournals
  <2> QED
    BY <1>1, <2>1
<1>13. CASE Request(w)
  <2>1. \/ g'[w].pc = "reserve" /\ ~g'[w].rec.pid
        \/ g'[w].pc \in {"stopmark", "stopcancel"}
    BY <1>13, StartFacts, StopFacts, DrawnIds DEF Request, Posts
  <2> QED
    BY <1>1, <2>1
<1>14. ASSUME NEW i \in RunId,
              ObserveExit(w, i) \/ TakeResume(w, i) \/ RouteSurvivor(w, i)
       PROVE  Goal
  <2>1. \/ Running(i) /\ g'[w].pc = "finalize" /\ g'[w].id = i
        \/ g'[w] = g[w] \/ g'[w].pc = "snap"
    BY <1>14, StartFacts, FireFacts, DrawnIds
  <2>2. CASE g'[w].pc = "finalize" /\ Running(i) /\ g'[w].id = i
    <3>1. ~TakeResume(w, i)
      BY <2>2, FireFacts
    <3>2. Begins(w, i)
      BY <1>14, <2>2, <3>1 DEF Begins
    <3> QED
      BY <2>2, <3>2
  <2> QED
    BY <1>1, <2>1, <2>2
<1> HIDE DEF Goal
<1> QED
  BY <1>3, <1>4, <1>5, <1>6, <1>7, <1>8, <1>9, <1>10, <1>11, <1>12, <1>13,
     <1>14 DEF Acts, Step

(* A stop is for good; only a boot loads runs; a wait ends with the exit.  *)
LEMMA MarksStay ==
  ASSUME TypeInv, [Next]_vars
  PROVE  /\ stopped \subseteq stopped'
         /\ \A w \in Worker : StopMark(w) \/ StopCancel(w) => g[w].id \in stopped'
         /\ ~Boot => loaded' \subseteq loaded
         /\ ~Boot /\ ~Crash => waiting \cap alive \subseteq waiting'
<1>1. ASSUME NEW w \in Worker, Step(w)
      PROVE  /\ stopped \subseteq stopped' /\ loaded' \subseteq loaded
             /\ waiting \subseteq waiting'
  <2>1. CASE StopMark(w) \/ StopCancel(w) \/ Reserve(w) \/ JournalPid(w)
    BY <2>1 DEF StopMark, StopCancel, Reserve, JournalPid, Awaited, control,
                history
  <2> QED
    BY <1>1, <2>1
    DEF Step, Snap, Write, Unwritable, Adopt, JournalRun, SpawnChild,
        SpawnError, SetPid, RecordIdem, Finalize, GetFinalized, ClaimPush,
        StartPush, PlanResume, ScheduleResume, EndFinalizing, BuildSuccessor,
        Rearm, StopSignal, StopFinalize, control, history
<1>2. ASSUME NEW w \in Worker, Request(w)
      PROVE  stopped' = stopped /\ loaded' = loaded /\ waiting' = waiting
  BY <1>2 DEF Request, PostBuild, StopBegin, control, history
<1>3. ASSUME NEW w \in Worker, NEW i \in RunId,
             ObserveExit(w, i) \/ TakeResume(w, i) \/ RouteSurvivor(w, i)
      PROVE  /\ stopped' = stopped /\ loaded' = loaded
             /\ waiting \cap alive \subseteq waiting'
  BY <1>3 DEF ObserveExit, ChildGone, TakeResume, RouteSurvivor, control, history
<1>4. ASSUME \/ \E i \in RunId : ChildExits(i)
             \/ Serve \/ UNCHANGED vars
      PROVE  stopped' = stopped /\ loaded' = loaded /\ waiting' = waiting
  BY <1>4 DEF ChildExits, Serve, vars, control, history
<1>5. Crash => stopped' = stopped /\ loaded' = {}
  BY DEF Crash, history
<1>6. Boot => stopped' = stopped
  BY DEF Boot, history
<1>7. \A w \in Worker : StopMark(w) \/ StopCancel(w) => g[w].id \in stopped'
  BY DEF StopMark, StopCancel
<1> QED
  BY <1>1, <1>2, <1>3, <1>4, <1>5, <1>6, <1>7 DEF Next

(* Where a pid in the store comes from.                                    *)
LEMMA PidFrom ==
  ASSUME TypeInv, LaneInv, FreshInv, Reliable, [Next]_vars, ~Crash, ~Boot,
         NEW i \in RunId, store'[i].pid
  PROVE  \/ store[i].pid
         \/ \E w \in Worker : SetPid(w) /\ g[w].id = i
         \/ \E w \in Worker : Reserve(w) /\ g'[w].id = i /\ g[w].rec.pid
<1>1. store \in [RunId -> Run]
  BY DEF TypeInv, TypeOK
<1>2. CASE Present(i)
  BY <1>2, EntryStays
<1>3. ASSUME NEW k \in RunId, NEW r, Change(k, r), ~Present(i),
             store' = [store EXCEPT ![k] = r]
      PROVE  store[i].pid
  <2>1. CASE k # i
    BY <1>1, <1>3, <2>1
  <2>2. CASE k = i
    <3>1. store'[i] = r /\ store[i] \in Run
      BY <1>1, <1>3, <2>2
    <3>2. r = Taken(store[i])
      BY <1>3, <2>2 DEF Change, Reliable
    <3> QED
      BY <3>1, <3>2 DEF Taken, Run
  <2> QED
    BY <2>1, <2>2
<1>4. ASSUME NEW w \in Worker, Reserve(w)
      PROVE  store[i].pid \/ (g'[w].id = i /\ g[w].rec.pid)
  <2>1. /\ g'[w].id \in RunId
        /\ store' = [store EXCEPT ![g'[w].id] = g[w].rec]
    BY <1>4, SpawnFacts
  <2> QED
    BY <1>1, <2>1
<1> QED
  BY <1>2, <1>3, <1>4, NextStores DEF StoreStep

(* A run that ended in the store, and was not stopped, is not awaited, not *)
(* to be routed, and not being brought up.                                 *)
LEMMA EndedApart ==
  ASSUME ChargeInv, NEW i \in RunId, Terminal(store[i]), i \notin stopped
  PROVE  ~Expected(i) /\ \A w \in Worker : g[w].id = i => ~Spawns(g[w])
<1>1. ~Running(i)
  BY DEF Terminal, Running
<1> QED
  BY <1>1 DEF ChargeInv, ChargeFor

(* The journal of a run that lives and was not stopped gets a pid by the   *)
(* record that follows its spawn.                                          *)
LEMMA JournaledFrom ==
  ASSUME TypeInv, LaneInv, PresenceInv, ChargeInv, Reliable, [Next]_vars,
         NEW i \in RunId, i \in alive \/ (\E w \in Worker : Turn(g[w], i)
                                                  /\ Running(i)),
         i \notin stopped, journal'[i].pid
  PROVE  \/ journal'[i] = journal[i]
         \/ \E w \in Worker : /\ JournalPid(w) /\ g[w].id = i
                              /\ journal' = [journal EXCEPT ![i] = Durable(g[w].rec)]
                              /\ g[w].rec \in Run /\ g[w].rec.status = "running"
<1>1. \A w \in Worker : /\ g[w].rec \in Run /\ ChargeFor(g[w])
                        /\ PresentFor(g[w])
  BY LocalFacts DEF ChargeInv, PresenceInv
<1>2. ASSUME NEW w \in Worker, i = g[w].id,
             Write(w) \/ JournalRun(w) \/ JournalPid(w),
             journal'[i] = Durable(g[w].rec)
      PROVE  JournalPid(w)
  <2>1. g[w].rec.pid
    BY <1>1, <1>2 DEF Durable, Run
  <2>2. ~JournalRun(w)
    BY <1>1, <2>1 DEF JournalRun, At, ChargeFor
  <2>3. CASE Write(w)
    <3>1. g[w].pc = "write" /\ Terminal(store[i])
      BY <1>1, <1>2, <2>3 DEF Write, At, PresentFor, Settling
    <3>2. i \in alive
      BY <3>1 DEF Terminal, Running
    <3> QED
      BY <1>1, <1>2, <2>1, <3>1, <3>2 DEF ChargeFor
  <2> QED
    BY <1>2, <2>2, <2>3
<1>3. ASSUME NEW w \in Worker, i = g[w].id, JournalPid(w)
      PROVE  /\ journal' = [journal EXCEPT ![i] = Durable(g[w].rec)]
             /\ g[w].rec.status = "running"
  BY <1>1, <1>3, SpawnFacts, JournalPidTurn DEF PresentFor, Spawns, SpawnPC
<1>4. journal'[i] # Absent
  BY DEF Absent
<1> QED
  BY <1>1, <1>2, <1>3, <1>4, NextJournals DEF JournalStep

(* A run that runs and was not stopped keeps running until its turn ends   *)
(* it.                                                                     *)
LEMMA RunsOn ==
  ASSUME TypeInv, LaneInv, FreshInv, ChargeInv, Reliable, [Next]_vars,
         ~Crash, ~Boot, NEW i \in RunId, Running(i), i \notin stopped,
         \A w \in Worker : Finalize(w) => g[w].id # i
  PROVE  Running(i)'
<1>1. Present(i)
  BY DEF Present, Running
<1>2. ASSUME NEW w \in Worker, StopFinalize(w) PROVE g[w].id # i
  BY <1>2 DEF ChargeInv, ChargeFor, StopFinalize, At
<1> QED
  BY <1>1, <1>2, EntryStays DEF Running

LEMMA ChargeStops ==
  ASSUME TypeInv, LaneInv, PresenceInv, TurnInv, FreshInv, ChargeInv, Reliable,
         [Next]_vars, NEW w \in Worker, NEW i \in RunId, i = g'[w].id
  PROVE  /\ g'[w].pc \in {"stopsignal", "stopfinalize"} => i \in stopped'
         /\ g'[w].pc = "finalize" => i \in stopped' \/ Running(i)'
<1>1. ASSUME g'[w].pc \in {"stopsignal", "stopfinalize"}
      PROVE  i \in stopped'
  <2>1. CASE g'[w] = g[w]
    BY <1>1, <2>1, MarksStay DEF ChargeInv, ChargeFor
  <2>2. CASE Acts(w) /\ g'[w] # g[w]
    <3>1. /\ g'[w].id = g[w].id
          /\ StopMark(w) \/ g[w].pc = "stopsignal"
      BY <1>1, <2>2, PointsFrom
    <3> QED
      BY <3>1, MarksStay DEF ChargeInv, ChargeFor
  <2> QED
    BY <1>1, <2>1, <2>2, GoroutineSteps, IdleHolds
<1>2. ASSUME g'[w].pc = "finalize"
      PROVE  i \in stopped' \/ Running(i)'
  <2>1. CASE g'[w] = g[w]
    <3>1. (i \in stopped \/ Running(i)) /\ Turn(g[w], i)
      BY <1>2, <2>1 DEF ChargeInv, ChargeFor, Turn, Ends, EndPC
    <3>2. ~Crash /\ ~Boot
      BY <1>2, <2>1, DrawnIds, IdleHolds DEF Crash, Boot
    <3>3. ASSUME NEW v \in Worker, Finalize(v), g[v].id = i PROVE FALSE
      <4>1. Turn(g[v], i) /\ g'[v].pc # "finalize"
        BY <3>3, EndFacts DEF Finalize, At, Turn, Ends, EndPC, Moves
      <4> QED
        BY <1>2, <3>1, <4>1 DEF TurnInv
    <3> QED
      BY <3>1, <3>2, <3>3, RunsOn, MarksStay
  <2>2. CASE Acts(w) /\ g'[w] # g[w]
    <3>1. PICK k \in RunId : Begins(w, k) /\ i = k
      BY <1>2, <2>2, PointsFrom
    <3>2. /\ store' = [store EXCEPT ![k] = Hidden(store[k])]
          /\ store \in [RunId -> Run]
      BY <2>2, <3>1, StartFacts, DrawnIds DEF Begins, TypeInv, TypeOK
    <3>3. Running(k)'
      BY <3>1, <3>2 DEF Begins, Running, Hidden, Run
    <3> QED
      BY <3>1, <3>3
  <2> QED
    BY <1>2, <2>1, <2>2, GoroutineSteps, IdleHolds
<1> QED
  BY <1>1, <1>2

LEMMA ChargeSpawns ==
  ASSUME TypeInv, LaneInv, PresenceInv, TurnInv, FreshInv, ChargeInv, Reliable,
         [Next]_vars, NEW w \in Worker, Spawns(g'[w]),
         NEW i \in RunId, i = g'[w].id
  PROVE  /\ i \notin loaded'
         /\ i \in stopped' \/ (Running(i) /\ ~journal[i].pid)'
<1>1. g'[w] # Idle /\ Turn(g'[w], i)
  <2>1. g'[w] # Idle
    BY IdleHolds
  <2> QED
    BY <2>1 DEF Turn
<1>2. CASE Reserve(w)
  <2>1. /\ store' = [store EXCEPT ![i] = g[w].rec] /\ loaded' = loaded \ {i}
        /\ g[w].rec.status = "running" /\ journal' = journal
    BY <1>2, SpawnFacts DEF Reserve, At, PresenceInv, PresentFor
  <2>2. journal[i] = Absent
    BY <1>2, ReservesUnused DEF Unused
  <2> QED
    BY <1>1, <2>1, <2>2 DEF Running, Absent, TypeInv, TypeOK
<1>3. CASE Turn(g[w], i) /\ Spawns(g[w])
  <2>1. i \notin loaded /\ (i \in stopped \/ (Running(i) /\ ~journal[i].pid))
    BY <1>3 DEF ChargeInv, ChargeFor, Turn
  <2>2. ~Crash /\ ~Boot
    BY <1>1, <1>3, DrawnIds, IdleHolds DEF Crash, Boot
  <2>3. ASSUME i \notin stopped PROVE Running(i)'
    <3>1. ASSUME NEW v \in Worker, Finalize(v), g[v].id = i PROVE FALSE
      <4>1. Turn(g[v], i) /\ ~Spawns(g[v])
        BY <3>1 DEF Finalize, At, Turn, Ends, EndPC, Spawns, SpawnPC
      <4> QED
        BY <1>1, <1>3, <4>1 DEF TurnInv
    <3> QED
      BY <1>1, <2>1, <2>2, <2>3, <3>1, RunsOn
  <2>4. ASSUME i \notin stopped, journal'[i].pid PROVE FALSE
    <3>1. PICK v \in Worker : JournalPid(v) /\ g[v].id = i
      BY <1>1, <1>3, <2>1, <2>4, JournaledFrom
    <3>2. v = w
      BY <1>1, <1>3, <3>1, JournalPidTurn DEF TurnInv
    <3> QED
      BY <1>1, <3>1, <3>2, JournalPidTurn
  <2> QED
    BY <2>1, <2>2, <2>3, <2>4, MarksStay
<1>4. CASE g'[w] = g[w]
  BY <1>1, <1>3, <1>4
<1>5. ~Begins(w, i) \/ g'[w].pc # "finalize"
  BY DEF Spawns, SpawnPC
<1> QED
  BY <1>1, <1>2, <1>3, <1>4, <1>5, GoroutineSteps, TurnFrom

LEMMA ChargeRecords ==
  ASSUME TypeInv, LaneInv, PresenceInv, TurnInv, FreshInv, ChargeInv, Reliable,
         [Next]_vars, NEW w \in Worker
  PROVE  /\ g'[w].pc \in {"reserve", "journal", "spawn", "setpid"}
              => ~g'[w].rec.pid
         /\ g'[w].pc \in {"journal", "spawn", "setpid"}
              => ~store'[g'[w].id].pid
         /\ g'[w].pc = "write" /\ g'[w].id \in alive'
              => g'[w].id \in stopped' \/ ~g'[w].rec.pid
<1> DEFINE i == g'[w].id
<1>1. g'[w] = g[w] \/ g'[w] = Idle \/ (Acts(w) /\ g'[w] # g[w])
  BY GoroutineSteps
<1>2. ASSUME g'[w].pc \in {"reserve", "journal", "spawn", "setpid"}
      PROVE  ~g'[w].rec.pid
  BY <1>1, <1>2, PointsFrom, IdleHolds DEF ChargeInv, ChargeFor
<1>3. ASSUME g'[w].pc \in {"journal", "spawn", "setpid"}
      PROVE  ~store'[i].pid
  <2>1. i \in RunId /\ Turn(g'[w], i) /\ g'[w] # Idle
    <3>1. g'[w] # Idle
      BY <1>3, IdleHolds
    <3> QED
      BY <1>3, <3>1, IdsDrawnNext DEF Turn, Spawns, SpawnPC
  <2>2. CASE Reserve(w)
    <3>1. store' = [store EXCEPT ![i] = g[w].rec] /\ ~g[w].rec.pid
      BY <2>2, SpawnFacts DEF Reserve, At, ChargeInv, ChargeFor
    <3> QED
      BY <2>1, <3>1 DEF TypeInv, TypeOK
  <2>3. CASE g[w].pc \in {"journal", "spawn", "setpid"} /\ g[w].id = i
             /\ (g'[w] = g[w] \/ g[w].pc # "setpid")
    <3>1. ~store[i].pid /\ Turn(g[w], i) /\ Present(i)
      BY <2>1, <2>3, TurnPresent
      DEF ChargeInv, ChargeFor, Turn, Spawns, SpawnPC
    <3>2. ~Crash /\ ~Boot
      BY <2>1, <2>3, DrawnIds, IdleHolds DEF Crash, Boot
    <3>3. ASSUME NEW v \in Worker, SetPid(v), g[v].id = i PROVE FALSE
      <4>1. Turn(g[v], i) /\ g[v].pc = "setpid" /\ g'[v].pc = "journalpid"
        BY <3>3, SpawnFacts DEF SetPid, At, Turn, Spawns, SpawnPC
      <4> QED
        BY <1>3, <2>1, <3>1, <4>1 DEF TurnInv
    <3> QED
      BY <2>1, <3>1, <3>2, <3>3, EntryStays
  <2> QED
    BY <1>1, <1>3, <2>1, <2>2, <2>3, PointsFrom
<1>4. ASSUME g'[w].pc = "write", i \in alive'
      PROVE  i \in stopped' \/ ~g'[w].rec.pid
  <2>1. i = g[w].id /\ i \in RunId /\ Terminal(store[i])
    <3>1. /\ g[w].pc \in {"snap", "get", "write"} /\ g'[w].id = g[w].id
      BY <1>1, <1>4, PointsFrom, IdleHolds
    <3> QED
      BY <3>1, DrawnIds DEF Drawn, PresenceInv, PresentFor, Settling
  <2>2. CASE i \in stopped
    BY <2>2, MarksStay
  <2>3. CASE i \notin stopped
    <3>1. ~Expected(i) /\ \A v \in Worker : g[v].id = i => ~Spawns(g[v])
      BY <2>1, <2>3, EndedApart
    <3>2. i \in alive
      <4>1. ASSUME NEW v \in Worker, SpawnChild(v), g[v].id = i PROVE FALSE
        BY <3>1, <4>1, SpawnTurn DEF Turn, Spawns, SpawnPC, SpawnChild, At
      <4>2. CASE \E v \in Worker : SpawnChild(v)
        BY <1>4, <4>1, <4>2, SpawnTurn
      <4>3. CASE \A v \in Worker : ~SpawnChild(v)
        BY <1>4, <4>3, AgentsStay DEF ChildExits
      <4> QED
        BY <4>2, <4>3
    <3>3. ~store[i].pid
      BY <2>1, <2>3, <3>1, <3>2
      DEF ChargeInv, Expected, Spawns, SpawnPC
    <3> QED
      BY <1>1, <1>4, <2>1, <2>3, <3>2, <3>3, PointsFrom, IdleHolds
      DEF ChargeInv, ChargeFor
  <2> QED
    BY <2>2, <2>3
<1> QED
  BY <1>2, <1>3, <1>4

LEMMA ChargeExpected ==
  ASSUME TypeInv, LaneInv, TurnInv, FreshInv, ChargeInv, Reliable, [Next]_vars,
         NEW i \in RunId, Expected(i)'
  PROVE  i \in stopped' \/ Running(i)'
<1>1. CASE Boot
  <2>1. i \in Unfinished
    BY <1>1 DEF Boot, Expected, ToRoute, Exited, Interrupted, Reattached
  <2> QED
    BY <1>1, <2>1 DEF Boot, Unfinished, Running
<1>2. CASE ~Boot
  <2>1. ~Crash
    BY ExpectedFrom DEF Expected, ToRoute
  <2>2. CASE Expected(i)
    <3>1. i \in stopped \/ Running(i)
      BY <2>2 DEF ChargeInv
    <3>2. ASSUME NEW v \in Worker, Finalize(v), g[v].id = i PROVE FALSE
      BY <2>2, <3>2 DEF Finalize, At, Turn, Ends, EndPC, TurnInv
    <3> QED
      BY <1>2, <2>1, <3>1, <3>2, RunsOn, MarksStay
  <2>3. CASE ~Expected(i)
    <3>1. PICK w \in Worker : JournalPid(w) /\ g[w].id = i
      BY <1>2, <2>3, ExpectedFrom DEF Expected, ToRoute
    <3>2. i \in stopped \/ Running(i)
      BY <3>1, JournalPidTurn DEF ChargeInv, ChargeFor, Spawns, SpawnPC
    <3>3. store' = store
      BY <3>1 DEF JournalPid
    <3> QED
      BY <3>2, <3>3, MarksStay DEF Running
  <2> QED
    BY <2>2, <2>3
<1> QED
  BY <1>1, <1>2

(* An agent that lives was alive before, or has just been spawned and has  *)
(* no pid in the store nor in the journal.                                 *)
LEMMA AliveFrom ==
  ASSUME TypeInv, LaneInv, ChargeInv, [Next]_vars,
         NEW i \in RunId, i \in alive', i \notin stopped'
  PROVE  /\ i \notin stopped
         /\ \/ i \in alive
            \/ ~journal'[i].pid /\ ~store'[i].pid
<1>1. i \notin stopped
  BY MarksStay
<1>2. ASSUME NEW w \in Worker, SpawnChild(w), g[w].id = i
      PROVE  ~journal'[i].pid /\ ~store'[i].pid
  <2>1. g[w].pc = "spawn" /\ journal' = journal /\ store' = store
    BY <1>2 DEF SpawnChild, At
  <2> QED
    BY <1>1, <1>2, <2>1 DEF ChargeInv, ChargeFor, Spawns, SpawnPC
<1>3. CASE \E w \in Worker : SpawnChild(w)
  BY <1>1, <1>2, <1>3, SpawnTurn
<1>4. CASE \A w \in Worker : ~SpawnChild(w)
  BY <1>1, <1>4, AgentsStay DEF ChildExits
<1> QED
  BY <1>3, <1>4

LEMMA ChargeAwaited ==
  ASSUME TypeInv, LaneInv, PresenceInv, LaunchInv, ChargeInv, Reliable,
         [Next]_vars, NEW i \in RunId, i \in alive', i \notin stopped',
         journal'[i].pid
  PROVE  /\ journal'[i].status = "running"
         /\ phase' # "down" => i \in waiting'
<1>1. i \in alive /\ i \notin stopped
  BY AliveFrom
<1>2. CASE journal'[i] = journal[i]
  <2>1. /\ journal'[i].status = "running" /\ journal[i].pid
        /\ journal[i].status = "running"
        /\ phase # "down" => i \in waiting
    BY <1>1, <1>2 DEF ChargeInv
  <2>2. CASE Boot
    <3>1. ending[i].code = "none"
      BY <1>1 DEF LaunchInv, NoEnding
    <3>2. i \in Unfinished /\ ~HasExit(i)
      BY <2>1, <3>1 DEF Unfinished, HasExit
    <3>3. i \in Reattached
      BY <1>1, <2>1, <3>2 DEF Reattached, Exited
    <3>4. waiting' = Reattached
      BY <2>2 DEF Boot
    <3> QED
      BY <2>1, <3>3, <3>4
  <2>3. CASE ~Boot /\ phase = "down"
    <3>1. phase' = "down"
      BY <2>3, GoroutineSteps, ActsUp
      DEF Crash, Serve, ChildExits, vars, control
    <3> QED
      BY <2>1, <3>1
  <2>4. CASE phase # "down"
    BY <1>1, <2>1, <2>4, MarksStay DEF Boot, Crash
  <2> QED
    BY <2>2, <2>3, <2>4
<1>3. CASE journal'[i] # journal[i]
  <2>1. PICK w \in Worker :
          /\ JournalPid(w) /\ g[w].id = i
          /\ journal' = [journal EXCEPT ![i] = Durable(g[w].rec)]
          /\ g[w].rec \in Run /\ g[w].rec.status = "running"
    BY <1>1, <1>3, JournaledFrom
  <2>2. i \in waiting'
    BY <2>1 DEF JournalPid, Awaited
  <2>3. journal'[i].status = "running"
    BY <2>1 DEF Durable, Run, TypeInv, TypeOK
  <2> QED
    BY <2>2, <2>3
<1> QED
  BY <1>2, <1>3

LEMMA ChargePid ==
  ASSUME TypeInv, LaneInv, PresenceInv, FreshInv, LaunchInv, ChargeInv,
         Reliable, [Next]_vars,
         NEW i \in RunId, i \in alive', i \notin stopped', store'[i].pid
  PROVE  i \in waiting' \/ \E w \in Worker : /\ g'[w].id = i
                                             /\ g'[w].pc = "journalpid"
<1>1. i \in alive /\ i \notin stopped
  BY AliveFrom
<1>2. CASE Crash
  BY <1>2 DEF Crash, Absent
<1>3. CASE Boot
  <2>1. journal'[i].pid /\ phase' # "down"
    BY <1>3 DEF Boot
  <2> QED
    BY <2>1, ChargeAwaited
<1>4. CASE ~Crash /\ ~Boot
  <2>1. CASE i \in waiting
    BY <1>1, <1>4, <2>1, MarksStay
  <2>2. ASSUME NEW w \in Worker, g[w].id = i, g[w].pc = "journalpid"
        PROVE  i \in waiting' \/ (g'[w].id = i /\ g'[w].pc = "journalpid")
    <3>1. CASE g'[w] = g[w]
      BY <2>2, <3>1
    <3>2. CASE JournalPid(w)
      BY <2>2, <3>2 DEF JournalPid, Awaited
    <3>3. Acts(w) => JournalPid(w) \/ g'[w] = g[w]
      BY <2>2, StartFacts, DrawnIds
      DEF Acts, Step, Request, PostBuild, StopBegin, ObserveExit, TakeResume,
          RouteSurvivor, At, Snap, Write, Unwritable, Adopt, Reserve,
          JournalRun, SpawnChild, SpawnError, SetPid, RecordIdem, Finalize,
          GetFinalized, ClaimPush, StartPush, PlanResume, ScheduleResume,
          EndFinalizing, BuildSuccessor, Rearm, StopMark, StopSignal,
          StopFinalize, StopCancel
    <3> QED
      BY <1>4, <3>1, <3>2, <3>3, GoroutineSteps
  <2>3. CASE ~store[i].pid
    <3>1. ASSUME NEW w \in Worker, Reserve(w), g[w].rec.pid PROVE FALSE
      BY <3>1 DEF Reserve, At, ChargeInv, ChargeFor
    <3>2. PICK w \in Worker : SetPid(w) /\ g[w].id = i
      BY <1>4, <2>3, <3>1, PidFrom
    <3> QED
      BY <3>2, SpawnFacts
  <2> QED
    BY <1>1, <2>1, <2>2, <2>3 DEF ChargeInv
<1> QED
  BY <1>2, <1>3, <1>4

LEMMA ChargeKept ==
  ASSUME TypeInv, LaneInv, PresenceInv, TurnInv, FreshInv, LaunchInv, ChargeInv,
         Reliable, [Next]_vars
  PROVE  ChargeInv'
<1>1. ASSUME NEW w \in Worker PROVE ChargeFor(g[w])'
  <2>1. ASSUME g'[w].pc \notin {"idle", "reserve", "rearm"} PROVE g'[w].id \in RunId
    BY <2>1, IdsDrawnNext
  <2>2. ASSUME NEW i \in RunId, i = g'[w].id
        PROVE  /\ g'[w].pc \in {"stopsignal", "stopfinalize"} => i \in stopped'
               /\ g'[w].pc = "finalize" => i \in stopped' \/ Running(i)'
               /\ Spawns(g'[w]) =>
                    /\ i \notin loaded'
                    /\ i \in stopped' \/ (Running(i) /\ ~journal[i].pid)'
    BY <2>2, ChargeStops, ChargeSpawns
  <2>3. /\ g'[w].pc \in {"reserve", "journal", "spawn", "setpid"}
             => ~g'[w].rec.pid
        /\ g'[w].pc \in {"journal", "spawn", "setpid"}
             => ~store'[g'[w].id].pid
        /\ g'[w].pc = "write" /\ g'[w].id \in alive'
             => g'[w].id \in stopped' \/ ~g'[w].rec.pid
    BY ChargeRecords
  <2>4. g'[w].pc \in {"stopsignal", "stopfinalize"} => g'[w].id \in stopped'
    BY <2>1, <2>2
  <2>5. g'[w].pc = "finalize" =>
          g'[w].id \in stopped' \/ store'[g'[w].id].status = "running"
    BY <2>1, <2>2 DEF Running
  <2>6. Spawns(g'[w]) => g'[w].pc \notin {"idle", "reserve", "rearm"}
    BY DEF Spawns, SpawnPC
  <2>7. Spawns(g'[w]) =>
          /\ g'[w].id \notin loaded'
          /\ \/ g'[w].id \in stopped'
             \/ /\ store'[g'[w].id].status = "running"
                /\ ~journal'[g'[w].id].pid
    BY <2>1, <2>2, <2>6 DEF Running
  <2> QED
    BY <2>3, <2>4, <2>5, <2>7 DEF ChargeFor, Spawns, SpawnPC, Running
<1>2. ASSUME NEW i \in RunId
      PROVE  /\ Expected(i)' => i \in stopped' \/ Running(i)'
             /\ i \in alive' /\ i \notin stopped' =>
                  /\ journal'[i].pid => /\ journal'[i].status = "running"
                                        /\ phase' # "down" => i \in waiting'
                  /\ \/ i \in waiting' \/ ~store'[i].pid
                     \/ \E w \in Worker : /\ g'[w].id = i
                                          /\ g'[w].pc = "journalpid"
  BY ChargeExpected, ChargeAwaited, ChargePid
<1> QED
  BY <1>1, <1>2 DEF ChargeInv

LEMMA ChargeInit == Init => ChargeInv
<1> SUFFICES ASSUME Init PROVE ChargeInv
  OBVIOUS
<1>1. /\ \A w \in Worker : g[w] = Idle
      /\ alive = {} /\ waiting = {} /\ toRoute = {}
  BY DEF Init
<1>2. Idle.pc = "idle" /\ ~Spawns(Idle)
  BY IdleHolds
<1> QED
  BY <1>1, <1>2 DEF ChargeInv, ChargeFor, Expected, ToRoute

(* A second agent in charge would have to be put in charge while a first   *)
(* one is, on a lane that the reservation has kept for its run.            *)
LEMMA OneLiveKept ==
  ASSUME TypeInv, LaneInv, PresenceInv, TurnInv, LaneExclusive, ChargeInv,
         OneLivePerLane, Reliable, [Next]_vars
  PROVE  OneLivePerLane'
<1> SUFFICES ASSUME NEW i \in alive', NEW j \in alive', i # j,
                    journal'[i].lane = journal'[j].lane,
                    journal'[i].lane # NoLane, ~Orphan(i)', ~Orphan(j)'
             PROVE  FALSE
  BY DEF OneLivePerLane
<1>1. /\ i \in RunId /\ j \in RunId
      /\ i \notin stopped' /\ journal'[i].pid
      /\ j \notin stopped' /\ journal'[j].pid
  <2>1. TypeInv'
    BY NextType
  <2> QED
    BY <2>1 DEF Orphan, TypeInv, TypeOK
<1>2. /\ i \in alive /\ i \notin stopped
      /\ j \in alive /\ j \notin stopped
  BY <1>1, AliveFrom
<1>3. ASSUME NEW a \in RunId, NEW b \in RunId, a # b, NEW w \in Worker,
             JournalPid(w), g[w].id = a, a \notin stopped, b \notin stopped,
             b \in alive, journal'[b].pid, a \in alive,
             journal' = [journal EXCEPT ![a] = Durable(g[w].rec)],
             journal'[a].lane = journal'[b].lane, journal'[a].lane # NoLane
      PROVE  FALSE
  <2>1. journal'[b] = journal[b] /\ journal'[a] = Durable(g[w].rec)
    BY <1>3 DEF TypeInv, TypeOK
  <2>2. /\ Spawns(g[w]) /\ phase # "down" /\ g[w].rec \in Run
        /\ g[w].pc = "journalpid"
    BY <1>3, JournalPidTurn, ActsUp, LocalFacts DEF Spawns, SpawnPC
  <2>3. Running(a) /\ a \notin loaded
    BY <1>3, <2>2 DEF ChargeInv, ChargeFor
  <2>4. Running(b) /\ journal[b].pid
    BY <1>3, <2>1, <2>2 DEF ChargeInv, Expected
  <2>5. PICK f : Consistent(nextId, f)
    BY DEF LaneInv
  <2>6. /\ g[w].rec.lane = f[a].lane /\ store[a].lane = f[a].lane
        /\ store[b].lane = f[b].lane
        /\ journal[b] = Absent \/ journal[b].lane = f[b].lane
    BY <1>3, <2>2, <2>3, <2>4, <2>5
    DEF Consistent, Carried, InPlace, PlacedAt, Running, Absent
  <2>7. journal'[a].lane = f[a].lane /\ journal'[b].lane = f[b].lane
    BY <2>1, <2>2, <2>4, <2>6 DEF Durable, Run, Absent
  <2>8. OnLane(a, b)
    BY <1>3, <2>6, <2>7 DEF OnLane
  <2> QED
    BY <1>3, <2>3, <2>4, <2>8 DEF LaneExclusive
<1>4. journal'[i] # journal[i] => FALSE
  BY <1>1, <1>2, <1>3, JournaledFrom
<1>5. journal'[j] # journal[j] => FALSE
  BY <1>1, <1>2, <1>3, JournaledFrom
<1> QED
  BY <1>1, <1>2, <1>4, <1>5 DEF OneLivePerLane, Orphan

(* BR2: of the agents that live on a lane, all but one were stopped, or    *)
(* died as far as the backend can know because it crashed before it had    *)
(* journaled their pid: no resume, request or restart puts a second agent  *)
(* in charge of a lane.                                                    *)
THEOREM OneInCharge == ASSUME Reliable PROVE Spec => []OneLivePerLane
<1> DEFINE Inv == /\ TypeInv /\ LaneInv /\ OnceInv /\ LaneExclusive
                  /\ ChargeInv /\ OneLivePerLane
<1>1. Init => Inv
  BY InitType, InitLane, OnceInit, ChargeInit
  DEF Init, LaneExclusive, OneLivePerLane, Running, Absent
<1>2. Inv /\ [Next]_vars => Inv'
  <2> SUFFICES ASSUME Inv, [Next]_vars PROVE Inv'
    OBVIOUS
  <2>1. ChargeInv' /\ OneLivePerLane'
    BY ChargeKept, OneLiveKept DEF OnceInv
  <2> QED
    BY <2>1, NextType, NextLane, OnceKept, NextExclusive
<1> QED
  BY <1>1, <1>2, PTL DEF Spec
=============================================================================
