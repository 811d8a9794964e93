----------------------------- MODULE Repository ------------------------------
(***************************************************************************)
(* The routes that write into the repository: POST /api/lock-prd,          *)
(* /api/resolve-blocker and /api/roadmap/plan-start, plan-ship and         *)
(* plan-attach (usecase/lock.go, resolveblocker.go and plantrack.go over   *)
(* infra/contentfs.go).                                                    *)
(*                                                                         *)
(* Every request is served by a goroutine of its own and no lock is held:  *)
(* it reads the file, computes the new text, truncates the file and writes *)
(* it, and other requests run in between.  A write may fail before or      *)
(* after the file is truncated, and the backend may die.                   *)
(*                                                                         *)
(* A request that is refused, finds no file or cannot read it touches      *)
(* nothing, promises nothing and is left out.  The last three variables    *)
(* exist for the properties.                                               *)
(*                                                                         *)
(* An operator named Mut_... is a wrong variant of the definition below it.*)
(***************************************************************************)
EXTENDS PrdText, RoadmapText

CONSTANTS
  Client,            \* the requests that may be under way at a time
  Id,                \* the item ids of the requests
  DecisionLists,     \* what a resolve-blocker request may carry
  InitialFiles,      \* the PRDs and roadmaps to start from
  NoFile,            \* in place of the text of a file that does not exist
  MaxRequests,       \* bound: requests served
  MaxFaults          \* bound: failing writes and deaths of the backend

ASSUME RepositoryAssumption ==
  /\ DecisionLists \subseteq Seq([question : Text, decision : Decision])
  /\ \A id \in Id : id.prefix \in Prefix /\ id.n \in Nat
  /\ MaxRequests \in Nat /\ MaxFaults \in Nat

VARIABLES
  file,       \* the text of the PRD and of the roadmap
  job,        \* what the request of a client is at
  requests, faults,
  damaged,    \* files that two writers or a failed write may have damaged
  promised,   \* what the PRD routes have answered: lock and decisions
  board       \* the items as the answered plan-track requests left them

vars == <<file, job, requests, faults, damaged, promised, board>>

File == {"prd", "roadmap"}

NoJob == [phase |-> "idle"]

(* A request that has read its file and is going to write it.              *)
Write(f, text, next, answer) ==
  [phase |-> "read", file |-> f, seen |-> text, next |-> next,
   answer |-> answer]

Writing(c, phases, f) == job[c].phase \in phases /\ job[c].file = f

(* The file is empty because a writer is between truncating and writing.   *)
Torn(f) == \E c \in Client : Writing(c, {"truncated"}, f)

Init ==
  /\ file \in InitialFiles
  /\ job = [c \in Client |-> NoJob]
  /\ requests = 0 /\ faults = 0
  /\ damaged = {}
  /\ promised = [locked |-> FALSE, decided |-> {}]
  /\ board = IF file.roadmap = NoFile THEN <<>>
             ELSE ParseRoadmap(file.roadmap)

-----------------------------------------------------------------------------
(* What an answer with this content promises from now on.                  *)
Promises(answer) ==
  /\ promised' =
       CASE answer.kind = "locked"  -> [promised EXCEPT !.locked = TRUE]
         [] answer.kind = "decided" ->
              [promised EXCEPT !.decided = @ \cup answer.decisions]
         [] OTHER -> promised
  /\ board' =
       CASE answer.kind = "status" ->
              [i \in DOMAIN board |->
                 IF [prefix |-> board[i].prefix, n |-> board[i].n] = answer.id
                 THEN [board[i] EXCEPT !.status = answer.value] ELSE board[i]]
         [] answer.kind = "plan" ->
              [i \in DOMAIN board |->
                 IF [prefix |-> board[i].prefix, n |-> board[i].n] = answer.id
                 THEN [board[i] EXCEPT !.plan = answer.value] ELSE board[i]]
         [] OTHER -> board

Request(c) ==
  /\ job[c] = NoJob
  /\ requests < MaxRequests
  /\ requests' = requests + 1
  /\ UNCHANGED <<file, faults, damaged>>

(* A request has read its file: it will write what has changed.            *)
Goes(c, f, next, answer) ==
  /\ job' = [job EXCEPT ![c] = Write(f, file[f], next, answer)]
  /\ UNCHANGED <<promised, board>>

(* A PRD that is locked already is answered without a write.               *)
Lock(c) ==
  /\ Request(c)
  /\ file.prd # NoFile
  /\ IF IsLocked(file.prd)
     THEN Promises([kind |-> "locked"]) /\ UNCHANGED job
     ELSE Goes(c, "prd", ApplyLock(file.prd), [kind |-> "locked"])

(* The decisions are applied in turn to the text that was read; nothing is *)
(* written when all of them are recorded already.                          *)
ResolveBlocker(c, decisions) ==
  LET step(md, x) == Resolved(md, x.question, x.decision)
      next == FoldLeft(step, file.prd, decisions)
      answer == [kind |-> "decided",
                 decisions |-> {<<x.question, x.decision>> : x \in Range(decisions)}]
  IN  /\ Request(c)
      /\ file.prd # NoFile
      /\ IF next = file.prd THEN Promises(answer) /\ UNCHANGED job
         ELSE Goes(c, "prd", next, answer)

(* The pipeline of the three plan-track routes; an item that does not      *)
(* change is answered changed:false, which promises nothing.               *)
RunWrite(c, next, answer) ==
  /\ Request(c)
  /\ file.roadmap # NoFile /\ next # file.roadmap
  /\ Goes(c, "roadmap", next, answer)

PlanStart(c, id) ==
  RunWrite(c, StartPlanTrack(file.roadmap, id),
           [kind |-> "status", id |-> id, value |-> "In-progress"])

PlanShip(c, id) ==
  RunWrite(c, ShipPlanTrack(file.roadmap, id),
           [kind |-> "status", id |-> id, value |-> "Shipped"])

PlanAttach(c, id, name) ==
  RunWrite(c, RecordChildPlan(file.roadmap, id, name),
           [kind |-> "plan", id |-> id, value |-> name])

-----------------------------------------------------------------------------
(* os.WriteFile opens the file truncated ...  Whatever another request has *)
(* written since this one read the file is lost here.                      *)
Truncate(c) ==
  /\ job[c].phase = "read"
  /\ LET f == job[c].file
     IN  /\ damaged' = IF file[f] # job[c].seen \/ Torn(f)
                       THEN damaged \cup {f} ELSE damaged
         /\ file' = [file EXCEPT ![f] = <<>>]
  /\ job' = [job EXCEPT ![c].phase = "truncated"]
  /\ UNCHANGED <<requests, faults, promised, board>>

(* ... writes it, and the request is answered.                             *)
Store(c) ==
  /\ job[c].phase = "truncated"
  /\ file' = [file EXCEPT ![job[c].file] = job[c].next]
  /\ Promises(job[c].answer)
  /\ job' = [job EXCEPT ![c] = NoJob]
  /\ UNCHANGED <<requests, faults, damaged>>

(* The write fails and the error is answered: before the file is opened    *)
(* nothing has happened, afterwards the file is empty.                     *)
WriteFails(c) ==
  /\ job[c] # NoJob
  /\ faults < MaxFaults
  /\ faults' = faults + 1
  /\ job' = [job EXCEPT ![c] = NoJob]
  /\ damaged' = IF job[c].phase = "truncated"
                THEN damaged \cup {job[c].file} ELSE damaged
  /\ UNCHANGED <<file, requests, promised, board>>

Crash ==
  /\ faults < MaxFaults
  /\ \E c \in Client : job[c] # NoJob
  /\ faults' = faults + 1
  /\ job' = [c \in Client |-> NoJob]
  /\ damaged' = damaged \cup {f \in File : Torn(f)}
  /\ UNCHANGED <<file, requests, promised, board>>

Requests(c) ==
  \/ Lock(c)
  \/ \E decisions \in DecisionLists : ResolveBlocker(c, decisions)
  \/ \E id \in Id : PlanStart(c, id) \/ PlanShip(c, id)
  \/ \E id \in Id, name \in PlanFile : PlanAttach(c, id, name)

Next ==
  \/ \E c \in Client : Requests(c) \/ Truncate(c) \/ Store(c) \/ WriteFails(c)
  \/ Crash

Spec == Init /\ [][Next]_vars
-----------------------------------------------------------------------------
Answer ==
  [kind : {"locked"}] \cup [kind : {"decided"}, decisions : SUBSET (Text \X Decision)]
    \cup [kind : {"status"}, id : Id, value : ValidStatus]
    \cup [kind : {"plan"}, id : Id, value : PlanFile]

(* The files hold lines and blocks of the known kinds, and a request under *)
(* way knows which file it writes.                                         *)
TypeOK ==
  /\ file.prd = NoFile \/ file.prd \in Seq(PrdLine)
  /\ file.roadmap = NoFile \/ file.roadmap \in Seq(Block)
  /\ \A c \in Client :
       \/ job[c] = NoJob
       \/ /\ job[c].phase \in {"read", "truncated"}
          /\ job[c].file \in File
          /\ job[c].answer.kind \in
               (IF job[c].file = "prd" THEN {"locked", "decided"}
                ELSE {"status", "plan"})
  /\ requests \in 0 .. MaxRequests /\ faults \in 0 .. MaxFaults
  /\ damaged \subseteq File
  /\ promised.locked \in BOOLEAN
  /\ promised.decided \subseteq Text \X Decision

(* A slice still waits for a question that goes by this name.              *)
Gates(md, q) ==
  \E n \in Range(Deadline) :
    \E i \in Range(QuestionsForSlice(md, n)) :
      q \in {md[i].text, TitleOf[md[i].text]}

(* The line answers the question, under its text or under its title.       *)
Answers(line, q, d) ==
  /\ line.kind = "bullet" /\ line.decision = d
  /\ <<q, line.text>> \in Begins \/ TitleOf[line.text] = q

(* There is never a second freeze marker and never one below the first     *)
(* line (usecase/lock.go: idempotent), whoever writes at the same time.    *)
(* And unless two writers of the PRD overlapped or a write broke off, what *)
(* lock-prd and resolve-blocker answered is in the file from then on: the  *)
(* PRD is locked and says so, every decision stands in it and its question *)
(* gates no slice any more, whichever requests came later.                 *)
PrdHolds ==
  LET md == file.prd
  IN  md # NoFile =>
        /\ Places(md, {"lock"}) \subseteq {1}
        /\ ~Torn("prd") /\ "prd" \notin damaged =>
             /\ promised.locked =>
                  /\ IsLocked(md)
                  /\ Places(md, {"status"}) # {} =>
                       md[Min(Places(md, {"status"}))].value = "Locked"
             /\ \A p \in promised.decided :
                  /\ \E i \in DOMAIN md : Answers(md[i], p[1], p[2])
                  /\ ~Gates(md, p[1])

(* Unless two writers of the roadmap overlapped or a write broke off, the  *)
(* board that is read from the file is the one the answered plan-start,    *)
(* plan-ship and plan-attach requests lead to: every other item, of every  *)
(* track, is as it was (domain/plantrack.go: block-scoped, gated).         *)
RoadmapHolds ==
  file.roadmap # NoFile /\ ~Torn("roadmap") /\ "roadmap" \notin damaged =>
    ParseRoadmap(file.roadmap) = board
=============================================================================
