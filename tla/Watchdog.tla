------------------------------ MODULE Watchdog ------------------------------
(***************************************************************************)
(* The stall watchdog of the build engine (sweepStalls and sweepRun of     *)
(* usecase/buildengine.go) over one running build: the agent, its output   *)
(* file and the run's three activity fields.  Runs do not share anything   *)
(* that the watchdog reads, so that one stands for all.                    *)
(*                                                                         *)
(* Clock readings are kept as ages, the time that has passed since them,   *)
(* and an age stops at the last value that any comparison tells apart.     *)
(* A sweep takes no time at the grain of these ages, but everything else   *)
(* happens between its steps.                                              *)
(*                                                                         *)
(* Of the output file only two lengths matter.  The agent's shell opens it *)
(* with >, so the agent writes at an offset of its own; a note of the      *)
(* watchdog is appended at the end.  What the agent writes next overwrites *)
(* notes first, and only what goes past them makes the file longer.        *)
(*                                                                         *)
(* An operator named Mut_... is a wrong variant of the definition below it,*)
(* a slip the code could have made; with it in place of that definition a  *)
(* property of this project fails.                                         *)
(***************************************************************************)
EXTENDS Naturals

CONSTANTS
  StallMs,      \* silence after which a build counts as hung
  Grace,        \* stallSigkillGraceMs
  Writes,       \* lengths of what an agent writes, a note counted as 1
  NotesFail,    \* whether the append of a note may fail
  MaxAhead,     \* bound: notes beyond the agent's offset that are counted
  MaxCrashes    \* bound: backend crashes

ASSUME WatchdogAssumption ==
  /\ StallMs \in Nat \ {0}       \* 0 disables the watchdog
  /\ Grace \in Nat
  /\ Writes \subseteq Nat \ {0}
  /\ NotesFail \in BOOLEAN
  /\ MaxAhead \in Nat \ {0} /\ MaxCrashes \in Nat

VARIABLES
  \* the agent and its file
  agent,      \* "busy", "hung" or "dead"
  deaf,       \* it ignores SIGTERM
  term,       \* a SIGTERM has reached it
  ahead,      \* length of the notes beyond the agent's offset
  \* the backend
  up,
  running,    \* the run's status in the store
  quiet,      \* age of LastActivityAt
  struck,     \* age of StallKilledAt, or Never
  fresh,      \* the file is longer than LastOutSize
  sweep,      \* the sweep's program counter
  crashes,
  \* history, read by the properties only
  silent,     \* how long the agent has not made the file longer
  spoke,      \* it has made it longer since its last SIGTERM
  heard       \* silent and spoke when the sweep read the file's length

file == <<agent, deaf, term, ahead>>
fields == <<running, quiet, struck, fresh>>
history == <<silent, spoke, heard>>
vars == <<file, up, fields, sweep, crashes, history>>

Never == Grace + 1    \* no age at all: StallKilledAt is nil
Age(limit) == 0 .. limit
Steps == {"idle", "look", "size", "grown", "strike", "note", "term", "strike again",
          "kill"}

Init ==
  /\ agent = "busy" /\ deaf \in BOOLEAN /\ term = FALSE /\ ahead = 0
  /\ up = TRUE /\ running = TRUE
  /\ quiet = 0 /\ struck = Never /\ fresh = FALSE
  /\ sweep = "idle" /\ crashes = 0
  /\ silent = 0 /\ spoke = TRUE /\ heard = [silent |-> 0, spoke |-> TRUE]

(* now minus a clock reading, one unit of time later.                      *)
Older(age, limit) == IF age < limit THEN age + 1 ELSE limit

Tick ==
  /\ sweep = "idle"
  /\ quiet' = Older(quiet, StallMs)
  /\ struck' = IF struck = Never THEN Never ELSE Older(struck, Grace)
  /\ silent' = Older(silent, StallMs)
  /\ UNCHANGED <<file, up, running, fresh, sweep, crashes, spoke, heard>>

-----------------------------------------------------------------------------
(* The agent.                                                              *)

Speak ==
  /\ agent = "busy"
  /\ \E n \in Writes :
       \/ /\ n <= ahead
          /\ ahead' = ahead - n
          /\ UNCHANGED <<fresh, silent, spoke>>
       \/ /\ n > ahead
          /\ ahead' = 0 /\ fresh' = TRUE
          /\ silent' = 0 /\ spoke' = TRUE
  /\ UNCHANGED <<agent, deaf, term, up, running, quiet, struck, sweep, crashes,
                 heard>>

Hang ==
  /\ agent = "busy" /\ agent' = "hung"
  /\ UNCHANGED <<deaf, term, ahead, up, fields, sweep, crashes, history>>

Recover ==
  /\ agent = "hung" /\ agent' = "busy"
  /\ UNCHANGED <<deaf, term, ahead, up, fields, sweep, crashes, history>>

(* It ends by itself, or of the SIGTERM unless it ignores it.              *)
Exit ==
  /\ agent = "busy" /\ agent' = "dead"
  /\ UNCHANGED <<deaf, term, ahead, up, fields, sweep, crashes, history>>

Dies ==
  /\ agent # "dead" /\ term /\ ~deaf /\ agent' = "dead"
  /\ UNCHANGED <<deaf, term, ahead, up, fields, sweep, crashes, history>>

-----------------------------------------------------------------------------
(* The goroutine or the watch that awaits the agent, and an operator.      *)

OnExit ==
  /\ up /\ running /\ agent = "dead"
  /\ running' = FALSE
  /\ UNCHANGED <<file, up, quiet, struck, fresh, sweep, crashes, history>>

Terminated == term' = (agent # "dead")

Stop ==
  /\ up /\ running
  /\ running' = FALSE
  /\ Terminated /\ spoke' = FALSE
  /\ UNCHANGED <<agent, deaf, ahead, up, quiet, struck, fresh, sweep, crashes,
                 silent, heard>>

-----------------------------------------------------------------------------
(* One sweep: the tick of 500 ms lists the runs, and of a running build    *)
(* looks at the pid and then at the length of the file.                    *)

Begin ==
  /\ up /\ running /\ sweep = "idle"
  /\ sweep' = "look"
  /\ UNCHANGED <<file, up, fields, crashes, history>>

Look ==
  /\ sweep = "look"
  /\ sweep' = IF agent = "dead" THEN "idle" ELSE "size"
  /\ UNCHANGED <<file, up, fields, crashes, history>>

Verdict ==
  CASE fresh -> "grown"
    [] ~fresh /\ struck = Never /\ quiet = StallMs -> "strike"
    [] ~fresh /\ struck = Grace -> "strike again"
    [] OTHER -> "idle"

(* What is read here counts as seen as soon as LastOutSize is updated; a   *)
(* later write is fresh again.                                             *)
ReadSize ==
  /\ sweep = "size"
  /\ sweep' = Verdict
  /\ fresh' = FALSE
  /\ heard' = [silent |-> silent, spoke |-> spoke]
  /\ UNCHANGED <<file, up, running, quiet, struck, crashes, silent, spoke>>

Mut_StrikeStays == quiet' = 0 /\ struck' = struck

Active == quiet' = 0 /\ struck' = Never

Grown ==
  /\ sweep = "grown" /\ sweep' = "idle"
  /\ Active
  /\ UNCHANGED <<file, up, running, fresh, crashes, history>>

(* First strike: mark it, leave a note, send SIGTERM.                      *)
Strike ==
  /\ sweep = "strike" /\ sweep' = "note"
  /\ struck' = 0
  /\ UNCHANGED <<file, up, running, quiet, fresh, crashes, history>>

Note ==
  /\ sweep = "note" /\ sweep' = "term"
  /\ \/ /\ fresh' = TRUE
        /\ ahead' = Older(ahead, MaxAhead)
     \/ NotesFail /\ UNCHANGED <<fresh, ahead>>
  /\ UNCHANGED <<agent, deaf, term, up, running, quiet, struck, crashes, history>>

Mut_NotSignalled == UNCHANGED term

SignalGroup == Terminated

Term ==
  /\ sweep = "term" /\ sweep' = "idle"
  /\ SignalGroup
  /\ spoke' = FALSE
  /\ UNCHANGED <<agent, deaf, ahead, up, fields, crashes, silent, heard>>

(* Second strike: the grace has passed and the agent is still there.       *)
StrikeAgain ==
  /\ sweep = "strike again" /\ sweep' = "kill"
  /\ struck' = 0
  /\ UNCHANGED <<file, up, running, quiet, fresh, crashes, history>>

KillGroup ==
  /\ sweep = "kill" /\ sweep' = "idle"
  /\ agent' = "dead"
  /\ UNCHANGED <<deaf, term, ahead, up, fields, crashes, history>>

-----------------------------------------------------------------------------
(* The backend dies; the activity fields are not in the journal.           *)

Crash ==
  /\ up /\ crashes < MaxCrashes
  /\ up' = FALSE /\ crashes' = crashes + 1
  /\ sweep' = "idle"
  /\ UNCHANGED <<file, fields, history>>

(* RehydrateBuilds gives a build that survived a full window.              *)
Seeded == quiet' = 0 /\ struck' = Never /\ fresh' = FALSE

Boot ==
  /\ ~up /\ up' = TRUE
  /\ Seeded
  /\ UNCHANGED <<file, running, sweep, crashes, history>>

Next ==
  \/ Tick
  \/ Speak \/ Hang \/ Recover \/ Exit \/ Dies
  \/ OnExit \/ Stop
  \/ Begin \/ Look \/ ReadSize \/ Grown \/ Strike \/ Note \/ Term
  \/ StrikeAgain \/ KillGroup
  \/ Crash \/ Boot

Spec == Init /\ [][Next]_vars

Sweep ==
  \/ Begin \/ Look \/ ReadSize \/ Grown \/ Strike \/ Note \/ Term
  \/ StrikeAgain \/ KillGroup

(* Time passes whatever is swept, the ticker sweeps, a signal is delivered, *)
(* and a dead backend is started again.  An agent need not do anything.    *)
Fairness == SF_vars(Tick) /\ WF_vars(Sweep) /\ WF_vars(Dies) /\ WF_vars(Boot)

FairSpec == Spec /\ Fairness

-----------------------------------------------------------------------------
(* Properties.                                                             *)

TypeOK ==
  /\ agent \in {"busy", "hung", "dead"}
  /\ deaf \in BOOLEAN /\ term \in BOOLEAN /\ up \in BOOLEAN /\ running \in BOOLEAN
  /\ fresh \in BOOLEAN /\ spoke \in BOOLEAN
  /\ ahead \in Age(MaxAhead)
  /\ quiet \in Age(StallMs) /\ silent \in Age(StallMs)
  /\ struck \in Age(Grace) \cup {Never}
  /\ sweep \in Steps
  /\ crashes \in Age(MaxCrashes)
  /\ heard \in [silent : Age(StallMs), spoke : BOOLEAN]

(* A build whose output grows is not taken for a hung one (AC 3.2 and the  *)
(* comment at 695-696): it is signalled only after a whole window without  *)
(* growth, also after a restart, and killed only if there was none since   *)
(* it was signalled; notes of the watchdog are not taken for its output.   *)
SparesActive ==
  /\ sweep \in {"strike", "note", "term"} => heard.silent = StallMs
  /\ sweep \in {"strike again", "kill"} => ~heard.spoke

(* A hung build that heeds SIGTERM does not stay: it ends, or it works     *)
(* again, whatever restarts and stops there are.                           *)
HungEnds == ~deaf => []<>(agent # "hung")

(* A process that ignores SIGTERM "can't stay running forever": it is      *)
(* killed once the grace is over (comment at 667-668).                     *)
DeafEnds == deaf => []<>(agent # "hung" \/ ~running)
=============================================================================
