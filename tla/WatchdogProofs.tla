--------------------------- MODULE WatchdogProofs ---------------------------
(***************************************************************************)
(* Theorems about Watchdog, for every stall window, grace, length of       *)
(* output, number of crashes, and whether or not notes can be written.     *)
(***************************************************************************)
EXTENDS Watchdog, TLAPS

(* What the length read last leaves to be seen: nothing of the agent's, so *)
(* that what the run's fields say of the silence is true.  Between a read  *)
(* that found growth and the update it leads to, and in a backend that is  *)
(* down, they may say more.                                                *)
Seen == up /\ ~fresh /\ sweep # "grown"

(* The run was quiet for no longer than the agent was silent; a strike     *)
(* that has ended in a signal is older than anything the agent said.       *)
FieldsTrue ==
  Seen => /\ quiet <= silent
          /\ struck # Never /\ sweep \notin {"note", "term"} => ~spoke

(* Only a backend that is up sweeps, and it strikes twice where it has     *)
(* struck once.                                                            *)
SweepTrue ==
  /\ sweep # "idle" => up
  /\ sweep \in {"strike again", "kill"} => struck # Never

IInv == TypeOK /\ FieldsTrue /\ SweepTrue /\ SparesActive

(* An age stays an age, and grows.                                         *)
LEMMA OlderIsAge ==
  ASSUME NEW limit \in Nat, NEW age \in Age(limit)
  PROVE  Older(age, limit) \in Age(limit)
BY DEF Older, Age

LEMMA OlderIsMonotone ==
  ASSUME NEW limit \in Nat, NEW a \in Age(limit), NEW b \in Age(limit), a <= b
  PROVE  Older(a, limit) <= Older(b, limit)
BY DEF Older, Age

(* No output and no notes that there are: lengths and ages of zero.        *)
LEMMA ZeroIsAge ==
  /\ 0 \in Age(StallMs) /\ 0 \in Age(Grace) /\ 0 \in Age(MaxAhead)
  /\ Grace # Never /\ StallMs \in Nat /\ Grace \in Nat /\ MaxAhead \in Nat
  /\ MaxCrashes \in Nat
BY WatchdogAssumption DEF Age, Never

LEMMA InitIInv == Init => IInv
<1> SUFFICES ASSUME Init PROVE IInv
  OBVIOUS
<1>1. 0 \in Age(MaxCrashes) /\ 0 <= 0
  BY ZeroIsAge DEF Age
<1>2. TypeOK
  BY <1>1, ZeroIsAge DEF Init, TypeOK, Steps
<1>3. FieldsTrue /\ SweepTrue /\ SparesActive
  BY <1>1 DEF Init, FieldsTrue, SweepTrue, SparesActive
<1> QED
  BY <1>2, <1>3 DEF IInv

(* Every step keeps the types.                                             *)
LEMMA NextTypes == TypeOK /\ [Next]_vars => TypeOK'
<1> SUFFICES ASSUME TypeOK, [Next]_vars PROVE TypeOK'
  OBVIOUS
<1>1. CASE Tick
  <2>1. quiet' \in Age(StallMs) /\ silent' \in Age(StallMs)
    BY <1>1, OlderIsAge, ZeroIsAge DEF Tick, TypeOK
  <2>2. struck' \in Age(Grace) \cup {Never}
    <3>1. CASE struck = Never
      BY <1>1, <3>1 DEF Tick
    <3>2. CASE struck # Never
      BY <1>1, <3>2, OlderIsAge, ZeroIsAge DEF Tick, TypeOK
    <3> QED
      BY <3>1, <3>2
  <2> QED
    BY <1>1, <2>1, <2>2 DEF Tick, TypeOK, file
<1>2. CASE Speak
  <2>1. /\ ahead' \in Age(MaxAhead) /\ silent' \in Age(StallMs)
        /\ fresh' \in BOOLEAN /\ spoke' \in BOOLEAN
    <3>1. PICK n \in Writes :
            \/ n <= ahead /\ ahead' = ahead - n /\ UNCHANGED <<fresh, silent, spoke>>
            \/ n > ahead /\ ahead' = 0 /\ fresh' = TRUE /\ silent' = 0 /\ spoke' = TRUE
      BY <1>2 DEF Speak
    <3>2. n \in Nat
      BY WatchdogAssumption
    <3>3. ahead \in Age(MaxAhead) /\ silent \in Age(StallMs)
      BY DEF TypeOK
    <3> QED
      <4>1. CASE n <= ahead
        <5>1. ahead - n \in Age(MaxAhead)
          BY <3>2, <3>3, <4>1, ZeroIsAge DEF Age
        <5>2. ~(n > ahead)
          BY <3>2, <3>3, <4>1, ZeroIsAge DEF Age
        <5> QED
          BY <3>1, <5>1, <5>2 DEF TypeOK
      <4>2. CASE ~(n <= ahead)
        BY <3>1, <4>2, ZeroIsAge
      <4> QED
        BY <4>1, <4>2
  <2> QED
    BY <1>2, <2>1 DEF Speak, TypeOK
<1>3. CASE Hang \/ Recover \/ Exit \/ Dies
  BY <1>3 DEF Hang, Recover, Exit, Dies, TypeOK, fields, history
<1>4. CASE OnExit \/ Stop
  <2>1. CASE OnExit
    BY <2>1 DEF OnExit, TypeOK, file, history
  <2>2. CASE Stop
    BY <2>2 DEF Stop, Terminated, TypeOK
  <2> QED
    BY <1>4, <2>1, <2>2
<1>5. CASE Begin \/ Look
  BY <1>5 DEF Begin, Look, TypeOK, Steps, file, fields, history
<1>6. CASE ReadSize
  <2>1. Verdict \in Steps
    BY DEF Verdict, Steps
  <2>2. heard' \in [silent : Age(StallMs), spoke : BOOLEAN]
    BY <1>6 DEF ReadSize, TypeOK
  <2> QED
    BY <1>6, <2>1, <2>2 DEF ReadSize, TypeOK, file
<1>7. CASE Grown \/ Strike \/ StrikeAgain
  BY <1>7, ZeroIsAge DEF Grown, Active, Strike, StrikeAgain, TypeOK, Steps, file, history
<1>8. CASE Note
  <2>1. ahead' \in Age(MaxAhead) /\ fresh' \in BOOLEAN
    BY <1>8, OlderIsAge, ZeroIsAge DEF Note, TypeOK
  <2> QED
    BY <1>8, <2>1 DEF Note, TypeOK, Steps, history
<1>9. CASE Term \/ KillGroup
  BY <1>9 DEF Term, SignalGroup, Terminated, KillGroup, TypeOK, Steps, file, fields,
              history
<1>10. CASE Crash
  <2>1. crashes' \in Age(MaxCrashes)
    BY <1>10, ZeroIsAge DEF Crash, TypeOK, Age
  <2> QED
    BY <1>10, <2>1 DEF Crash, TypeOK, Steps, file, fields, history
<1>11. CASE Boot
  BY <1>11, ZeroIsAge DEF Boot, Seeded, TypeOK, file, history
<1>12. CASE UNCHANGED vars
  BY <1>12 DEF vars, TypeOK, file, fields, history
<1> QED
  BY <1>1, <1>2, <1>3, <1>4, <1>5, <1>6, <1>7, <1>8, <1>9, <1>10, <1>11, <1>12 DEF Next

(* Every step keeps the sweep's own facts: what it has decided on stands   *)
(* until it is done, as nobody else writes the strike while it runs.       *)
LEMMA NextSweep == SweepTrue /\ TypeOK /\ [Next]_vars => SweepTrue'
<1> SUFFICES ASSUME SweepTrue, TypeOK, [Next]_vars PROVE SweepTrue'
  OBVIOUS
<1>1. CASE Tick \/ Speak \/ Hang \/ Recover \/ Exit \/ Dies
  BY <1>1 DEF Tick, Speak, Hang, Recover, Exit, Dies, SweepTrue, fields, history
<1>2. CASE OnExit \/ Stop \/ Begin \/ Look
  BY <1>2 DEF OnExit, Stop, Begin, Look, SweepTrue, fields, history
<1>3. CASE ReadSize
  <2>1. Verdict = "strike again" => struck # Never
    BY ZeroIsAge DEF Verdict
  <2>2. Verdict # "kill"
    BY DEF Verdict
  <2> QED
    BY <1>3, <2>1, <2>2 DEF ReadSize, SweepTrue
<1>4. CASE Grown \/ Strike \/ Note \/ Term \/ KillGroup
  BY <1>4 DEF Grown, Strike, Note, Term, KillGroup, SweepTrue, fields, history
<1>5. CASE StrikeAgain
  <2>1. 0 # Never
    BY ZeroIsAge DEF Never
  <2> QED
    BY <1>5, <2>1 DEF StrikeAgain, SweepTrue
<1>6. CASE Crash \/ Boot
  BY <1>6 DEF Crash, Boot, SweepTrue, fields
<1>7. CASE UNCHANGED vars
  BY <1>7 DEF vars, SweepTrue, fields
<1> QED
  BY <1>1, <1>2, <1>3, <1>4, <1>5, <1>6, <1>7 DEF Next

(* Every step keeps the fields true.  Growth makes the file fresh; a sweep *)
(* that sees it starts the window anew before the fields count again.      *)
LEMMA NextFields == TypeOK /\ SweepTrue /\ FieldsTrue /\ [Next]_vars => FieldsTrue'
<1> SUFFICES ASSUME TypeOK, SweepTrue, FieldsTrue, [Next]_vars, Seen'
             PROVE  /\ quiet' <= silent'
                    /\ struck' # Never /\ sweep' \notin {"note", "term"} => ~spoke'
  BY DEF FieldsTrue
<1>0. silent \in Nat
  BY ZeroIsAge DEF TypeOK, Age
<1>1. CASE Tick
  <2>1. Seen
    BY <1>1 DEF Tick, Seen
  <2>2. quiet' <= silent'
    BY <1>1, <2>1, OlderIsMonotone, ZeroIsAge DEF Tick, FieldsTrue, TypeOK
  <2>3. struck' # Never => struck # Never
    BY <1>1 DEF Tick
  <2> QED
    BY <1>1, <2>1, <2>2, <2>3 DEF Tick, FieldsTrue
<1>2. CASE Speak
  <2>1. UNCHANGED <<fresh, silent, spoke>>
    BY <1>2 DEF Speak, Seen
  <2>2. UNCHANGED <<quiet, struck, sweep, up>>
    BY <1>2 DEF Speak
  <2> QED
    BY <2>1, <2>2 DEF FieldsTrue, Seen
<1>3. CASE Hang \/ Recover \/ Exit \/ Dies
  <2>1. UNCHANGED <<quiet, struck, fresh, sweep, up, silent, spoke>>
    BY <1>3 DEF Hang, Recover, Exit, Dies, fields, history
  <2> QED
    BY <2>1 DEF FieldsTrue, Seen
<1>4. CASE OnExit
  <2>1. UNCHANGED <<quiet, struck, fresh, sweep, up, silent, spoke>>
    BY <1>4 DEF OnExit, history
  <2> QED
    BY <2>1 DEF FieldsTrue, Seen
<1>5. CASE Stop
  <2>1. UNCHANGED <<quiet, fresh, sweep, up, silent>> /\ ~spoke'
    BY <1>5 DEF Stop
  <2> QED
    BY <2>1 DEF FieldsTrue, Seen
<1>6. CASE Begin \/ Look
  <2>1. UNCHANGED <<quiet, struck, fresh, up, silent, spoke>>
    BY <1>6 DEF Begin, Look, fields, history
  <2>2. sweep \notin {"grown", "note", "term"}
    BY <1>6 DEF Begin, Look
  <2> QED
    BY <2>1, <2>2 DEF FieldsTrue, Seen
<1>7. CASE ReadSize
  <2>1. ~fresh
    BY <1>7 DEF ReadSize, Verdict, Seen
  <2>2. Seen
    BY <1>7, <2>1 DEF ReadSize, Seen
  <2> QED
    BY <1>7, <2>2 DEF ReadSize, FieldsTrue
<1>8. CASE Grown
  BY <1>0, <1>8 DEF Grown, Active, history
<1>9. CASE Strike \/ Note
  BY <1>9 DEF Strike, Note, FieldsTrue, Seen, history
<1>10. CASE Term
  BY <1>10 DEF Term, FieldsTrue, Seen, fields
<1>11. CASE StrikeAgain \/ KillGroup
  <2>1. UNCHANGED <<quiet, fresh, up, silent, spoke>>
    BY <1>11 DEF StrikeAgain, KillGroup, fields, history
  <2>2. struck # Never /\ sweep \notin {"note", "term", "grown"}
    BY <1>11 DEF StrikeAgain, KillGroup, SweepTrue
  <2> QED
    BY <2>1, <2>2 DEF FieldsTrue, Seen
<1>12. CASE Crash
  BY <1>12 DEF Crash, Seen
<1>13. CASE Boot
  BY <1>0, <1>13 DEF Boot, Seeded, history
<1>14. CASE UNCHANGED vars
  BY <1>14 DEF vars, FieldsTrue, Seen, fields, history
<1> QED
  BY <1>1, <1>2, <1>3, <1>4, <1>5, <1>6, <1>7, <1>8, <1>9, <1>10, <1>11, <1>12,
     <1>13, <1>14
  DEF Next

(* Every step keeps SparesActive: only ReadSize decides, and it decides on *)
(* what the fields say at the moment it hears the agent.                   *)
LEMMA NextSpares == IInv /\ [Next]_vars => SparesActive'
<1> SUFFICES ASSUME IInv, [Next]_vars PROVE SparesActive'
  OBVIOUS
<1> USE DEF IInv
<1>1. CASE ReadSize
  <2>1. up
    BY <1>1 DEF ReadSize, SweepTrue
  <2>2. heard'.silent = silent /\ heard'.spoke = spoke
    BY <1>1 DEF ReadSize
  <2>3. ASSUME sweep' = "strike" PROVE silent = StallMs
    <3>1. ~fresh /\ quiet = StallMs
      BY <1>1, <2>3 DEF ReadSize, Verdict
    <3>2. quiet <= silent
      BY <1>1, <2>1, <3>1 DEF ReadSize, Seen, FieldsTrue
    <3> QED
      BY <3>1, <3>2, ZeroIsAge DEF TypeOK, Age
  <2>4. ASSUME sweep' = "strike again" PROVE ~spoke
    <3>1. ~fresh /\ struck = Grace
      BY <1>1, <2>4 DEF ReadSize, Verdict
    <3> QED
      BY <1>1, <2>1, <3>1, ZeroIsAge DEF ReadSize, Seen, FieldsTrue
  <2>5. sweep' \notin {"note", "term", "kill"}
    BY <1>1 DEF ReadSize, Verdict
  <2> QED
    BY <2>2, <2>3, <2>4, <2>5 DEF SparesActive
<1>2. CASE Tick \/ Speak \/ Hang \/ Recover \/ Exit \/ Dies
  BY <1>2 DEF Tick, Speak, Hang, Recover, Exit, Dies, SparesActive, history
<1>3. CASE OnExit \/ Stop \/ Begin \/ Look
  BY <1>3 DEF OnExit, Stop, Begin, Look, SparesActive, history
<1>4. CASE Grown \/ Strike \/ Note \/ Term \/ StrikeAgain \/ KillGroup
  BY <1>4 DEF Grown, Strike, Note, Term, StrikeAgain, KillGroup, SparesActive, history
<1>5. CASE Crash \/ Boot
  BY <1>5 DEF Crash, Boot, SparesActive, history
<1>6. CASE UNCHANGED vars
  BY <1>6 DEF vars, SparesActive, history
<1> QED
  BY <1>1, <1>2, <1>3, <1>4, <1>5, <1>6 DEF Next

(* The inductive invariant holds of every behaviour.                       *)
LEMMA Invariance == Spec => []IInv
<1>1. IInv /\ [Next]_vars => IInv'
  BY NextTypes, NextSweep, NextFields, NextSpares DEF IInv
<1> QED
  BY InitIInv, <1>1, PTL DEF Spec

(* The types of TypeOK, whatever the ages and lengths.                     *)
THEOREM TypeCorrect == Spec => []TypeOK
<1>1. IInv => TypeOK
  BY DEF IInv
<1> QED
  BY Invariance, <1>1, PTL

(* The watchdog (sweepRun) signals a build only after a whole window       *)
(* without growth of its output, and kills it only if it has not spoken    *)
(* since the signal: whatever was written, noted, stopped, crashed and     *)
(* restarted in between.                                                   *)
THEOREM ActiveIsSpared == Spec => []SparesActive
<1>1. IInv => SparesActive
  BY DEF IInv
<1> QED
  BY Invariance, <1>1, PTL
=============================================================================
