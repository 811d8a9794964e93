------------------------------- MODULE PrdText -------------------------------
(***************************************************************************)
(* What the backend reads from a PRD and what it writes into it, as        *)
(* operators on its lines (domain/lock.go, domain/blockers.go and          *)
(* domain/resolveq.go).                                                    *)
(*                                                                         *)
(* A PRD is the sequence of the lines the code looks at.  A bullet has a   *)
(* text and, once it is resolved, the decision in front of the text: a     *)
(* line whose text says RESOLVED is never resolved again, so there is at   *)
(* most one decision on a line.  Spaces, approver, date and owner are left *)
(* out; every bullet is a "- " bullet.                                     *)
(*                                                                         *)
(* An operator named Mut_... is a wrong variant of the definition below it.*)
(***************************************************************************)
EXTENDS Naturals, SequencesExt, FiniteSetsExt

CONSTANTS
  Text,         \* what a bullet or a request may say
  TitleOf,      \* the title the code reads in a text
  Begins,       \* <<a, b>>: the text b begins with the text a
  Deadline,     \* the M of a "before slice M" in a text, 0 for none
  Decision,
  NoDecision    \* the mark of a bullet nobody has resolved

ASSUME PrdAssumption ==
  /\ TitleOf \in [Text -> Text]
  /\ Deadline \in [Text -> Nat]
  /\ Begins \subseteq Text \X Text
  /\ \A t \in Text : <<t, t>> \in Begins
  /\ NoDecision \notin Decision

LockLine      == [kind |-> "lock"]
Status(v)     == [kind |-> "status", value |-> v]
Heading(oq)   == [kind |-> "heading", questions |-> oq]
OpenMark      == [kind |-> "openMark"]       \* **Open questions:**
RabbitMark    == [kind |-> "rabbitMark"]     \* **Rabbit holes:**
Blank         == [kind |-> "blank"]
Bullet(t, d)  == [kind |-> "bullet", text |-> t, decision |-> d]

PrdLine ==
  {LockLine, OpenMark, RabbitMark, Blank}
    \cup {Status(v) : v \in {"Draft", "Locked"}}
    \cup {Heading(oq) : oq \in BOOLEAN}
    \cup {Bullet(t, d) : t \in Text, d \in Decision \cup {NoDecision}}

(* The places of the lines of these kinds.                                 *)
Places(md, kinds) == {i \in DOMAIN md : md[i].kind \in kinds}

IsLocked(md) == Places(md, {"lock"}) # {}

(* The marker becomes the first line, and the first status line, if there  *)
(* is one, says Locked.                                                    *)
ApplyLock(md) ==
  IF IsLocked(md) THEN md
  ELSE LET s == Places(md, {"status"})
       IN  <<LockLine>> \o
           (IF s = {} THEN md ELSE [md EXCEPT ![Min(s)] = Status("Locked")])

(* The bullets in the Open questions part of a section whose heading names *)
(* open questions.                                                         *)
Questions(md) ==
  {i \in Places(md, {"bullet"}) :
     LET heads == {h \in Places(md, {"heading"}) : h < i}
         marks == {h \in Places(md, {"heading", "openMark", "rabbitMark"}) :
                     h < i}
     IN  /\ heads # {} /\ md[Max(heads)].questions
         /\ md[Max(marks)].kind = "openMark"}

Open(md) == {i \in Questions(md) : md[i].decision = NoDecision}

(* The open questions that gate slice n, the earliest deadline first and in *)
(* the order of the document where the deadlines are equal.                 *)
QuestionsForSlice(md, n) ==
  LET due(i) == Deadline[md[i].text]
  IN  SetToSortSeq({i \in Open(md) : due(i) > 0 /\ due(i) <= n},
                   LAMBDA i, j : due(i) < due(j) \/ (due(i) = due(j) /\ i < j))

Mut_TextOnly(md, q, d) ==
  [i \in DOMAIN md |->
     IF md[i].kind = "bullet" /\ md[i].decision = NoDecision /\ md[i].text = q
     THEN Bullet(q, d) ELSE md[i]]

(* The question is named by the title of an open question or by the whole  *)
(* text of a bullet anywhere in the document; every unresolved bullet with *)
(* that text gets the decision.                                            *)
ResolveQuestion(md, q, d) ==
  LET named == {i \in Open(md) : TitleOf[md[i].text] = q}
      text  == IF named = {} THEN q ELSE md[Min(named)].text
  IN  [i \in DOMAIN md |->
         IF md[i].kind = "bullet" /\ md[i].decision = NoDecision
            /\ md[i].text = text
         THEN Bullet(text, d) ELSE md[i]]

(* The bullet is looked for in the text of the document, so that a longer  *)
(* bullet that begins like it counts.                                      *)
Recorded(md, q, d) ==
  \E i \in Places(md, {"bullet"}) :
    md[i].decision = d /\ <<q, md[i].text>> \in Begins

Insert(md, place, lines) ==
  SubSeq(md, 1, place) \o lines \o SubSeq(md, place + 1, Len(md))

(* Below the marker of the section, or at its end with a marker of its own. *)
InsertBulletInSection(md, head, bullet) ==
  LET end   == Min({i \in Places(md, {"heading"}) : i > head}
                     \cup {Len(md) + 1})
      marks == {i \in Places(md, {"openMark"}) : head < i /\ i < end}
      last  == Max({i \in head .. end - 1 : md[i] # Blank})
  IN  IF marks # {} THEN Insert(md, Min(marks), <<bullet>>)
      ELSE Insert(md, last, <<Blank, OpenMark, bullet>>)

AppendResolvedQuestion(md, q, d) ==
  LET heads  == {i \in Places(md, {"heading"}) : md[i].questions}
      bullet == Bullet(q, d)
  IN  IF Recorded(md, q, d) THEN md
      ELSE IF heads = {}
           THEN md \o <<Blank, Heading(TRUE), Blank, OpenMark, bullet>>
           ELSE InsertBulletInSection(md, Min(heads), bullet)

(* One decision of a request: mark the bullets it names, or else add one.  *)
Resolved(md, q, d) ==
  IF ResolveQuestion(md, q, d) # md THEN ResolveQuestion(md, q, d)
  ELSE AppendResolvedQuestion(md, q, d)
=============================================================================
