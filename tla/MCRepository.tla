---------------------------- MODULE MCRepository -----------------------------
(* Instances of Repository: three questions, one of them without a title of *)
(* its own, and two items of the plan track next to one of the PRD track.   *)
EXTENDS Repository, TLC

CONSTANTS long, longTitle, plain, unasked, yes, no

Titles == long :> longTitle @@ longTitle :> longTitle @@ plain :> plain
            @@ unasked :> unasked

Deadlines == long :> 2 @@ longTitle :> 0 @@ plain :> 1 @@ unasked :> 0

(* The question nobody wrote down begins like one that is there.           *)
TextPrefixes == {<<t, t>> : t \in Text} \cup {<<unasked, plain>>}

Ids == [prefix : {"I", "B", "E"}, n : {1}]

Section == <<Heading(TRUE), RabbitMark, Bullet(plain, NoDecision), OpenMark,
             Bullet(long, NoDecision), Bullet(plain, NoDecision)>>

Prds ==
  {<<Status("Draft"), Heading(FALSE), Bullet(plain, NoDecision)>> \o Section,
   <<Heading(TRUE), Blank, Heading(FALSE), Status("Draft")>>,
   <<Status("Draft")>>}

Item(p, s, f) == [prefix |-> p, n |-> 1, status |-> s, plan |-> f]

Items ==
  <<Item("E", "Planned", "absent"), Item("I", "Planned", NoPlan),
    Item("B", "In-progress", "absent")>>

Files ==
  {[prd |-> md, roadmap |-> NoFile] : md \in Prds}
    \cup {[prd |-> NoFile, roadmap |-> Items],
          [prd |-> <<Status("Draft")>>,
           roadmap |-> <<Item("B", "Draft", NoPlan), Item("I", "Blocked", NoPlan)>>]}

Says(q, d) == [question |-> q, decision |-> d]

Lists ==
  {<<Says(long, yes)>>, <<Says(longTitle, no)>>, <<Says(plain, yes)>>,
   <<Says(unasked, no)>>, <<Says(longTitle, yes), Says(plain, no)>>,
   <<Says(plain, no), Says(plain, yes)>>}

Clients == Permutations(Client)
=============================================================================
