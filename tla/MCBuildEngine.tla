--------------------------- MODULE MCBuildEngine ----------------------------
(* Values for model checking BuildEngine.                                  *)
EXTENDS BuildEngine, ResumeDelay, TLC

CONSTANTS w1, w2, l1, noLane, k1, noKey, claude, opencode

OneWorker  == {w1}
TwoWorkers == {w1, w2}
Swap       == Permutations(TwoWorkers)

(* Lines of output: one frame with one text, or with none.                 *)
Frame(type, text) ==
  [type |-> type,
   messages |-> <<[role |-> "assistant",
                   content |-> [string |-> type # "assistant",
                                texts |-> <<text>>]]>>]
ToolUse == [type |-> "assistant",
            messages |-> <<[role |-> "assistant",
                            content |-> [string |-> FALSE, texts |-> <<>>]]>>]
Messages(texts) ==
  [type |-> "agent_end",
   messages |-> [n \in DOMAIN texts |->
                   [role |-> IF n % 2 = 1 THEN "assistant" ELSE "other",
                    content |-> [string |-> TRUE, texts |-> <<texts[n]>>]]]]
Stderr(text) == Frame("raw", text)

(* A build that stops in the middle of its work, one that completes, one   *)
(* that was killed and left no sentinel, one that asks for a decision, one *)
(* that hit a usage limit or an authentication error, one that said        *)
(* nothing: each from the agent where it is least obvious.                 *)
MidTurn ==
  [out |-> <<Frame("assistant", <<"complete">>), Frame("result", <<"prose">>)>>,
   code |-> "zero"]
Success ==
  [out |-> <<Frame("text", <<"complete">>), Stderr(<<"prose">>),
             Frame("text", <<"prose">>)>>, code |-> "zero"]
Killed ==
  [out |-> <<Frame("assistant", <<"prose">>), ToolUse>>, code |-> "none"]
Gate ==
  [out |-> <<Frame("message_end", <<"complete", "gate", "bad gate">>)>>,
   code |-> "zero"]
Limit ==
  [out |-> <<Frame("item.completed", <<"prose">>), Stderr(<<"limit">>)>>,
   code |-> "nonzero"]
Auth ==
  [out |-> <<Stderr(<<"limit">>), Messages(<< <<"auth">>, <<"gate">> >>)>>,
   code |-> "nonzero"]
Silent ==
  [out |-> <<Stderr(<<"complete">>), ToolUse>>, code |-> "zero"]

TurnOrDone == {MidTurn, Success}
AllEndings == {MidTurn, Success, Killed, Gate, Limit, Auth, Silent}

(* The agent's last words, said without going through the output: the last *)
(* result, or what was said last in one piece with the parts after it.     *)
Lines ==
  {Frame(type, text) : type \in {"result", "assistant", "text", "message_end",
                                 "raw"},
                       text \in {<<>>, <<"complete">>}} \cup
  {ToolUse, Frame("item.completed", <<"blocked">>), Frame("event", <<"gate">>),
   Messages(<< <<"prose">>, <<"gate">> >>)}
Outputs == UNION {[1 .. n -> Lines] : n \in 0 .. 3}

WordsOf(line) == AssistantText(line.messages[1].content)
Whole(line) ==
  \/ line.type \in {"assistant", "message_end", "agent_end"} /\ WordsOf(line) # {}
  \/ line.type = "item.completed" /\ WordsOf(line) \ {<<>>} # {}
LastWords(out) ==
  LET results == {n \in DOMAIN out : out[n].type = "result"}
      wholes  == {n \in DOMAIN out : Whole(out[n])}
      last(S) == CHOOSE n \in S \cup {0} : \A k \in S : k <= n
      parts   == [n \in DOMAIN out |->
                    IF n = last(wholes) \/ (n > last(wholes)
                                            /\ out[n].type = "text")
                    THEN Joined(out[n].messages[1].content.texts) ELSE <<>>]
  IN  IF results # {} THEN WordsOf(out[last(results)])
      ELSE IF wholes = {} /\ Joined(parts) = <<>> THEN {}
      ELSE {Joined(parts)}

ASSUME FinalSpokenTextIsLastWords ==
  \A out \in Outputs : FinalSpokenText(out) = LastWords(out)

(* Every ending is classified as its name says.  A build that says it is   *)
(* complete and asks for a decision in one text is pushed and awaits it.   *)
ASSUME EndingsMeanWhatTheySay ==
  /\ \A e \in AllEndings :
       ClassifyOutcome(e, "exit") = CASE e = Success -> "terminal"
                                      [] e = Gate -> "awaiting"
                                      [] e = Silent -> "park"
                                      [] OTHER -> "retryable"
  /\ \A e \in AllEndings :
       DetectLimit(e) = CASE e = Limit -> "usage-limit"
                          [] e = Auth -> "auth-error"
                          [] OTHER -> "none"
  /\ \A e \in AllEndings :
       IsBuildComplete(FinalSpokenText(e.out)) = (e \in {Success, Gate})

(* A resume waits twice as long for each turn without progress, up to the  *)
(* cap; a limit resets when the clock next shows what its message says.    *)
Lesser(a, b) == IF a < b THEN a ELSE b
ASSUME BackoffIsCappedPower ==
  \A base \in 0 .. 3, cap \in 0 .. 40, streak \in 0 .. 5 :
    Backoff(base, cap, streak) = Lesser(base * 2 ^ streak, cap)

Instants == {Minute * (60 * h + m) : h \in 0 .. 47, m \in {0, 59}}
ASSUME ResetIsNextShown ==
  \A hour \in {0, 1, 11, 12, 13, 23, 24}, minute \in {0, 59, 60},
     meridiem \in {"am", "pm", "none"}, now \in {0, 1, Day \div 2, Day - 1} :
    LET c == [hour |-> hour, minute |-> minute, meridiem |-> meridiem]
        shown == {t \in Instants : /\ t > now
                                   /\ (t \div (60 * Minute)) % 24 = Hour24(c)
                                   /\ (t \div Minute) % 60 = minute}
    IN  ParseResetAt(c, 0, now) = {t \in shown : \A u \in shown : t <= u}
=============================================================================
