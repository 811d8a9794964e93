---------------------------- MODULE AgentOutput -----------------------------
(***************************************************************************)
(* What an agent wrote, and what of it the backend takes for its words     *)
(* (usecase/buildclass.go 39-216 and 258-270).                             *)
(*                                                                         *)
(* The four agents write lines of JSON, each with frames of its own; what  *)
(* is not JSON (stderr, breadcrumbs of the backend) stays a raw line.  A   *)
(* text is the sequence of its lines, and of a line only what some pattern *)
(* of the classifier matches in it.  A pointer to a text is a set with at  *)
(* most one element, so that nil and the empty text differ, as they do in  *)
(* the code.                                                               *)
(***************************************************************************)
EXTENDS Naturals, Sequences

Said ==
  {"prose",      \* matched by no pattern
   "complete",   \* PRD_BUILD_COMPLETE at the start of the line
   "blocked",    \* HARD STOP or BLOCKED: there
   "gate",       \* a NEEDS_DECISION line with a question in its payload
   "bad gate",   \* ... whose payload is malformed or has a blank question
   "limit",      \* a usage limit at the start of the line
   "auth"}       \* an authentication error anywhere in the line

Text == Seq(Said)

(* The content of a message: a plain string, or the text blocks among its  *)
(* blocks, which may be none.                                              *)
Content == [string : BOOLEAN, texts : Seq(Text)]
Message == [role : {"assistant", "other"}, content : Content]

FrameType ==
  {"result", "assistant",      \* claude
   "text",                     \* opencode
   "item.completed",           \* codex: agent_message items are "assistant"
   "message_end", "agent_end", \* omp
   "event"}                    \* tool calls, thinking, deltas: never looked at

(* An agent_end frame carries all messages, every other frame one.         *)
Line == [type : FrameType \cup {"raw"}, messages : Seq(Message)]

Joined(texts) ==
  LET upTo[n \in 0 .. Len(texts)] ==
        IF n = 0 THEN <<>> ELSE upTo[n - 1] \o texts[n]
  IN  upTo[Len(texts)]

(* A string is a text even if it is empty; blocks are one only if one of   *)
(* them is not.                                                            *)
AssistantText(content) ==
  IF content.string THEN {Joined(content.texts)}
  ELSE {Joined(content.texts)} \ {<<>>}

(* The last of several messages in which the assistant has a text.         *)
LastSpoken(messages) ==
  LET spoken == SelectSeq(messages, LAMBDA m : /\ m.role = "assistant"
                                               /\ AssistantText(m.content) # {})
  IN  IF spoken = <<>> THEN {}
      ELSE AssistantText(spoken[Len(spoken)].content)

(* What a frame makes of the result and of the assistant's words so far.   *)
(* Only opencode's frames are parts of one answer and add up.              *)
ApplyStreamMsg(line, heard) ==
  LET message == line.messages[1]
      text    == AssistantText(message.content)
      says(t) == IF t = {} THEN heard ELSE [heard EXCEPT !.assistant = t]
  IN  CASE line.type = "result" ->
             IF message.content.string THEN [heard EXCEPT !.result = text]
             ELSE heard
        [] line.type = "assistant" -> says(text)
        [] line.type = "text" ->
             says({IF heard.assistant = {} THEN t
                   ELSE (CHOOSE a \in heard.assistant : TRUE) \o t :
                     t \in text \ {<<>>}})
        [] line.type = "item.completed" /\ message.role = "assistant" ->
             says(text \ {<<>>})
        [] line.type = "message_end" /\ message.role = "assistant" -> says(text)
        [] line.type = "agent_end" -> says(LastSpoken(line.messages))
        [] OTHER -> heard

(* The agent's last words: its result if it has one, empty or not, else    *)
(* what its assistant said last.  Thinking, tools and stderr, which may    *)
(* mention a sentinel, are no words of its.                                *)
FinalSpokenText(lines) ==
  LET heard[n \in 0 .. Len(lines)] ==
        IF n = 0 THEN [result |-> {}, assistant |-> {}]
        ELSE IF lines[n].type = "raw" THEN heard[n - 1]
        ELSE ApplyStreamMsg(lines[n], heard[n - 1])
      last == heard[Len(lines)]
  IN  IF last.result # {} THEN last.result ELSE last.assistant

Says(final, words) == \E t \in final : \E n \in DOMAIN t : t[n] \in words

(* The first line of the gate's form decides, also if it cannot be parsed. *)
HasDecision(final) ==
  \E t \in final :
    LET gates == SelectSeq(t, LAMBDA said : said \in {"gate", "bad gate"})
    IN  gates # <<>> /\ gates[1] = "gate"

(* Limits are also looked for in what is not JSON.                         *)
LimitScanText(lines) ==
  FinalSpokenText(lines) \cup
    {Joined(lines[n].messages[1].content.texts) :
       n \in {k \in DOMAIN lines : lines[k].type = "raw"}}
=============================================================================
