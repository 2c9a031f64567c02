------------------------------- MODULE ToolLoop -------------------------------
(***************************************************************************)
(* The conversation with the model about one layer: run_tool_loop of       *)
(* llm_agent.py turn by turn, over the attempts of run_generator, which    *)
(* hands the conversation of one attempt to the next, and the check of the *)
(* prior evidence it makes of the ledger of tool calls.  Generator has all *)
(* of this as one step and what comes after it in full.                    *)
(*                                                                         *)
(* A conversation is a sequence of messages.  A tool is one of the three   *)
(* groups the evidence is asked for, or another; a tool call is identified *)
(* by the places of its message and of itself in it.                       *)
(***************************************************************************)
EXTENDS Naturals, Sequences

CONSTANTS
  MaxToolRounds,  \* config.max_tool_rounds
  MaxAttempts,    \* config.max_attempts
  Replies,        \* the sequences of tool calls a message of the model may have
  Faults          \* what may go wrong, see AllFaults

AllFaults == {
  "endpoint",   \* the model endpoint raises
  "unusable" }  \* it answers with a message that is no object

Groups == {"tested", "successes", "history"}
Call == [name : Groups \cup {"other"},
         form : {"whole", "nameless", "anonymous"}]  \* without function or name; without id

VARIABLES
  prior,     \* prior_messages of run_generator, <<>> for None
  messages,  \* messages of run_tool_loop
  attempt, turn,
  next,      \* which call of the latest message is handled next
  step,      \* where the attempt is
  sent,      \* the latest request to the endpoint
  listed     \* a tested pipeline was listed when the evidence was last checked

conversation == <<prior, messages, sent>>
vars == <<conversation, attempt, turn, next, step, listed>>

Said(role)   == [role |-> role, calls |-> <<>>, answers |-> <<0, 0>>]
Reply(calls) == [role |-> "assistant", calls |-> calls, answers |-> <<0, 0>>]
Result(p, j) == [role |-> "tool", calls |-> <<>>, answers |-> <<p, j>>]
Message == [role : {"system", "user", "assistant", "tool"}, calls : Seq(Call), answers : Nat \X Nat]

Init ==
  /\ prior = <<>> /\ messages = <<>> /\ sent = <<>>
  /\ attempt = 1 /\ turn = 1 /\ next = 1 /\ step = "start" /\ listed = FALSE

\* What the list of the caller holds once the loop has appended to its own.
SharedList == IF prior = <<>> THEN prior ELSE messages'  \* deviation: there is one list only
CopiedList == prior

\* The loop returns its messages, and so do the exceptions it prepares.
HandBack == prior' = messages'
Lose == UNCHANGED <<prior, messages>>

Begin ==
  /\ step = "start" /\ step' = "ask" /\ turn' = 1
  /\ messages' = IF prior = <<>> THEN <<Said("system"), Said("user")>>
                                 ELSE Append(prior, Said("user"))
  /\ prior' = CopiedList
  /\ UNCHANGED <<sent, attempt, next, listed>>

\* One turn up to the answer.  An answer without calls ends the loop, with an exception when
\* it has no JSON object in it.
Ask ==
  /\ step = "ask" /\ turn <= MaxToolRounds
  /\ sent' = messages
  /\ \/ \E calls \in Replies \ {<<>>} :
          /\ messages' = Append(messages, Reply(calls)) /\ prior' = CopiedList
          /\ step' = "call" /\ next' = 1
     \/ /\ messages' = Append(messages, Reply(<<>>)) /\ HandBack
        /\ step' \in {"check", "failed"} /\ UNCHANGED next
     \/ "endpoint" \in Faults /\ messages' = messages /\ HandBack
          /\ step' = "failed" /\ UNCHANGED next
     \/ "unusable" \in Faults /\ Lose /\ step' = "failed" /\ UNCHANGED next
  /\ UNCHANGED <<attempt, turn, listed>>

\* The calls of a reply, one by one.  A tool that raises is answered with its error; a call
\* that is not whole raises outside the try, and nobody carries the messages.
LatestReply == Len(messages) + 1 - next

CallTool ==
  LET calls == messages[LatestReply].calls
  IN  /\ step = "call"
      /\ \/ /\ calls[next].form = "whole"
            /\ messages' = Append(messages, Result(LatestReply, next)) /\ prior' = CopiedList
            /\ IF next = Len(calls) THEN step' = "ask" /\ turn' = turn + 1 /\ UNCHANGED next
                                    ELSE next' = next + 1 /\ UNCHANGED <<step, turn>>
         \/ /\ calls[next].form # "whole"
            /\ Lose /\ step' = "failed" /\ UNCHANGED <<next, turn>>
      /\ UNCHANGED <<sent, attempt, listed>>

RoundsOver ==
  /\ step = "ask" /\ turn > MaxToolRounds /\ step' = "failed"
  /\ messages' = messages /\ HandBack
  /\ UNCHANGED <<sent, attempt, turn, next, listed>>

\* tool_ledger: the named calls of the whole conversation.  _require_prior_evidence reads the
\* catalog anew every time.
Used == {group \in Groups : \E p \in DOMAIN prior : \E j \in DOMAIN prior[p].calls :
           prior[p].calls[j].name = group}

AnyGroup == Used # {}  \* deviation: one group of tools is enough
EveryGroup == Used = Groups

CheckEvidence ==
  /\ step = "check" /\ listed' \in BOOLEAN
  /\ step' = IF listed' => EveryGroup THEN "accepted" ELSE "failed"
  /\ UNCHANGED <<conversation, attempt, turn, next>>

\* An accepted answer may still be invalid, or its job fail.
NextAttempt ==
  /\ step \in {"failed", "accepted"} /\ attempt < MaxAttempts
  /\ step' = "start" /\ attempt' = attempt + 1
  /\ UNCHANGED <<conversation, turn, next, listed>>

Next == Begin \/ Ask \/ CallTool \/ RoundsOver \/ CheckEvidence \/ NextAttempt

Spec == Init /\ [][Next]_vars
-----------------------------------------------------------------------------
TypeOK ==
  /\ prior \in Seq(Message) /\ messages \in Seq(Message) /\ sent \in Seq(Message)
  /\ attempt \in Nat /\ turn \in Nat /\ next \in Nat \ {0} /\ listed \in BOOLEAN
  /\ step \in {"start", "ask", "call", "check", "accepted", "failed"}

Answers(s, p, j) == p + j \in DOMAIN s /\ s[p + j] = Result(p, j)

\* Every request answers each tool call of the conversation right behind it and in order, and
\* holds no other results, whichever attempts broke off in the middle of their calls.
CallsAreAnswered ==
  \A p \in DOMAIN sent :
    /\ \A j \in DOMAIN sent[p].calls : Answers(sent, p, j)
    /\ sent[p].role = "tool" => sent[p].answers[2] \in DOMAIN sent[sent[p].answers[1]].calls

\* An answer is accepted beside a tested pipeline only if the model had a result from every
\* group of tools in front of it when it gave it.
EvidenceWasSeen ==
  step = "accepted" /\ listed =>
    \A group \in Groups : \E p \in DOMAIN sent : \E j \in DOMAIN sent[p].calls :
      sent[p].calls[j].name = group /\ Answers(sent, p, j)
=============================================================================
