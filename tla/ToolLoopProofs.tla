---------------------------- MODULE ToolLoopProofs ----------------------------
(***************************************************************************)
(* Theorems about the conversation with the model, for every limit on      *)
(* turns and attempts, whatever the model replies and whatever fails.      *)
(***************************************************************************)
EXTENDS ToolLoop, SequenceTheorems, TLAPS

\* What a reply holds are calls.
RepliesAreCalls == Replies \subseteq Seq(Call)

LEMMA MessageTypes ==
  /\ \A role \in {"system", "user"} : Said(role) \in Message
  /\ \A calls \in Seq(Call) : Reply(calls) \in Message
  /\ \A p, j \in Nat : Result(p, j) \in Message
BY DEF Said, Reply, Result, Message

\* While the calls of a reply are handled, the results of those before it stand between the
\* reply and the end of the messages.
PlaceInv ==
  step = "call" =>
    /\ LatestReply \in 1..Len(messages)
    /\ next \in 1..Len(messages[LatestReply].calls)

TypeInv == TypeOK /\ PlaceInv

LEMMA LoopTypeInit == Init => TypeInv
<1> SUFFICES ASSUME Init PROVE TypeInv
  OBVIOUS
<1>1. prior \in Seq(Message) /\ messages \in Seq(Message) /\ sent \in Seq(Message)
  BY EmptySeq DEF Init
<1>2. step = "start" /\ attempt \in Nat /\ turn \in Nat /\ next \in Nat \ {0}
  BY DEF Init
<1>3. listed \in BOOLEAN
  BY DEF Init
<1>4. PlaceInv
  BY <1>2 DEF PlaceInv
<1> QED
  BY <1>1, <1>2, <1>3, <1>4 DEF TypeInv, TypeOK

\* The calls of a message are a sequence.
LEMMA CallsOf ==
  ASSUME NEW s \in Seq(Message), NEW p \in 1..Len(s)
  PROVE  /\ s[p].calls \in Seq(Call) /\ Len(s[p].calls) \in Nat
         /\ DOMAIN s[p].calls = 1..Len(s[p].calls)
<1>1. s[p] \in Message
  OBVIOUS
<1>2. s[p].calls \in Seq(Call)
  BY <1>1 DEF Message
<1> QED
  BY <1>2

\* The messages a reply or a result is added to keep their places.
LEMMA Appended ==
  ASSUME NEW s \in Seq(Message), NEW m \in Message
  PROVE  /\ Append(s, m) \in Seq(Message) /\ Len(Append(s, m)) = Len(s) + 1
         /\ \A p \in 1..Len(s) : Append(s, m)[p] = s[p]
         /\ Append(s, m)[Len(s) + 1] = m
OBVIOUS

LEMMA LoopTypeStep == ASSUME RepliesAreCalls PROVE TypeInv /\ [Next]_vars => TypeInv'
<1> SUFFICES ASSUME TypeInv, [Next]_vars PROVE TypeInv'
  OBVIOUS
<1> USE DEF TypeInv, TypeOK, PlaceInv, LatestReply, conversation, CopiedList, HandBack, Lose
<1>1. CASE Begin
  <2>1. Said("system") \in Message /\ Said("user") \in Message
    BY MessageTypes
  <2>2. messages' \in Seq(Message)
    BY <1>1, <2>1 DEF Begin
  <2> QED
    BY <1>1, <2>2 DEF Begin
<1>2. CASE Ask
  <2>1. ASSUME NEW calls \in Replies \ {<<>>}, messages' = Append(messages, Reply(calls)),
               prior' = CopiedList, step' = "call", next' = 1
        PROVE  TypeInv'
    <3>1. calls \in Seq(Call) /\ Reply(calls) \in Message
      BY RepliesAreCalls, MessageTypes DEF RepliesAreCalls
    <3>2. Len(calls) \in Nat \ {0}
      BY <2>1, <3>1
    <3>3. LatestReply' = Len(messages) + 1 /\ messages'[Len(messages) + 1] = Reply(calls)
      BY <2>1, <3>1, Appended
    <3>4. messages' \in Seq(Message) /\ Len(messages') = Len(messages) + 1
      BY <2>1, <3>1, Appended
    <3> QED
      BY <1>2, <2>1, <3>2, <3>3, <3>4 DEF Ask, Reply
  <2>2. CASE messages' = Append(messages, Reply(<<>>)) /\ HandBack /\ step' \in {"check", "failed"}
             /\ UNCHANGED next
    <3>1. messages' \in Seq(Message)
      BY <2>2, EmptySeq, MessageTypes, Appended
    <3> QED
      BY <1>2, <2>2, <3>1 DEF Ask
  <2>3. CASE UNCHANGED messages /\ prior' \in {prior, messages} /\ step' = "failed" /\ UNCHANGED next
    BY <1>2, <2>3 DEF Ask
  <2> QED
    BY <1>2, <2>1, <2>2, <2>3 DEF Ask
<1>3. CASE CallTool
  <2>1. CASE Lose /\ step' = "failed" /\ UNCHANGED <<next, turn>>
    BY <1>3, <2>1 DEF CallTool
  <2>2. CASE messages' = Append(messages, Result(LatestReply, next)) /\ prior' = CopiedList
    <3>1. Result(LatestReply, next) \in Message
      BY <1>3, MessageTypes DEF CallTool
    <3>2. messages' \in Seq(Message) /\ Len(messages') = Len(messages) + 1
          /\ messages'[LatestReply] = messages[LatestReply]
      BY <1>3, <2>2, <3>1, Appended DEF CallTool
    <3>3. prior' \in Seq(Message) /\ sent' \in Seq(Message)
          /\ attempt' \in Nat /\ turn' \in Nat /\ listed' \in BOOLEAN
      BY <1>3, <2>2 DEF CallTool
    <3>4. CASE next = Len(messages[LatestReply].calls)
      <4>1. step' = "ask" /\ UNCHANGED next
        BY <1>3, <2>2, <3>4 DEF CallTool
      <4> QED
        BY <3>2, <3>3, <4>1
    <3>5. CASE next # Len(messages[LatestReply].calls)
      <4>1. next' = next + 1 /\ step' = "call"
        BY <1>3, <2>2, <3>5 DEF CallTool
      <4>2. LatestReply' = LatestReply
        BY <3>2, <4>1
      <4>3. step = "call" /\ next \in 1..Len(messages[LatestReply].calls)
        BY <1>3 DEF CallTool
      <4>4. next' \in 1..Len(messages[LatestReply].calls)
        BY <3>5, <4>1, <4>3
      <4>5. PlaceInv'
        BY <3>2, <4>2, <4>3, <4>4
      <4>6. next' \in Nat \ {0}
        BY <4>1
      <4> QED
        BY <3>2, <3>3, <4>1, <4>5, <4>6
    <3> QED
      BY <3>4, <3>5
  <2> QED
    BY <1>3, <2>1, <2>2 DEF CallTool
<1>4. CASE RoundsOver \/ CheckEvidence \/ NextAttempt
  <2>1. step' # "call" /\ UNCHANGED <<messages, sent, turn, next>> /\ prior' \in {prior, messages}
    BY <1>4 DEF RoundsOver, CheckEvidence, NextAttempt
  <2>2. attempt' \in Nat
    BY <1>4 DEF RoundsOver, CheckEvidence, NextAttempt
  <2>3. listed' \in BOOLEAN
    BY <1>4 DEF RoundsOver, CheckEvidence, NextAttempt
  <2>4. step' \in {"failed", "accepted", "start"}
    BY <1>4 DEF RoundsOver, CheckEvidence, NextAttempt
  <2> QED
    BY <2>1, <2>2, <2>3, <2>4
<1>5. CASE UNCHANGED vars
  BY <1>5 DEF vars
<1> QED
  BY <1>1, <1>2, <1>3, <1>4, <1>5 DEF Next

\* The messages and turns of a conversation keep their types.
THEOREM LoopTypes == ASSUME RepliesAreCalls PROVE Spec => []TypeOK
<1>1. TypeInv => TypeOK
  BY DEF TypeInv
<1> QED
  BY LoopTypeInit, LoopTypeStep, <1>1, PTL DEF Spec

(***************************************************************************)
(* Conversations all of whose calls are answered.                          *)
(***************************************************************************)
\* A result is the result of a call of the conversation.
Belongs(s, p) ==
  s[p].role = "tool" =>
    /\ s[p].answers[1] \in 1..Len(s)
    /\ s[p].answers[2] \in 1..Len(s[s[p].answers[1]].calls)

\* All calls are answered but those of one message from one of them on.
SettledUpTo(s, at, n) ==
  \A p \in 1..Len(s) :
    /\ \A j \in 1..Len(s[p].calls) : p # at \/ j < n => Answers(s, p, j)
    /\ Belongs(s, p)

Settled(s) == SettledUpTo(s, 0, 1)

LEMMA AnswersStay ==
  ASSUME NEW s \in Seq(Message), NEW m \in Message, NEW at \in Nat, NEW n \in Nat,
         SettledUpTo(s, at, n), NEW p \in 1..Len(s)
  PROVE  /\ \A j \in 1..Len(s[p].calls) : p # at \/ j < n => Answers(Append(s, m), p, j)
         /\ Belongs(Append(s, m), p)
         /\ Append(s, m)[p] = s[p]
<1> DEFINE t == Append(s, m)
<1>1. t \in Seq(Message) /\ Len(t) = Len(s) + 1 /\ \A q \in 1..Len(s) : t[q] = s[q]
  BY Appended
<1>2. Belongs(t, p)
  BY <1>1 DEF SettledUpTo, Belongs
<1>3. ASSUME NEW j \in 1..Len(s[p].calls), p # at \/ j < n PROVE Answers(t, p, j)
  <2>1. Answers(s, p, j)
    BY <1>3 DEF SettledUpTo
  <2> QED
    BY <1>1, <2>1 DEF Answers
<1> QED
  BY <1>1, <1>2, <1>3

\* A message without calls that is no result leaves a conversation settled.
LEMMA SettledStays ==
  ASSUME NEW s \in Seq(Message), NEW m \in Message, Settled(s),
         Len(m.calls) = 0, m.role # "tool"
  PROVE  Settled(Append(s, m))
<1>1. \A p \in 1..Len(s) :
        /\ \A j \in 1..Len(s[p].calls) : p # 0 \/ j < 1 => Answers(Append(s, m), p, j)
        /\ Belongs(Append(s, m), p)
        /\ Append(s, m)[p] = s[p]
  BY AnswersStay DEF Settled
<1>2. Len(Append(s, m)) = Len(s) + 1 /\ Append(s, m)[Len(s) + 1] = m
  BY Appended
<1> QED
  BY <1>1, <1>2 DEF Settled, SettledUpTo, Belongs

\* A reply is all that is unsettled at first.
LEMMA SettledUpToReply ==
  ASSUME NEW s \in Seq(Message), NEW calls \in Seq(Call), Settled(s)
  PROVE  SettledUpTo(Append(s, Reply(calls)), Len(s) + 1, 1)
<1>1. Reply(calls) \in Message
  BY MessageTypes
<1>2. \A p \in 1..Len(s) :
        /\ \A j \in 1..Len(s[p].calls) : p # 0 \/ j < 1 => Answers(Append(s, Reply(calls)), p, j)
        /\ Belongs(Append(s, Reply(calls)), p)
        /\ Append(s, Reply(calls))[p] = s[p]
  BY <1>1, AnswersStay DEF Settled
<1>3. Len(Append(s, Reply(calls))) = Len(s) + 1 /\ Append(s, Reply(calls))[Len(s) + 1] = Reply(calls)
  BY <1>1, Appended
<1>4. Reply(calls).role # "tool"
  BY DEF Reply
<1> QED
  BY <1>2, <1>3, <1>4 DEF SettledUpTo, Belongs

\* A result settles the call it answers.
LEMMA SettledFurther ==
  ASSUME NEW s \in Seq(Message), NEW at \in 1..Len(s), NEW n \in 1..Len(s[at].calls),
         at + n = Len(s) + 1, SettledUpTo(s, at, n)
  PROVE  SettledUpTo(Append(s, Result(at, n)), at, n + 1)
<1> DEFINE t == Append(s, Result(at, n))
<1>1. Result(at, n) \in Message /\ at \in Nat /\ n \in Nat
  BY MessageTypes
<1>2. \A p \in 1..Len(s) :
        /\ \A j \in 1..Len(s[p].calls) : p # at \/ j < n => Answers(t, p, j)
        /\ Belongs(t, p)
        /\ t[p] = s[p]
  BY <1>1, AnswersStay
<1>3. t \in Seq(Message) /\ Len(t) = Len(s) + 1 /\ t[Len(s) + 1] = Result(at, n)
  BY <1>1, Appended
<1>4. Answers(t, at, n)
  BY <1>3 DEF Answers
<1>5. Belongs(t, Len(s) + 1) /\ Len(t[Len(s) + 1].calls) = 0
  BY <1>2, <1>3, EmptySeq DEF Belongs, Result
<1>6. ASSUME NEW p \in 1..Len(t)
      PROVE  /\ \A j \in 1..Len(t[p].calls) : p # at \/ j < n + 1 => Answers(t, p, j)
             /\ Belongs(t, p)
  <2>1. CASE p = Len(s) + 1
    BY <1>5, <2>1
  <2>2. CASE p # Len(s) + 1
    <3>1. p \in 1..Len(s)
      BY <1>3, <1>6, <2>2
    <3>2. t[p] = s[p] /\ Len(s[p].calls) \in Nat
      <4>1. t[p] = s[p]
        BY <1>2, <3>1
      <4>2. Len(s[p].calls) \in Nat
        BY <3>1, CallsOf
      <4> QED
        BY <4>1, <4>2
    <3>3. ASSUME NEW j \in 1..Len(s[p].calls), p # at \/ j < n + 1 PROVE Answers(t, p, j)
      <4>1. CASE p = at /\ j = n
        BY <1>4, <4>1
      <4>2. CASE p # at \/ j < n
        BY <1>2, <3>1, <4>2
      <4>3. j \in Nat /\ n \in Nat
        BY <3>2
      <4> QED
        BY <3>3, <4>1, <4>2, <4>3
    <3>4. Belongs(t, p)
      BY <1>2, <3>1
    <3> QED
      BY <3>2, <3>3, <3>4
  <2> QED
    BY <2>1, <2>2
<1> QED
  BY <1>6 DEF SettledUpTo

LEMMA SettledAtTheEnd ==
  ASSUME NEW s \in Seq(Message), NEW at \in 1..Len(s), SettledUpTo(s, at, Len(s[at].calls) + 1)
  PROVE  Settled(s)
<1>1. \A p \in 1..Len(s) : Len(s[p].calls) \in Nat
  BY CallsOf
<1>2. ASSUME NEW p \in 1..Len(s), NEW j \in 1..Len(s[p].calls)
      PROVE  p # at \/ j < Len(s[at].calls) + 1
  BY <1>1
<1> QED
  BY <1>2 DEF Settled, SettledUpTo

\* What was sent, what is handed on, and what is about to be sent is settled; while calls are
\* handled, the messages are settled up to the call that is next.
SettledInv ==
  /\ Settled(prior) /\ Settled(sent)
  /\ step = "ask" => Settled(messages)
  /\ step = "call" => SettledUpTo(messages, LatestReply, next)

LEMMA SettledInit == Init => SettledInv
<1> SUFFICES ASSUME Init PROVE SettledInv
  OBVIOUS
<1>1. Len(<<>>) = 0
  BY EmptySeq
<1> QED
  BY <1>1 DEF Init, SettledInv, Settled, SettledUpTo

LEMMA SettledStep ==
  ASSUME RepliesAreCalls PROVE TypeInv /\ SettledInv /\ [Next]_vars => SettledInv'
<1> SUFFICES ASSUME TypeInv, SettledInv, [Next]_vars PROVE SettledInv'
  OBVIOUS
<1>t. prior \in Seq(Message) /\ messages \in Seq(Message) /\ next \in Nat \ {0}
  BY DEF TypeInv, TypeOK
<1> USE DEF SettledInv, conversation, CopiedList, HandBack, Lose
<1>1. CASE Begin
  <2>1. \A role \in {"system", "user"} :
          Said(role) \in Message /\ Len(Said(role).calls) = 0 /\ Said(role).role # "tool"
    BY MessageTypes, EmptySeq DEF Said
  <2>2. Settled(<<Said("system"), Said("user")>>)
    <3> DEFINE s == <<Said("system"), Said("user")>>
    <3>1. Len(s) = 2 /\ s[1] = Said("system") /\ s[2] = Said("user")
      OBVIOUS
    <3>2. \A p \in 1..Len(s) : Len(s[p].calls) = 0 /\ s[p].role # "tool"
      BY <2>1, <3>1
    <3> QED
      BY <3>2 DEF Settled, SettledUpTo, Belongs
  <2>3. Settled(Append(prior, Said("user")))
    BY <1>t, <2>1, SettledStays
  <2>4. Settled(messages')
    BY <1>1, <2>2, <2>3 DEF Begin
  <2> QED
    BY <1>1, <2>4 DEF Begin
<1>2. CASE Ask
  <2>1. Settled(messages) /\ sent' = messages
    BY <1>2 DEF Ask
  <2>2. ASSUME NEW calls \in Replies \ {<<>>}, messages' = Append(messages, Reply(calls)),
               prior' = CopiedList, step' = "call", next' = 1
        PROVE  SettledInv'
    <3>1. calls \in Seq(Call)
      BY RepliesAreCalls DEF RepliesAreCalls
    <3>2. SettledUpTo(messages', Len(messages) + 1, 1)
      BY <1>t, <2>1, <2>2, <3>1, SettledUpToReply
    <3>3. Len(messages') = Len(messages) + 1
      BY <1>t, <2>2, <3>1, MessageTypes, Appended
    <3>4. LatestReply' = Len(messages) + 1
      BY <1>t, <2>2, <3>3 DEF LatestReply
    <3> QED
      BY <2>1, <2>2, <3>2, <3>4
  <2>3. CASE messages' = Append(messages, Reply(<<>>)) /\ HandBack /\ step' \in {"check", "failed"}
    <3>1. Reply(<<>>) \in Message /\ Len(Reply(<<>>).calls) = 0 /\ Reply(<<>>).role # "tool"
      BY MessageTypes, EmptySeq DEF Reply
    <3>2. Settled(messages')
      BY <1>t, <2>1, <2>3, <3>1, SettledStays
    <3> QED
      BY <2>1, <2>3, <3>2
  <2>4. CASE UNCHANGED messages /\ prior' \in {prior, messages} /\ step' = "failed"
    BY <2>1, <2>4
  <2> QED
    BY <1>2, <2>2, <2>3, <2>4 DEF Ask
<1>3. CASE CallTool
  <2>1. CASE Lose /\ step' = "failed"
    BY <1>3, <2>1 DEF CallTool
  <2>2. CASE messages' = Append(messages, Result(LatestReply, next)) /\ prior' = CopiedList
    <3> DEFINE at == LatestReply
    <3>1. /\ step = "call" /\ at \in 1..Len(messages) /\ next \in 1..Len(messages[at].calls)
          /\ at + next = Len(messages) + 1
      BY <1>t, <1>3 DEF CallTool, TypeInv, PlaceInv, LatestReply
    <3>2. SettledUpTo(messages', at, next + 1)
      BY <1>t, <2>2, <3>1, SettledFurther
    <3>3. Result(at, next) \in Message
      BY <3>1, MessageTypes
    <3>4. /\ messages' \in Seq(Message) /\ Len(messages') = Len(messages) + 1
          /\ messages'[at] = messages[at]
      BY <1>t, <2>2, <3>1, <3>3, Appended
    <3>5. CASE next = Len(messages[at].calls) /\ step' = "ask"
      <4>1. at \in 1..Len(messages') /\ SettledUpTo(messages', at, Len(messages'[at].calls) + 1)
        BY <3>1, <3>2, <3>4, <3>5
      <4>2. Settled(messages')
        BY <3>4, <4>1, SettledAtTheEnd
      <4> QED
        BY <1>3, <2>2, <3>5, <4>2 DEF CallTool
    <3>6. CASE next' = next + 1 /\ UNCHANGED step
      <4>1. LatestReply' = at
        BY <1>t, <3>1, <3>4, <3>6 DEF LatestReply
      <4> QED
        BY <1>3, <2>2, <3>1, <3>2, <3>6, <4>1 DEF CallTool
    <3> QED
      BY <1>3, <2>2, <3>5, <3>6 DEF CallTool
  <2> QED
    BY <1>3, <2>1, <2>2 DEF CallTool
<1>4. CASE RoundsOver
  BY <1>4 DEF RoundsOver
<1>5. CASE CheckEvidence \/ NextAttempt
  BY <1>5 DEF CheckEvidence, NextAttempt
<1>6. CASE UNCHANGED vars
  BY <1>6 DEF vars, LatestReply
<1> QED
  BY <1>1, <1>2, <1>3, <1>4, <1>5, <1>6 DEF Next

\* Whatever the model calls and whichever attempts break off, every request is one whose tool
\* calls are all answered in place.
THEOREM RequestsAreAnswered == ASSUME RepliesAreCalls PROVE Spec => []CallsAreAnswered
<1>1. TypeInv /\ SettledInv => CallsAreAnswered
  <2> SUFFICES ASSUME TypeInv, SettledInv, NEW p \in DOMAIN sent
               PROVE  /\ \A j \in DOMAIN sent[p].calls : Answers(sent, p, j)
                      /\ sent[p].role = "tool" =>
                           sent[p].answers[2] \in DOMAIN sent[sent[p].answers[1]].calls
    BY DEF CallsAreAnswered
  <2>1. sent \in Seq(Message) /\ p \in 1..Len(sent)
    BY DEF TypeInv, TypeOK
  <2>2. \A q \in 1..Len(sent) : DOMAIN sent[q].calls = 1..Len(sent[q].calls)
    BY <2>1, CallsOf
  <2>3. /\ \A j \in 1..Len(sent[p].calls) : p # 0 \/ j < 1 => Answers(sent, p, j)
        /\ Belongs(sent, p)
    BY <2>1 DEF SettledInv, Settled, SettledUpTo
  <2> QED
    BY <2>1, <2>2, <2>3 DEF Belongs
<1> QED
  BY LoopTypeInit, LoopTypeStep, SettledInit, SettledStep, <1>1, PTL DEF Spec

(***************************************************************************)
(* The evidence of an accepted answer.                                     *)
(***************************************************************************)
\* An answer that is checked is the reply to the latest request.
EvidenceInv ==
  /\ step \in {"check", "accepted"} => prior = Append(sent, Reply(<<>>))
  /\ step = "accepted" /\ listed => EveryGroup

LEMMA EvidenceInit == Init => EvidenceInv
BY DEF Init, EvidenceInv

LEMMA EvidenceStep == EvidenceInv /\ [Next]_vars => EvidenceInv'
<1> SUFFICES ASSUME EvidenceInv, [Next]_vars PROVE EvidenceInv'
  OBVIOUS
<1> USE DEF EvidenceInv, conversation, HandBack
<1>1. CASE Begin \/ CallTool \/ RoundsOver \/ NextAttempt
  BY <1>1 DEF Begin, CallTool, RoundsOver, NextAttempt
<1>2. CASE Ask
  BY <1>2 DEF Ask
<1>3. CASE CheckEvidence
  BY <1>3 DEF CheckEvidence, EveryGroup, Used
<1>4. CASE UNCHANGED vars
  BY <1>4 DEF vars, EveryGroup, Used
<1> QED
  BY <1>1, <1>2, <1>3, <1>4 DEF Next

\* The model has had results of every group of tools before it when it gives an answer that
\* is accepted.
THEOREM AcceptedAnswersSawEvidence == ASSUME RepliesAreCalls PROVE Spec => []EvidenceWasSeen
<1>1. TypeInv /\ SettledInv /\ EvidenceInv => EvidenceWasSeen
  <2> SUFFICES ASSUME TypeInv, SettledInv, EvidenceInv, step = "accepted", listed,
                      NEW group \in Groups
               PROVE  \E p \in DOMAIN sent : \E j \in DOMAIN sent[p].calls :
                        sent[p].calls[j].name = group /\ Answers(sent, p, j)
    BY DEF EvidenceWasSeen
  <2>1. sent \in Seq(Message) /\ prior \in Seq(Message) /\ prior = Append(sent, Reply(<<>>))
    BY DEF TypeInv, TypeOK, EvidenceInv
  <2>2. PICK p \in DOMAIN prior : \E j \in DOMAIN prior[p].calls : prior[p].calls[j].name = group
    BY DEF EvidenceInv, EveryGroup, Used
  <2>3. Reply(<<>>) \in Message /\ Reply(<<>>).calls = <<>>
    BY MessageTypes, EmptySeq DEF Reply
  <2>4. p \in 1..(Len(sent) + 1) /\ (p = Len(sent) + 1 => prior[p].calls = <<>>)
        /\ (p \in 1..Len(sent) => prior[p] = sent[p])
    BY <2>1, <2>3, Appended
  <2>5. p \in 1..Len(sent) /\ prior[p] = sent[p]
    BY <2>1, <2>2, <2>4
  <2>6. PICK j \in DOMAIN sent[p].calls : sent[p].calls[j].name = group
    BY <2>2, <2>5
  <2>7. j \in 1..Len(sent[p].calls)
    <3>1. DOMAIN sent[p].calls = 1..Len(sent[p].calls)
      BY <2>1, <2>5, CallsOf
    <3> QED
      BY <2>6, <3>1
  <2>8. Answers(sent, p, j)
    BY <2>5, <2>7 DEF SettledInv, Settled, SettledUpTo
  <2> QED
    BY <2>1, <2>5, <2>6, <2>8
<1> QED
  BY LoopTypeInit, LoopTypeStep, SettledInit, SettledStep, EvidenceInit, EvidenceStep, <1>1, PTL
  DEF Spec
===============================================================================
