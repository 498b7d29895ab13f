-------------------------- MODULE ReactAgentProofs --------------------------
(***************************************************************************)
(* The loop of ReactAgent.answer, for any step budget and any call ids.    *)
(* The invariant describes the conversation: before the last response      *)
(* every call is answered, and the calls of the last one are answered or   *)
(* still pending.                                                          *)
(***************************************************************************)
EXTENDS ReactAgent, SequenceTheorems, FiniteSetTheorems, TLAPS

\* Every call of response i is answered.
Settled(ms, i) == \A id \in ms[i].calls : AnsweredIn(ms, i, id)

\* A response that only observations follow.
Open(ms, i) ==
  /\ ms[i].role = "assistant"
  /\ \A k \in (i + 1) .. Len(ms) : ms[k].role = "tool"

\* Every observation answers a call of the response it follows.
Paired(ms) ==
  \A j \in 1 .. Len(ms) : ms[j].role = "tool" =>
    \E i \in 1 .. Len(ms) :
      /\ i < j
      /\ ms[i].role = "assistant"
      /\ ms[j].calls \subseteq ms[i].calls
      /\ \A k \in (i + 1) .. j : ms[k].role = "tool"

AllSettled(ms) == \A i \in 1 .. Len(ms) : ms[i].role = "assistant" => Settled(ms, i)

\* The calls still to be executed are calls of the last response, whose other calls
\* are answered, and so are those of every earlier one.
Awaiting(ms, calls) ==
  \E i \in 1 .. Len(ms) :
    /\ Open(ms, i)
    /\ \A n \in 1 .. Len(calls) : calls[n] \in ms[i].calls
    /\ \A id \in ms[i].calls :
         AnsweredIn(ms, i, id) \/ \E n \in 1 .. Len(calls) : calls[n] = id
    /\ \A h \in 1 .. Len(ms) : ms[h].role = "assistant" /\ h # i => Settled(ms, h)

Conversation ==
  /\ Paired(messages)
  /\ pc \in {"chatting", "forcing"} => AllSettled(messages) /\ pending = <<>>
  /\ pc = "acting" => Awaiting(messages, pending) /\ pending # <<>>

\* A chat is asked for only within the budget, and one more when it is forced.
Budgeted ==
  /\ pc = "chatting" => steps < MaxSteps
  /\ pc \in {"acting", "forcing"} => steps <= MaxSteps
  /\ pc = "forcing" => force
  /\ steps <= MaxSteps + (IF force THEN 1 ELSE 0)

Undecided == pc # "done" => final = Empty /\ failure = NoFailure

Inv == TypeOK /\ Conversation /\ Budgeted /\ Undecided

----------------------------------------------------------------------------
(* What one more message does to a conversation.                           *)

LEMMA Extended ==
  ASSUME NEW ms \in Seq(Message), NEW m \in Message
  PROVE  /\ Append(ms, m) \in Seq(Message)
         /\ Len(Append(ms, m)) = Len(ms) + 1
         /\ \A i \in 1 .. Len(ms) : Append(ms, m)[i] = ms[i]
         /\ Append(ms, m)[Len(ms) + 1] = m
         /\ Len(ms) \in Nat
BY AppendProperties

LEMMA MessagesTyped ==
  /\ \A calls \in SUBSET CallIds : Said(calls) \in Message
  /\ \A id \in CallIds : Observed(id) \in Message
  /\ Asked \in Message
BY DEF Said, Observed, Asked, Message

\* An answer stays one, whatever follows.
LEMMA AnswerKept ==
  ASSUME NEW ms \in Seq(Message), NEW m \in Message, NEW i \in 1 .. Len(ms), NEW id,
         AnsweredIn(ms, i, id)
  PROVE  AnsweredIn(Append(ms, m), i, id)
<1>1. PICK j \in (i + 1) .. Len(ms) : ms[j] = Observed(id)
                                      /\ \A k \in (i + 1) .. j : ms[k].role = "tool"
  BY DEF AnsweredIn
<1>2. j \in (i + 1) .. Len(Append(ms, m)) /\ Append(ms, m)[j] = Observed(id)
  BY <1>1, Extended
<1>3. \A k \in (i + 1) .. j : Append(ms, m)[k].role = "tool"
  BY <1>1, Extended
<1>4. QED
  BY <1>2, <1>3 DEF AnsweredIn

LEMMA SettledKept ==
  ASSUME NEW ms \in Seq(Message), NEW m \in Message, NEW i \in 1 .. Len(ms), Settled(ms, i)
  PROVE  Settled(Append(ms, m), i)
BY AnswerKept, Extended DEF Settled

\* A message that carries no call opens nothing.
LEMMA AllSettledKept ==
  ASSUME NEW ms \in Seq(Message), NEW m \in Message, AllSettled(ms),
         m.role = "assistant" => m.calls = {}
  PROVE  AllSettled(Append(ms, m))
<1>1. ASSUME NEW i \in 1 .. Len(Append(ms, m)), Append(ms, m)[i].role = "assistant"
      PROVE  Settled(Append(ms, m), i)
  <2>1. CASE i \in 1 .. Len(ms)
    BY <1>1, <2>1, Extended, SettledKept DEF AllSettled
  <2>2. CASE i = Len(ms) + 1
    BY <1>1, <2>2, Extended DEF Settled
  <2>3. QED
    BY <2>1, <2>2, Extended
<1>2. QED
  BY <1>1 DEF AllSettled

\* A message that is no observation pairs with nothing.
LEMMA PairedKept ==
  ASSUME NEW ms \in Seq(Message), NEW m \in Message, Paired(ms), m.role # "tool"
  PROVE  Paired(Append(ms, m))
<1>1. ASSUME NEW j \in 1 .. Len(Append(ms, m)), Append(ms, m)[j].role = "tool"
      PROVE  \E i \in 1 .. Len(Append(ms, m)) :
               /\ i < j
               /\ Append(ms, m)[i].role = "assistant"
               /\ Append(ms, m)[j].calls \subseteq Append(ms, m)[i].calls
               /\ \A k \in (i + 1) .. j : Append(ms, m)[k].role = "tool"
  <2>1. j \in 1 .. Len(ms) /\ ms[j].role = "tool"
    BY <1>1, Extended
  <2>2. PICK i \in 1 .. Len(ms) :
          /\ i < j
          /\ ms[i].role = "assistant"
          /\ ms[j].calls \subseteq ms[i].calls
          /\ \A k \in (i + 1) .. j : ms[k].role = "tool"
    BY <2>1 DEF Paired
  <2>3. QED
    BY <2>1, <2>2, Extended
<1>2. QED
  BY <1>1 DEF Paired

\* The observation of a call of the open response answers it and leaves it open.
LEMMA ObservedPairs ==
  ASSUME NEW ms \in Seq(Message), NEW i \in 1 .. Len(ms), NEW id \in CallIds,
         Paired(ms), Open(ms, i), id \in ms[i].calls
  PROVE  /\ Paired(Append(ms, Observed(id)))
         /\ Open(Append(ms, Observed(id)), i)
         /\ AnsweredIn(Append(ms, Observed(id)), i, id)
<1> DEFINE m == Observed(id)
           more == Append(ms, m)
<1>1. m \in Message /\ m.role = "tool" /\ m.calls = {id}
  BY MessagesTyped DEF Observed
<1>2. /\ Len(more) = Len(ms) + 1 /\ more[Len(ms) + 1] = m /\ Len(ms) \in Nat
      /\ \A k \in 1 .. Len(ms) : more[k] = ms[k]
  BY <1>1, Extended
<1> HIDE DEF m, more
<1>3. more[i].role = "assistant" /\ \A k \in (i + 1) .. Len(more) : more[k].role = "tool"
  <2>1. ASSUME NEW k \in (i + 1) .. Len(more) PROVE more[k].role = "tool"
    <3>1. k \in (i + 1) .. Len(ms) \/ k = Len(ms) + 1
      BY <1>2
    <3>2. QED
      BY <3>1, <1>1, <1>2 DEF Open
  <2>2. QED
    BY <2>1, <1>2 DEF Open
<1>4. Open(more, i)
  BY <1>3 DEF Open
<1>5. AnsweredIn(more, i, id)
  BY <1>2, <1>3 DEF AnsweredIn, m
<1>6. Paired(more)
  <2>1. ASSUME NEW j \in 1 .. Len(more), more[j].role = "tool"
        PROVE  \E h \in 1 .. Len(more) :
                 /\ h < j
                 /\ more[h].role = "assistant"
                 /\ more[j].calls \subseteq more[h].calls
                 /\ \A k \in (h + 1) .. j : more[k].role = "tool"
    <3>1. CASE j \in 1 .. Len(ms)
      <4>1. PICK h \in 1 .. Len(ms) :
              /\ h < j
              /\ ms[h].role = "assistant"
              /\ ms[j].calls \subseteq ms[h].calls
              /\ \A k \in (h + 1) .. j : ms[k].role = "tool"
        BY <2>1, <3>1, <1>2 DEF Paired
      <4>2. QED
        BY <4>1, <3>1, <1>2
    <3>2. CASE j = Len(ms) + 1
      <4>1. i < j /\ i \in 1 .. Len(more) /\ more[j].calls \subseteq more[i].calls
        BY <3>2, <1>1, <1>2
      <4>2. QED
        BY <4>1, <3>2, <1>2, <1>3
    <3>3. QED
      BY <3>1, <3>2, <1>2
  <2>2. QED
    BY <2>1 DEF Paired
<1>7. QED
  BY <1>4, <1>5, <1>6 DEF m, more

\* No call is pending exactly when none is left.
LEMMA NoneLeft ==
  ASSUME NEW calls \in Seq(CallIds)
  PROVE  /\ Len(calls) \in Nat
         /\ Len(calls) = 0 <=> calls = <<>>
<1>1. Len(<<>>) = 0 /\ (calls # <<>> => Len(calls) \in Nat \ {0})
  BY EmptySeq
<1>2. QED
  BY <1>1, LenProperties

\* Executing a call leaves one less.
LEMMA OneLess ==
  ASSUME NEW calls \in Seq(CallIds), calls # <<>>
  PROVE  /\ Tail(calls) \in Seq(CallIds)
         /\ Len(Tail(calls)) = Len(calls) - 1
         /\ Len(calls) \in Nat \ {0}
         /\ Len(calls) = 1 <=> Tail(calls) = <<>>
<1>1. Len(calls) \in Nat \ {0}
  BY NoneLeft
<1>2. Tail(calls) \in Seq(CallIds) /\ Len(Tail(calls)) = Len(calls) - 1
  BY <1>1
<1>3. Len(Tail(calls)) = 0 <=> Tail(calls) = <<>>
  BY <1>2, NoneLeft
<1>4. Len(calls) = 1 <=> Len(Tail(calls)) = 0
  BY <1>1, <1>2
<1>5. QED
  BY <1>1, <1>2, <1>3, <1>4

\* A response with calls, all of them to be executed, is the new open one.
LEMMA CallsAwait ==
  ASSUME NEW ms \in Seq(Message), NEW ids \in SUBSET CallIds, NEW calls \in Seq(CallIds),
         AllSettled(ms),
         \A n \in 1 .. Len(calls) : calls[n] \in ids,
         \A id \in ids : \E n \in 1 .. Len(calls) : calls[n] = id
  PROVE  Awaiting(Append(ms, Said(ids)), calls)
<1> DEFINE m == Said(ids)
           more == Append(ms, m)
           i == Len(ms) + 1
<1>1. m \in Message /\ m.role = "assistant" /\ m.calls = ids
  BY MessagesTyped DEF Said
<1>2. /\ Len(more) = i /\ more[i] = m /\ Len(ms) \in Nat
      /\ \A k \in 1 .. Len(ms) : more[k] = ms[k]
  BY <1>1, Extended
<1>3. \A h \in 1 .. Len(more) : more[h].role = "assistant" /\ h # i => Settled(more, h)
  BY <1>1, <1>2, SettledKept DEF AllSettled
<1> HIDE DEF m, more
<1>4. Open(more, i)
  BY <1>1, <1>2 DEF Open
<1>5. i \in 1 .. Len(more) /\ more[i].calls = ids
  BY <1>1, <1>2
<1>6. QED
  BY <1>3, <1>4, <1>5 DEF Awaiting, m, more

\* Executing the first pending call leaves the others pending, and none at the end.
LEMMA ObservedAwaits ==
  ASSUME NEW ms \in Seq(Message), NEW calls \in Seq(CallIds), calls # <<>>,
         Paired(ms), Awaiting(ms, calls)
  PROVE  LET more == Append(ms, Observed(Head(calls))) IN
           /\ more \in Seq(Message)
           /\ Paired(more)
           /\ Awaiting(more, Tail(calls))
           /\ Tail(calls) = <<>> => AllSettled(more)
<1> DEFINE id == Head(calls)
           m == Observed(id)
           more == Append(ms, m)
<1>1. PICK i \in 1 .. Len(ms) :
        /\ Open(ms, i)
        /\ \A n \in 1 .. Len(calls) : calls[n] \in ms[i].calls
        /\ \A c \in ms[i].calls :
             AnsweredIn(ms, i, c) \/ \E n \in 1 .. Len(calls) : calls[n] = c
        /\ \A h \in 1 .. Len(ms) : ms[h].role = "assistant" /\ h # i => Settled(ms, h)
  BY DEF Awaiting
<1>2. /\ Tail(calls) \in Seq(CallIds) /\ Len(calls) \in Nat /\ Len(calls) >= 1
      /\ Len(Tail(calls)) = Len(calls) - 1
      /\ \A n \in 1 .. Len(Tail(calls)) : Tail(calls)[n] = calls[n + 1]
      /\ id = calls[1] /\ id \in CallIds
  BY HeadTailProperties, EmptySeq, LenProperties
<1>3. m \in Message /\ m.role = "tool"
  BY <1>2, MessagesTyped DEF Observed
<1>4. /\ more \in Seq(Message) /\ Len(more) = Len(ms) + 1 /\ Len(ms) \in Nat
      /\ more[Len(ms) + 1] = m /\ \A k \in 1 .. Len(ms) : more[k] = ms[k]
  BY <1>3, Extended
<1>5. Paired(more) /\ Open(more, i) /\ AnsweredIn(more, i, id)
  BY <1>1, <1>2, ObservedPairs
<1>6. \A c \in ms[i].calls : AnsweredIn(ms, i, c) => AnsweredIn(more, i, c)
  BY <1>3, AnswerKept
<1>7. \A h \in 1 .. Len(ms) : Settled(ms, h) => Settled(more, h)
  BY <1>3, SettledKept
<1> HIDE DEF id, m, more
<1>8. \A c \in more[i].calls :
        AnsweredIn(more, i, c) \/ \E n \in 1 .. Len(Tail(calls)) : Tail(calls)[n] = c
  <2>1. ASSUME NEW c \in ms[i].calls, ~AnsweredIn(more, i, c)
        PROVE  \E n \in 1 .. Len(Tail(calls)) : Tail(calls)[n] = c
    <3>1. PICK n \in 1 .. Len(calls) : calls[n] = c
      BY <1>1, <1>6, <2>1
    <3>2. n # 1
      BY <3>1, <2>1, <1>2, <1>5
    <3>3. n - 1 \in 1 .. Len(Tail(calls)) /\ Tail(calls)[n - 1] = c
      BY <3>1, <3>2, <1>2
    <3>4. QED
      BY <3>3
  <2>2. QED
    BY <2>1, <1>4
<1>9. \A n \in 1 .. Len(Tail(calls)) : Tail(calls)[n] \in more[i].calls
  BY <1>1, <1>2, <1>4
<1>10. \A h \in 1 .. Len(more) : more[h].role = "assistant" /\ h # i => Settled(more, h)
  BY <1>1, <1>3, <1>4, <1>7
<1>11. Awaiting(more, Tail(calls))
  BY <1>4, <1>5, <1>8, <1>9, <1>10 DEF Awaiting
<1>12. Tail(calls) = <<>> => AllSettled(more)
  <2>1. Tail(calls) = <<>> => Len(Tail(calls)) = 0
    BY <1>2, EmptySeq
  <2>2. Tail(calls) = <<>> => \A c \in more[i].calls : AnsweredIn(more, i, c)
    BY <1>8, <2>1
  <2>3. Tail(calls) = <<>> => Settled(more, i)
    BY <2>2 DEF Settled
  <2>4. QED
    BY <2>3, <1>10 DEF AllSettled
<1>13. QED
  BY <1>4, <1>5, <1>11, <1>12 DEF id, m, more

\* The prompt of the forced answer is a message of the user.
LEMMA PromptedKeeps ==
  ASSUME NEW ms \in Seq(Message), Paired(ms), AllSettled(ms)
  PROVE  /\ Prompted(ms) \in Seq(Message)
         /\ Paired(Prompted(ms))
         /\ AllSettled(Prompted(ms))
<1>1. Asked \in Message /\ Asked.role = "user"
  BY MessagesTyped DEF Asked
<1>2. QED
  BY <1>1, Extended, PairedKept, AllSettledKept DEF Prompted

----------------------------------------------------------------------------
(* The actions.                                                            *)

LEMMA VerdictTyped ==
  ASSUME NEW text, NEW atBudget, NEW byLLM \in FailureTypes
  PROVE  Verdict(text, atBudget, byLLM) \in FailureTypes
BY DEF Verdict, FailureTypes, NoFailure, Provider

\* Before the first chat.
LEMMA InitInv == Init => Inv
<1> SUFFICES ASSUME Init PROVE Inv
  OBVIOUS
<1>1. TypeOK
  <2>1. messages \in Seq(Message) /\ pending \in Seq(CallIds)
    BY DEF Init
  <2>2. steps \in 0 .. (MaxSteps + 1)
    BY AgentAssumption DEF Init
  <2>3. failure \in FailureTypes
    BY DEF Init, FailureTypes
  <2>4. QED
    BY <2>1, <2>2, <2>3 DEF Init, TypeOK
<1>2. Len(messages) = 0
  BY DEF Init
<1>3. Conversation
  BY <1>2 DEF Init, Conversation, Paired, AllSettled
<1>4. Budgeted /\ Undecided
  BY AgentAssumption DEF Init, Budgeted, Undecided
<1>5. QED
  BY <1>1, <1>3, <1>4 DEF Inv

\* What ends the question says why, within its budget.
LEMMA FinishInv ==
  ASSUME Inv, NEW text \in {Option, Prose, Empty}, NEW atBudget \in BOOLEAN,
         NEW byLLM \in FailureTypes, Finish(text, atBudget, byLLM),
         UNCHANGED <<config, pending>>, blamed' \in BOOLEAN,
         messages' \in Seq(Message), Paired(messages'),
         usage' \in Nat, billed' \in Nat,
         steps' \in Nat, steps' <= MaxSteps + (IF force THEN 1 ELSE 0)
  PROVE  Inv'
<1>1. pc' = "done" /\ final' = text /\ stopped' = atBudget /\ failure' \in FailureTypes
  BY VerdictTyped DEF Finish
<1>2. steps' \in 0 .. (MaxSteps + 1)
  BY AgentAssumption
<1>3. TypeOK'
  BY <1>1, <1>2 DEF Inv, TypeOK, config
<1>4. Conversation' /\ Budgeted' /\ Undecided'
  BY <1>1 DEF Conversation, Budgeted, Undecided, config, Paired
<1>5. QED
  BY <1>3, <1>4 DEF Inv

\* Without a text, the question is forced to an answer, or ends.
LEMMA NoAnswerInv ==
  ASSUME Inv, pc # "done", NoAnswer,
         NEW ms \in Seq(Message), Paired(ms), AllSettled(ms), messages' = Prompted(ms),
         pending' = <<>>, UNCHANGED config, blamed' \in BOOLEAN,
         usage' \in Nat, billed' \in Nat, steps' \in Nat, steps' <= MaxSteps
  PROVE  Inv'
<1>1. messages' \in Seq(Message) /\ Paired(messages') /\ AllSettled(messages')
  BY PromptedKeeps
<1>2. MaxSteps <= MaxSteps + (IF force THEN 1 ELSE 0) /\ steps' \in 0 .. (MaxSteps + 1)
  BY AgentAssumption
<1>3. CASE force /\ pc' = "forcing" /\ UNCHANGED <<final, stopped, failure>>
  <2>1. TypeOK'
    BY <1>1, <1>2, <1>3 DEF Inv, TypeOK, config
  <2>2. Conversation' /\ Undecided'
    BY <1>1, <1>3 DEF Inv, Conversation, Undecided, Paired, AllSettled, Settled, AnsweredIn
  <2>3. Budgeted'
    BY <1>2, <1>3, AgentAssumption DEF Inv, Budgeted, config
  <2>4. QED
    BY <2>1, <2>2, <2>3 DEF Inv
<1>4. CASE Finish(Prose, TRUE, NoFailure)
  <2>1. pc' = "done" /\ final' = Prose /\ stopped' = TRUE /\ failure' \in FailureTypes
    BY <1>4, VerdictTyped DEF Finish, FailureTypes
  <2>2. TypeOK'
    BY <1>1, <1>2, <2>1 DEF Inv, TypeOK, config
  <2>3. Conversation' /\ Undecided'
    BY <1>1, <2>1 DEF Conversation, Undecided, Paired
  <2>4. Budgeted'
    BY <1>2, <2>1, AgentAssumption DEF Budgeted, config
  <2>5. QED
    BY <2>2, <2>3, <2>4 DEF Inv
<1>5. QED
  BY <1>3, <1>4 DEF NoAnswer

\* What a response with calls makes of the conversation: the calls kept in it are the
\* calls that will be executed.
LEMMA CallsKept ==
  ASSUME Inv, ChatCalls
  PROVE  \E ids \in SUBSET CallIds, calls \in Seq(CallIds) :
           /\ messages' = Append(messages, Said(ids))
           /\ pending' = calls
           /\ calls # <<>>
           /\ single => Len(calls) = 1
           /\ \A n \in 1 .. Len(calls) : calls[n] \in ids
           /\ \A id \in ids : \E n \in 1 .. Len(calls) : calls[n] = id
<1>1. PICK first \in CallIds, second \in CallIds, n \in {1, 2} :
        LET calls == SubSeq(<<first, second>>, 1, n) IN
          /\ messages' = Append(messages, Said(Kept(calls)))
          /\ pending' = Acted(calls)
  BY DEF ChatCalls
<1> DEFINE calls == SubSeq(<<first, second>>, 1, n)
<1>2. /\ calls \in Seq(CallIds) /\ Len(calls) = n
      /\ \A i \in 1 .. n : calls[i] = <<first, second>>[i]
  <2>1. \A i \in 1 .. n : <<first, second>>[i] \in CallIds
    OBVIOUS
  <2>2. QED
    BY <2>1, SubSeqProperties
<1>3. DOMAIN calls = 1 .. n /\ 1 \in 1 .. n /\ calls[1] = first
  BY <1>2, LenProperties
<1>4. messages' = Append(messages, Said(Kept(calls))) /\ pending' = Acted(calls)
  BY <1>1
<1> HIDE DEF calls
<1>5. Kept(calls) \in SUBSET CallIds
  BY <1>2, <1>3, ElementOfSeq DEF Kept
<1>6. /\ Acted(calls) \in Seq(CallIds) /\ Acted(calls) # <<>>
      /\ single => Len(Acted(calls)) = 1
      /\ \A i \in 1 .. Len(Acted(calls)) : Acted(calls)[i] \in Kept(calls)
      /\ \A id \in Kept(calls) : \E i \in 1 .. Len(Acted(calls)) : Acted(calls)[i] = id
  <2>1. CASE single
    <3>1. Acted(calls) = <<first>> /\ Kept(calls) = {first}
      BY <1>3, <2>1 DEF Acted, Kept
    <3>2. <<first>> \in Seq(CallIds) /\ Len(<<first>>) = 1 /\ <<first>>[1] = first
      OBVIOUS
    <3>3. <<first>> # <<>>
      BY <3>2, NoneLeft
    <3>4. QED
      BY <3>1, <3>2, <3>3
  <2>2. CASE ~single
    <3>1. Acted(calls) = calls /\ Kept(calls) = {calls[i] : i \in 1 .. n}
      BY <1>3, <2>2 DEF Acted, Kept
    <3>2. calls # <<>>
      BY <1>2, NoneLeft
    <3>3. QED
      BY <1>2, <2>2, <3>1, <3>2
  <2>3. QED
    BY <2>1, <2>2
<1>7. QED
  BY <1>4, <1>5, <1>6

LEMMA ChatCallsInv == ASSUME Inv, ChatCalls PROVE Inv'
<1>1. PICK ids \in SUBSET CallIds, calls \in Seq(CallIds) :
        /\ messages' = Append(messages, Said(ids))
        /\ pending' = calls
        /\ calls # <<>>
        /\ \A n \in 1 .. Len(calls) : calls[n] \in ids
        /\ \A id \in ids : \E n \in 1 .. Len(calls) : calls[n] = id
  BY CallsKept
<1>2. /\ pc = "chatting" /\ pc' = "acting" /\ steps' = steps + 1
      /\ usage' = usage + 1 /\ billed' = billed + 1
      /\ UNCHANGED <<single, force, final, stopped, failure, blamed>>
  BY DEF ChatCalls, config
<1>3. messages \in Seq(Message) /\ Paired(messages) /\ AllSettled(messages)
  BY <1>2 DEF Inv, TypeOK, Conversation
<1>4. Said(ids) \in Message /\ Said(ids).role # "tool"
  BY MessagesTyped DEF Said
<1>5. messages' \in Seq(Message) /\ Paired(messages') /\ Awaiting(messages', calls)
  BY <1>1, <1>3, <1>4, Extended, PairedKept, CallsAwait
<1>6. steps \in Nat /\ steps < MaxSteps
  BY <1>2 DEF Inv, TypeOK, Budgeted
<1>7. TypeOK'
  BY <1>1, <1>2, <1>5, <1>6, AgentAssumption DEF Inv, TypeOK
<1>8. Conversation'
  <2>1. Paired(messages)'
    BY <1>5 DEF Paired
  <2>2. Awaiting(messages', pending')
    BY <1>1, <1>5
  <2>3. Awaiting(messages, pending)'
    BY <2>2 DEF Awaiting, Open, Settled, AnsweredIn
  <2>4. QED
    BY <1>1, <1>2, <2>1, <2>3 DEF Conversation
<1>9. Budgeted' /\ Undecided'
  BY <1>2, <1>6, AgentAssumption DEF Inv, Budgeted, Undecided
<1>10. QED
  BY <1>7, <1>8, <1>9 DEF Inv

LEMMA ChatTextInv == ASSUME Inv, ChatText PROVE Inv'
<1>1. PICK text \in {Option, Prose, Empty} :
        IF text = Empty
        THEN NoAnswer /\ messages' = Prompted(Append(messages, Said({})))
        ELSE Finish(text, FALSE, NoFailure) /\ messages' = Append(messages, Said({}))
  BY DEF ChatText
<1>2. /\ pc = "chatting" /\ steps' = steps + 1
      /\ usage' = usage + 1 /\ billed' = billed + 1
      /\ UNCHANGED <<config, pending, blamed>>
  BY DEF ChatText
<1>3. /\ messages \in Seq(Message) /\ Paired(messages) /\ AllSettled(messages)
      /\ pending = <<>> /\ blamed \in BOOLEAN /\ usage \in Nat /\ billed \in Nat
      /\ steps \in Nat /\ steps < MaxSteps
  BY <1>2 DEF Inv, TypeOK, Conversation, Budgeted
<1>4. Said({}) \in Message /\ Said({}).role = "assistant" /\ Said({}).calls = {}
  BY MessagesTyped DEF Said
<1>5. /\ Append(messages, Said({})) \in Seq(Message)
      /\ Paired(Append(messages, Said({}))) /\ AllSettled(Append(messages, Said({})))
  BY <1>3, <1>4, Extended, PairedKept, AllSettledKept
<1>6. /\ usage' \in Nat /\ billed' \in Nat /\ steps' \in Nat /\ steps' <= MaxSteps
      /\ steps' <= MaxSteps + (IF force THEN 1 ELSE 0) /\ blamed' \in BOOLEAN
  BY <1>2, <1>3, AgentAssumption
<1>7. CASE text = Empty
  BY <1>1, <1>2, <1>3, <1>5, <1>6, <1>7, NoAnswerInv
<1>8. CASE text # Empty
  <2>1. NoFailure \in FailureTypes
    BY DEF FailureTypes
  <2>2. QED
    BY <1>1, <1>2, <1>5, <1>6, <1>8, <2>1, FinishInv
<1>9. QED
  BY <1>7, <1>8

\* A chat that raised, and a step that raised outside one.
LEMMA RaisesInv == ASSUME Inv, ChatRaises \/ ActRaises PROVE Inv'
<1>1. UNCHANGED <<config, messages, pending>> /\ blamed' \in BOOLEAN
  BY DEF ChatRaises, ActRaises, Inv, TypeOK, config
<1>2. messages' \in Seq(Message) /\ Paired(messages')
  BY <1>1 DEF Inv, TypeOK, Conversation
<1>3. PICK f \in FailureTypes, paid \in {0, 1} :
        /\ Finish(Empty, FALSE, f)
        /\ usage' = usage + paid /\ billed' = billed + paid
  <2>1. CASE ChatRaises
    BY <2>1 DEF ChatRaises, ChatFailures, FailureTypes
  <2>2. CASE ActRaises
    <3>1. Reasoning \in FailureTypes /\ usage' = usage + 0 /\ billed' = billed + 0
      BY <2>2 DEF ActRaises, FailureTypes, Inv, TypeOK
    <3>2. QED
      BY <2>2, <3>1 DEF ActRaises
  <2>3. QED
    BY <2>1, <2>2
<1>4. usage' \in Nat /\ billed' \in Nat
  BY <1>3 DEF Inv, TypeOK
<1>5. steps' \in {steps, steps + 1} /\ (steps' # steps => pc \in {"chatting", "forcing"})
  BY DEF ChatRaises, ActRaises
<1>6. steps' \in Nat /\ steps' <= MaxSteps + (IF force THEN 1 ELSE 0)
  BY <1>5, AgentAssumption DEF Inv, TypeOK, Budgeted
<1>7. QED
  BY <1>1, <1>2, <1>3, <1>4, <1>6, FinishInv

LEMMA ForcedAnswerInv == ASSUME Inv, ForcedAnswer PROVE Inv'
<1>1. PICK text \in {Option, Prose, Empty} : Finish(text, FALSE, NoFailure)
  BY DEF ForcedAnswer
<1>2. /\ UNCHANGED <<config, messages, pending, blamed>> /\ pc = "forcing"
      /\ steps' = steps + 1 /\ usage' = usage + 1 /\ billed' = billed + 1
  BY DEF ForcedAnswer
<1>3. messages' \in Seq(Message) /\ Paired(messages')
  BY <1>2 DEF Inv, TypeOK, Conversation
<1>4. blamed' \in BOOLEAN /\ usage' \in Nat /\ billed' \in Nat
  BY <1>2 DEF Inv, TypeOK
<1>5. steps' \in Nat /\ steps' <= MaxSteps + (IF force THEN 1 ELSE 0)
  BY <1>2, AgentAssumption DEF Inv, TypeOK, Budgeted
<1>6. NoFailure \in FailureTypes
  BY DEF FailureTypes
<1>7. QED
  BY <1>1, <1>2, <1>3, <1>4, <1>5, <1>6, FinishInv

\* A call is executed: another one is pending, the loop comes round, or it is over.
LEMMA ActInv == ASSUME Inv, Act PROVE Inv'
<1> DEFINE ms == Append(messages, Observed(Head(pending)))
<1>1. /\ pc = "acting" /\ blamed' \in BOOLEAN /\ pending' = Tail(pending)
      /\ UNCHANGED <<single, force, config, steps, usage, billed>>
  BY DEF Act, Inv, TypeOK, config
<1>2. /\ messages \in Seq(Message) /\ pending \in Seq(CallIds) /\ pending # <<>>
      /\ Paired(messages) /\ Awaiting(messages, pending)
      /\ steps \in Nat /\ steps <= MaxSteps /\ usage \in Nat /\ billed \in Nat
  BY <1>1 DEF Inv, TypeOK, Conversation, Budgeted
<1>3. /\ ms \in Seq(Message) /\ Paired(ms) /\ Awaiting(ms, Tail(pending))
      /\ Tail(pending) = <<>> => AllSettled(ms)
  BY <1>2, ObservedAwaits
<1>4. /\ Tail(pending) \in Seq(CallIds) /\ Len(Tail(pending)) = Len(pending) - 1
      /\ Len(pending) \in Nat \ {0}
      /\ Len(pending) = 1 <=> Tail(pending) = <<>>
  BY <1>2, OneLess
<1>5. \/ /\ Len(pending) > 1 /\ messages' = ms
         /\ UNCHANGED <<pc, final, stopped, failure>>
      \/ /\ Len(pending) = 1 /\ ~BudgetSpent
         /\ messages' = ms /\ pc' = "chatting" /\ UNCHANGED <<final, stopped, failure>>
      \/ Len(pending) = 1 /\ messages' = Prompted(ms) /\ NoAnswer
  BY <1>4 DEF Act
<1> HIDE DEF ms
<1>6. CASE Len(pending) > 1 /\ messages' = ms /\ UNCHANGED <<pc, final, stopped, failure>>
  <2>1. Tail(pending) # <<>>
    <3>1. Len(pending) # 1
      BY <1>4, <1>6
    <3>2. QED
      BY <3>1, <1>4
  <2>2. TypeOK'
    BY <1>1, <1>3, <1>4, <1>6 DEF Inv, TypeOK
  <2>3. Conversation'
    <3>1. Paired(messages)'
      BY <1>3, <1>6 DEF Paired
    <3>2. Awaiting(messages', pending')
      BY <1>1, <1>3, <1>6
    <3>3. Awaiting(messages, pending)'
      BY <3>2 DEF Awaiting, Open, Settled, AnsweredIn
    <3>4. QED
      BY <1>1, <1>6, <2>1, <3>1, <3>3 DEF Conversation
  <2>4. Budgeted' /\ Undecided'
    BY <1>1, <1>6 DEF Inv, Budgeted, Undecided
  <2>5. QED
    BY <2>2, <2>3, <2>4 DEF Inv
<1>7. CASE /\ Len(pending) = 1 /\ ~BudgetSpent
           /\ messages' = ms /\ pc' = "chatting" /\ UNCHANGED <<final, stopped, failure>>
  <2>1. Tail(pending) = <<>> /\ AllSettled(ms)
    BY <1>3, <1>4, <1>7
  <2>2. TypeOK'
    BY <1>1, <1>3, <1>4, <1>7 DEF Inv, TypeOK
  <2>3. Conversation'
    BY <1>1, <1>3, <1>7, <2>1 DEF Conversation, Paired, AllSettled, Settled, AnsweredIn
  <2>4. steps < MaxSteps
    BY <1>2, <1>7, AgentAssumption DEF BudgetSpent
  <2>5. Budgeted' /\ Undecided'
    BY <1>1, <1>7, <2>4 DEF Inv, Budgeted, Undecided
  <2>6. QED
    BY <2>2, <2>3, <2>5 DEF Inv
<1>8. CASE Len(pending) = 1 /\ messages' = Prompted(ms) /\ NoAnswer
  <2>1. Tail(pending) = <<>> /\ AllSettled(ms)
    BY <1>3, <1>4, <1>8
  <2>2. QED
    BY <1>1, <1>2, <1>3, <1>8, <2>1, NoAnswerInv
<1>9. QED
  BY <1>5, <1>6, <1>7, <1>8

\* The invariant is inductive.
LEMMA Invariance == Spec => []Inv
<1>1. Inv /\ [Next]_vars => Inv'
  <2> SUFFICES ASSUME Inv, [Next]_vars PROVE Inv'
    OBVIOUS
  <2>1. CASE Step
    BY <2>1, ChatCallsInv, ChatTextInv, RaisesInv, ActInv, ForcedAnswerInv DEF Step
  <2>2. CASE UNCHANGED vars
    BY <2>2
    DEF vars, Inv, TypeOK, Conversation, Budgeted, Undecided, Paired, AllSettled, Awaiting,
        Settled, Open, AnsweredIn
  <2>3. QED
    BY <2>1, <2>2 DEF Next, Done
<1>2. QED
  BY <1>1, InitInv, PTL DEF Spec

----------------------------------------------------------------------------
\* Every variable of the loop keeps its type.
THEOREM LoopTypeCorrect == Spec => []TypeOK
BY Invariance, PTL DEF Inv

\* What is sent to the endpoint pairs every call with its observation, whatever the
\* responses hold and however many of their calls are executed.
THEOREM CallsAreAnswered == Spec => []CallsMatchObservations
<1>1. Inv => CallsMatchObservations
  <2> SUFFICES ASSUME Inv PROVE CallsMatchObservations
    OBVIOUS
  <2>1. pc \in {"chatting", "forcing"} =>
          \A i \in Responses : \A id \in messages[i].calls : AnsweredIn(messages, i, id)
    BY DEF Inv, Conversation, AllSettled, Settled, Responses
  <2>2. ASSUME NEW j \in Observations
        PROVE  \E i \in Responses :
                 /\ i < j
                 /\ messages[j].calls \subseteq messages[i].calls
                 /\ \A k \in (i + 1) .. j : messages[k].role = "tool"
    BY DEF Inv, Conversation, Paired, Responses, Observations
  <2>3. QED
    BY <2>1, <2>2 DEF CallsMatchObservations
<1>2. QED
  BY <1>1, Invariance, PTL

----------------------------------------------------------------------------
(* The budget counts what it bounds.                                       *)

\* The messages of a role.
Turns(ms, role) == {i \in 1 .. Len(ms) : ms[i].role = role}

LEMMA TurnsCounted ==
  ASSUME NEW ms \in Seq(Message), NEW role
  PROVE  IsFiniteSet(Turns(ms, role)) /\ Cardinality(Turns(ms, role)) \in Nat
<1>1. Len(ms) \in Nat
  BY LenProperties
<1>2. IsFiniteSet(1 .. Len(ms)) /\ Turns(ms, role) \subseteq 1 .. Len(ms)
  BY <1>1, FS_Interval DEF Turns
<1>3. QED
  BY <1>2, FS_Subset, FS_CardinalityType

\* A message is one more turn of its role, and none of another.
LEMMA OneTurnMore ==
  ASSUME NEW ms \in Seq(Message), NEW m \in Message, NEW role
  PROVE  Cardinality(Turns(Append(ms, m), role)) =
           Cardinality(Turns(ms, role)) + (IF m.role = role THEN 1 ELSE 0)
<1> DEFINE more == Append(ms, m)
<1>1. /\ Len(more) = Len(ms) + 1 /\ more[Len(ms) + 1] = m /\ Len(ms) \in Nat
      /\ \A k \in 1 .. Len(ms) : more[k] = ms[k]
  BY Extended
<1> HIDE DEF more
<1>2. CASE m.role = role
  <2>1. Turns(more, role) = Turns(ms, role) \cup {Len(ms) + 1}
    BY <1>1, <1>2 DEF Turns
  <2>2. Len(ms) + 1 \notin Turns(ms, role)
    BY <1>1 DEF Turns
  <2>3. QED
    BY <1>2, <2>1, <2>2, TurnsCounted, FS_AddElement DEF more
<1>3. CASE m.role # role
  <2>1. Turns(more, role) = Turns(ms, role)
    BY <1>1, <1>3 DEF Turns
  <2>2. QED
    BY <1>3, <2>1, TurnsCounted DEF more
<1>4. QED
  BY <1>2, <1>3

\* Every response cost a chat; under single_action every observation, made or still
\* pending, cost one too.
Spent ==
  /\ Cardinality(Turns(messages, "assistant")) <= steps
  /\ Cardinality(Turns(messages, "assistant")) <= MaxSteps
  /\ single => /\ Cardinality(Turns(messages, "tool")) + Len(pending) <= steps
               /\ Cardinality(Turns(messages, "tool")) + Len(pending) <= MaxSteps

\* The prompt of the forced answer is no turn of either.
LEMMA PromptCounted ==
  ASSUME NEW ms \in Seq(Message), NEW role \in {"assistant", "tool"}
  PROVE  Cardinality(Turns(Prompted(ms), role)) = Cardinality(Turns(ms, role))
<1>1. Asked \in Message /\ Asked.role # role
  BY MessagesTyped DEF Asked
<1>2. Cardinality(Turns(ms, role)) \in Nat
  BY TurnsCounted
<1>3. CASE force
  BY <1>1, <1>2, <1>3, OneTurnMore DEF Prompted
<1>4. CASE ~force
  BY <1>4 DEF Prompted
<1>5. QED
  BY <1>3, <1>4

LEMMA SpentInv == ASSUME Inv, Spent, Step PROVE Spent'
<1> DEFINE said(ms) == Cardinality(Turns(ms, "assistant"))
           observed(ms) == Cardinality(Turns(ms, "tool"))
<1>1. /\ messages \in Seq(Message) /\ steps \in Nat /\ MaxSteps \in Nat
      /\ pending \in Seq(CallIds) /\ Len(pending) \in Nat
      /\ said(messages) \in Nat /\ observed(messages) \in Nat
  BY AgentAssumption, TurnsCounted, NoneLeft DEF Inv, TypeOK
<1>2. /\ said(messages) <= steps /\ said(messages) <= MaxSteps
      /\ single => /\ observed(messages) + Len(pending) <= steps
                   /\ observed(messages) + Len(pending) <= MaxSteps
  BY DEF Spent
<1>3. SUFFICES /\ said(messages') <= steps' /\ said(messages') <= MaxSteps
               /\ single' => /\ observed(messages') + Len(pending') <= steps'
                             /\ observed(messages') + Len(pending') <= MaxSteps
  BY DEF Spent, Turns
<1> HIDE DEF said, observed
<1>4. UNCHANGED single
  BY DEF Step, ChatCalls, ChatText, ChatRaises, Act, ActRaises, ForcedAnswer, config
<1>5. CASE ChatCalls
  <2>1. PICK ids \in SUBSET CallIds :
          messages' = Append(messages, Said(ids)) /\ (single => Len(pending') = 1)
    BY <1>5, CallsKept
  <2>2. Said(ids) \in Message /\ Said(ids).role = "assistant"
    BY MessagesTyped DEF Said
  <2>3. said(messages') = said(messages) + 1 /\ observed(messages') = observed(messages)
    BY <1>1, <2>1, <2>2, OneTurnMore DEF said, observed
  <2>4. steps' = steps + 1 /\ steps < MaxSteps /\ Len(pending) = 0
    BY <1>5, NoneLeft DEF ChatCalls, Inv, TypeOK, Conversation, Budgeted
  <2>5. CASE single
    <3>1. Len(pending') = 1
      BY <2>1, <2>5
    <3>2. observed(messages) <= steps
      BY <1>1, <1>2, <2>4, <2>5
    <3>3. QED
      BY <1>1, <1>2, <2>3, <2>4, <3>1, <3>2
  <2>6. CASE ~single
    BY <1>1, <1>2, <1>4, <2>3, <2>4, <2>6
  <2>7. QED
    BY <2>5, <2>6
<1>6. CASE ChatText
  <2> DEFINE ms == Append(messages, Said({}))
  <2>1. messages' = Prompted(ms) \/ messages' = ms
    BY <1>6 DEF ChatText
  <2>2. Said({}) \in Message /\ Said({}).role = "assistant"
    BY MessagesTyped DEF Said
  <2>3. ms \in Seq(Message) /\ said(ms) = said(messages) + 1 /\ observed(ms) = observed(messages)
    BY <1>1, <2>2, Extended, OneTurnMore DEF said, observed
  <2> HIDE DEF ms
  <2>4. said(messages') = said(ms) /\ observed(messages') = observed(ms)
    BY <2>1, <2>3, PromptCounted DEF said, observed
  <2>5. steps' = steps + 1 /\ steps < MaxSteps /\ UNCHANGED pending
    BY <1>6 DEF ChatText, Inv, Budgeted
  <2>6. QED
    BY <1>1, <1>2, <1>4, <2>3, <2>4, <2>5
<1>7. CASE Act
  <2> DEFINE ms == Append(messages, Observed(Head(pending)))
  <2>1. pending # <<>> /\ pending' = Tail(pending) /\ UNCHANGED steps
    BY <1>7 DEF Act, Inv, Conversation
  <2>2. /\ Len(pending) \in Nat \ {0} /\ Len(Tail(pending)) = Len(pending) - 1
        /\ Head(pending) \in CallIds
    <3>1. Len(pending) \in Nat \ {0} /\ Len(Tail(pending)) = Len(pending) - 1
      BY <1>1, <2>1, OneLess
    <3>2. QED
      BY <1>1, <3>1
  <2>3. messages' = Prompted(ms) \/ messages' = ms
    BY <1>7, <2>2 DEF Act
  <2>4. Observed(Head(pending)) \in Message /\ Observed(Head(pending)).role = "tool"
    BY <2>2, MessagesTyped DEF Observed
  <2>5. ms \in Seq(Message) /\ said(ms) = said(messages) /\ observed(ms) = observed(messages) + 1
    BY <1>1, <2>4, Extended, OneTurnMore DEF said, observed
  <2> HIDE DEF ms
  <2>6. said(messages') = said(ms) /\ observed(messages') = observed(ms)
    BY <2>3, <2>5, PromptCounted DEF said, observed
  <2>7. QED
    BY <1>1, <1>2, <1>4, <2>1, <2>2, <2>5, <2>6
<1>8. CASE ChatRaises \/ ActRaises \/ ForcedAnswer
  <2>1. UNCHANGED <<messages, pending>> /\ steps' \in {steps, steps + 1}
    BY <1>8 DEF ChatRaises, ActRaises, ForcedAnswer
  <2>2. QED
    BY <1>1, <1>2, <1>4, <2>1
<1>9. QED
  BY <1>5, <1>6, <1>7, <1>8 DEF Step

\* max_steps bounds the chats of a question, one forced answer more if it is asked
\* for, and under single_action also its tool calls.
THEOREM BudgetHolds == Spec => []BudgetBoundsActions
<1>1. Init => Spent
  <2> SUFFICES ASSUME Init PROVE Spent
    OBVIOUS
  <2>1. /\ Turns(messages, "assistant") = {} /\ Turns(messages, "tool") = {}
        /\ Len(pending) = 0 /\ steps = 0
    BY DEF Init, Turns
  <2>2. /\ Cardinality(Turns(messages, "assistant")) = 0
        /\ Cardinality(Turns(messages, "tool")) = 0
    BY <2>1, FS_EmptySet, Zenon
  <2>3. MaxSteps \in Nat
    BY AgentAssumption
  <2>4. QED
    BY <2>1, <2>2, <2>3 DEF Spent
<1>2. Inv /\ Spent /\ [Next]_vars => Spent'
  <2>1. Inv /\ Spent /\ UNCHANGED vars => Spent'
    BY DEF vars, Spent, Turns
  <2>2. QED
    BY <2>1, SpentInv DEF Next, Done
<1>3. Inv /\ Spent => BudgetBoundsActions
  <2> SUFFICES ASSUME Inv, Spent PROVE BudgetBoundsActions
    OBVIOUS
  <2>1. Responses = Turns(messages, "assistant") /\ Observations = Turns(messages, "tool")
    BY DEF Responses, Observations, Turns
  <2>2. Cardinality(Turns(messages, "tool")) \in Nat /\ Len(pending) \in Nat /\ MaxSteps \in Nat
    BY TurnsCounted, NoneLeft, AgentAssumption DEF Inv, TypeOK
  <2>3. QED
    BY <2>1, <2>2 DEF Inv, Budgeted, Spent, BudgetBoundsActions
<1>4. QED
  BY <1>1, <1>2, <1>3, Invariance, PTL DEF Spec

----------------------------------------------------------------------------
(* The loop implements the contract of an agent.                           *)

LEMMA AgentInit == Init => Agent!Init
BY DEF Init, Agent!Init, NoFailure, Agent!NoFailure, Option, Empty

\* A question that ends is one the evaluator can account for.
LEMMA FinishConcludes ==
  ASSUME Inv, NEW text \in {Option, Prose, Empty}, NEW atBudget \in BOOLEAN,
         NEW byLLM \in ChatFailures \cup {NoFailure}, Finish(text, atBudget, byLLM),
         byLLM # NoFailure => text = Empty,
         byLLM = Truncation => usage' = usage + 1 /\ billed' = billed + 1,
         blamed' \in {blamed, TRUE},
         text # Option /\ byLLM = NoFailure /\ blamed' # blamed => atBudget
  PROVE  Agent!Concluded
<1>1. failure' = Verdict(text, atBudget, byLLM) /\ final' = text
  BY DEF Finish
<1>2. blamed \in BOOLEAN /\ blamed' \in BOOLEAN
  BY DEF Inv, TypeOK
<1> USE DEF Agent!Concluded, Agent!Paid, Agent!FailureTypes, Agent!NoFailure,
        Agent!Infrastructure, Agent!Provider, Agent!Truncation, Agent!ContextOverflow,
        Agent!Reasoning, Provider, NoFailure, Option, Empty, Prose
<1>3. CASE byLLM # NoFailure
  <2>1. failure' = byLLM /\ final' # Option
    BY <1>1, <1>3 DEF Verdict
  <2>2. QED
    BY <1>3, <2>1 DEF ChatFailures, Infrastructure, Truncation, ContextOverflow, Reasoning
<1>4. CASE byLLM = NoFailure /\ text = Option
  BY <1>1, <1>4 DEF Verdict
<1>5. CASE byLLM = NoFailure /\ text # Option
  <2>1. failure' = IF atBudget THEN "iteration_limit"
                   ELSE IF blamed THEN Provider ELSE "answer_parse_failure"
    BY <1>1, <1>5 DEF Verdict
  <2>2. QED
    BY <1>1, <1>2, <1>5, <2>1
<1>6. QED
  BY <1>3, <1>4, <1>5

\* Every step of the loop is a step of the contract.
LEMMA AgentStep == ASSUME Inv, Next PROVE Agent!Step \/ UNCHANGED Agent!vars
<1>1. blamed \in BOOLEAN /\ blamed' \in {blamed, TRUE}
  BY DEF Inv, TypeOK, Next, Step, Done, vars, ChatCalls, ChatText, ChatRaises, Act, ActRaises,
         ForcedAnswer
<1>2. CASE Done
  BY <1>2 DEF Done, vars, Agent!vars
<1>3. CASE Step
  <2>1. pc # "done" /\ pc' \in {"chatting", "acting", "forcing", "done"}
    BY <1>3
    DEF Step, ChatCalls, ChatText, ChatRaises, Act, ActRaises, ForcedAnswer, NoAnswer, Finish
  <2>2. Agent!Paid \/ UNCHANGED <<usage, billed>>
    <3>1. CASE ChatRaises
      <4>1. usage' = usage + 0 /\ billed' = billed + 0
            => UNCHANGED <<usage, billed>>
        BY DEF Inv, TypeOK
      <4>2. QED
        BY <3>1, <4>1 DEF ChatRaises, Agent!Paid
    <3>2. QED
      BY <1>3, <3>1 DEF Step, ChatCalls, ChatText, Act, ActRaises, ForcedAnswer, Agent!Paid
  <2>3. pc' # "done" => UNCHANGED <<final, failure>>
    BY <1>3
    DEF Step, ChatCalls, ChatText, ChatRaises, Act, ActRaises, ForcedAnswer, NoAnswer, Finish
  <2>4. ASSUME pc' = "done" PROVE Agent!Concluded
    <3>1. PICK text \in {Option, Prose, Empty}, atBudget \in BOOLEAN,
               byLLM \in ChatFailures \cup {NoFailure} :
            /\ Finish(text, atBudget, byLLM)
            /\ byLLM # NoFailure => text = Empty
            /\ byLLM = Truncation => usage' = usage + 1 /\ billed' = billed + 1
            /\ text # Option /\ byLLM = NoFailure /\ blamed' # blamed => atBudget
      <4>1. CASE ChatCalls
        BY <2>4, <4>1 DEF ChatCalls
      <4>2. CASE ChatText \/ ForcedAnswer
        <5>1. PICK text \in {Option, Prose, Empty}, atBudget \in BOOLEAN :
                Finish(text, atBudget, NoFailure)
          BY <2>4, <4>2 DEF ChatText, ForcedAnswer, NoAnswer
        <5>2. UNCHANGED blamed
          BY <4>2 DEF ChatText, ForcedAnswer
        <5>3. NoFailure # Truncation
          BY DEF NoFailure, Truncation
        <5>4. QED
          BY <5>1, <5>2, <5>3
      <4>3. CASE ChatRaises
        <5>1. PICK f \in ChatFailures :
                /\ Finish(Empty, FALSE, f)
                /\ f = Truncation => usage' = usage + 1 /\ billed' = billed + 1
          BY <4>3 DEF ChatRaises
        <5>2. f # NoFailure
          BY DEF ChatFailures, NoFailure, Infrastructure, Truncation, ContextOverflow, Reasoning
        <5>3. QED
          BY <5>1, <5>2
      <4>4. CASE ActRaises
        <5>1. Finish(Empty, FALSE, Reasoning) /\ Reasoning \in ChatFailures
              /\ Reasoning # NoFailure /\ Reasoning # Truncation
          BY <4>4
          DEF ActRaises, ChatFailures, NoFailure, Infrastructure, Truncation, ContextOverflow,
              Reasoning
        <5>2. QED
          BY <5>1
      <4>5. CASE Act
        <5>1. NoAnswer
          BY <2>1, <2>4, <4>5 DEF Act
        <5>2. Finish(Prose, TRUE, NoFailure)
          BY <2>4, <5>1 DEF NoAnswer
        <5>3. NoFailure # Truncation
          BY DEF NoFailure, Truncation
        <5>4. QED
          BY <5>2, <5>3
      <4>6. QED
        BY <1>3, <4>1, <4>2, <4>3, <4>4, <4>5 DEF Step
    <3>2. QED
      BY <1>1, <3>1, FinishConcludes
  <2>5. QED
    BY <1>1, <2>1, <2>2, <2>3, <2>4 DEF Agent!Step
<1>4. QED
  BY <1>2, <1>3 DEF Next

\* ReactAgent.answer keeps the contract of BenchmarkAgent.answer: it ends once, with an
\* option or the failure that explains the miss, and counts every completion.
THEOREM LoopImplementsAgent == Spec => AnswerSpec
<1>1. UNCHANGED vars => UNCHANGED Agent!vars
  BY DEF vars, Agent!vars
<1>2. Inv /\ [Next]_vars => [Agent!Step]_(Agent!vars)
  BY <1>1, AgentStep
<1>3. QED
  BY <1>2, AgentInit, Invariance, PTL DEF Spec, AnswerSpec, Agent!Spec
=============================================================================
