-------------------------- MODULE ClassATaskProofs --------------------------
(***************************************************************************)
(* The response queue of ClassATask, for every length of the event queue,  *)
(* number of join attempts and number of frames.                           *)
(*                                                                         *)
(* Neither property is inductive.  A request, its response on the way out  *)
(* and its response in the queue are three places of one token: it exists  *)
(* iff the task waits, and is in one place (TokenInv).  The response is    *)
(* the first message the MAC task sends after its decision (OutInv), so    *)
(* that only the head of "out" can be the token.                           *)
(***************************************************************************)
EXTENDS ClassATask, TLAPS, SequenceTheorems

(* The messages that are not responses. *)
Others == {m \in Messages : m.queue # "response"}

OutInv == out # <<>> => Tail(out) \in Seq(Others)

ResponseLeaves == out # <<>> /\ Head(out).queue = "response"

(* Request, response on its way out, response in the queue. *)
TokenInv ==
  /\ "response" \notin dropped
  /\ request # "none" => Waiting /\ ~ResponseLeaves /\ xResponseQueue = <<>>
  /\ ResponseLeaves => Waiting /\ xResponseQueue = <<>>
  /\ xResponseQueue # <<>> => Waiting
  /\ Waiting => request # "none" \/ ResponseLeaves \/ xResponseQueue # <<>>

IInv == TypeOK /\ OutInv /\ TokenInv

-----------------------------------------------------------------------------
(* What the MAC task sends *)

(* A response is one message. *)
LEMMA ResponseType ==
  ASSUME NEW ok \in BOOLEAN
  PROVE  /\ Response(ok) \in Seq(Messages) /\ Len(Response(ok)) = 1
         /\ Response(ok)[1].queue = "response"
BY DEF Response, Messages

(* Events and downlinks, however many, hold no response. *)
LEMMA OthersType ==
  ASSUME NEW frame \in Frames, NEW due \in BOOLEAN
  PROVE  /\ Schedule(due) \in Seq(Others) /\ Indication(frame) \in Seq(Others)
         /\ Schedule(due) \o Indication(frame) \in Seq(Others)
<1>1. DownlinkPending \in Seq(Others) /\ <<>> \in Seq(Others)
  BY DEF DownlinkPending, Others, Messages, Events
<1>2. /\ <<[queue |-> "downlink", what |-> "data"]>> \in Seq(Others)
      /\ <<[queue |-> "event", what |-> "tooManyFrameLoss"]>> \in Seq(Others)
  BY DEF Others, Messages, Events
<1>3. Schedule(due) \in Seq(Others)
  BY <1>1 DEF Schedule
<1>4. Indication(frame) \in Seq(Others)
  <2> DEFINE a == IF frame \in {"data", "dataPending"}
                  THEN <<[queue |-> "downlink", what |-> "data"]>> ELSE <<>>
             b == IF frame \in {"pending", "dataPending"} THEN DownlinkPending ELSE <<>>
             c == IF frame = "loss"
                  THEN <<[queue |-> "event", what |-> "tooManyFrameLoss"]>> ELSE <<>>
  <2>1. a \in Seq(Others) /\ b \in Seq(Others) /\ c \in Seq(Others)
    BY <1>1, <1>2
  <2>2. a \o b \in Seq(Others)
    <3> HIDE DEF a, b
    <3> QED BY <2>1, ConcatProperties
  <2>3. (a \o b) \o c \in Seq(Others)
    <3> HIDE DEF a, b, c
    <3> QED BY <2>1, <2>2, ConcatProperties
  <2> QED BY <2>3 DEF Indication
<1> QED BY <1>3, <1>4, ConcatProperties

(* Every sequence of such messages is a sequence of messages. *)
LEMMA OthersAreMessages == Seq(Others) \subseteq Seq(Messages)
BY DEF Others

(* A response and then others: the first message, and the rest.            *)
LEMMA FirstIsResponse ==
  ASSUME NEW ok \in BOOLEAN, NEW s \in Seq(Others)
  PROVE  /\ Response(ok) \o s \in Seq(Messages) /\ Response(ok) \o s # <<>>
         /\ Head(Response(ok) \o s).queue = "response"
         /\ Tail(Response(ok) \o s) \in Seq(Others)
<1>1. s \in Seq(Messages)
  BY OthersAreMessages
<1>2. Response(ok) \o s \in Seq(Messages) /\ Len(Response(ok) \o s) = 1 + Len(s)
  BY <1>1, ResponseType, ConcatProperties
<1>3. (Response(ok) \o s)[1] = Response(ok)[1]
  BY <1>1, ResponseType, ConcatProperties
<1>4. Tail(Response(ok) \o s) = s
  BY <1>1 DEF Response
<1> DEFINE t == Response(ok) \o s
<1>5. t \in Seq(Messages) /\ t # <<>> /\ t[1].queue = "response" /\ Tail(t) = s
  BY <1>1, <1>2, <1>3, <1>4, ResponseType
<1>6. Head(t) = t[1]
  BY <1>5
<1> QED BY <1>5, <1>6

(* Sequences of others start with no response. *)
LEMMA NoResponseFirst ==
  ASSUME NEW s \in Seq(Others), s # <<>>
  PROVE  Head(s).queue # "response" /\ Tail(s) \in Seq(Others)
<1>1. Head(s) \in Others
  BY HeadTailProperties
<1> QED BY <1>1, HeadTailProperties DEF Others

-----------------------------------------------------------------------------
(* The invariant *)

(* The queues are empty and nothing is asked for at the start. *)
LEMMA InitInv == Init => IInv
<1> SUFFICES ASSUME Init PROVE IInv
  OBVIOUS
<1>1. /\ pc = "join" /\ fetching \in BOOLEAN /\ started \in BOOLEAN /\ status \in BOOLEAN
      /\ request = "none" /\ dropped = {}
  BY DEF Init
<1>2. tries \in 0 .. MAX_JOIN_ATTEMPTS - 1 /\ frames \in 0 .. MaxFrames
  BY PortAssumption DEF Init, PortAssumption
<1>3. out \in Seq(Messages) /\ out = <<>>
  BY DEF Init
<1>4. xResponseQueue \in Seq(BOOLEAN) /\ Len(xResponseQueue) <= 1 /\ xResponseQueue = <<>>
  BY DEF Init
<1>5. /\ xDownlinkQueue \in Seq({"data"}) /\ Len(xDownlinkQueue) <= 1
      /\ xEventQueue \in Seq(Events) /\ Len(xEventQueue) <= EVENT_QUEUE_SIZE
  BY PortAssumption DEF Init, PortAssumption
<1>6. TypeOK
  BY <1>1, <1>2, <1>3, <1>4, <1>5 DEF TypeOK
<1>7. OutInv /\ TokenInv
  BY <1>1, <1>3, <1>4 DEF OutInv, TokenInv, Waiting, ResponseLeaves
<1> QED BY <1>6, <1>7 DEF IInv

(* What MacFinishes leaves to send. *)
LEMMA FinishSends ==
  ASSUME NEW ok \in BOOLEAN, NEW frame \in Frames, NEW due \in BOOLEAN,
         MacFinishes(ok, frame, due)
  PROVE  /\ out' \in Seq(Messages) /\ out' # <<>>
         /\ Head(out').queue = "response" /\ Tail(out') \in Seq(Others)
<1>1. out' = Response(ok) \o (Schedule(due) \o Indication(frame))
  BY ResponseType, OthersType, OthersAreMessages, ConcatAssociative DEF MacFinishes
<1> QED BY <1>1, OthersType, FirstIsResponse

-----------------------------------------------------------------------------
(* Every step keeps the types: one lemma for each part of TypeOK. *)

CtrlOK ==
  /\ pc \in {"join", "joinWait", "send", "sendWait", "receive", "poll", "delay", "exit"}
  /\ tries \in 0 .. MAX_JOIN_ATTEMPTS - 1
  /\ request \in {"none", "join", "uplink"}
  /\ frames \in 0 .. MaxFrames

BoolOK == fetching \in BOOLEAN /\ started \in BOOLEAN /\ status \in BOOLEAN

ResponseOK == xResponseQueue \in Seq(BOOLEAN) /\ Len(xResponseQueue) <= 1

QueuesOK ==
  /\ out \in Seq(Messages)
  /\ xDownlinkQueue \in Seq({"data"}) /\ Len(xDownlinkQueue) <= 1
  /\ xEventQueue \in Seq(Events) /\ Len(xEventQueue) <= EVENT_QUEUE_SIZE
  /\ dropped \subseteq {"response", "downlink", "event"}

(* TypeOK is these four. *)
LEMMA TypeParts == TypeOK <=> CtrlOK /\ BoolOK /\ ResponseOK /\ QueuesOK
BY DEF TypeOK, CtrlOK, BoolOK, ResponseOK, QueuesOK

(* A queue of at most one message that is not empty holds that one. *)
LEMMA OneInQueue ==
  ASSUME NEW S, NEW q \in Seq(S), Len(q) <= 1, q # <<>>
  PROVE  Head(q) \in S /\ Tail(q) = <<>> /\ Len(q) = 1
<1>1. Len(q) \in Nat /\ Len(q) # 0
  BY EmptySeq
<1>2. Len(q) = 1
  BY <1>1
<1>4. Head(q) \in S
  BY HeadTailProperties
<1>3. Tail(q) \in Seq(S) /\ Len(Tail(q)) = 0
  BY <1>2, HeadTailProperties
<1> QED BY <1>2, <1>3, <1>4, EmptySeq

(* Where the application is, its attempts, the request. *)
LEMMA CtrlStep == CtrlOK /\ [Next]_vars => CtrlOK'
<1> SUFFICES ASSUME CtrlOK, [Next]_vars PROVE CtrlOK'
  OBVIOUS
<1>1. ASSUME NEW ok \in BOOLEAN, NEW frame \in Frames, NEW due \in BOOLEAN,
             MacFinishes(ok, frame, due)
      PROVE  CtrlOK'
  BY <1>1 DEF CtrlOK, MacFinishes, app, queues
<1>2. ASSUME NEW frame \in Frames, NEW due \in BOOLEAN,
             MacRepeats(frame, due)
      PROVE  CtrlOK'
  BY <1>2, PortAssumption DEF CtrlOK, MacRepeats, app, queues, PortAssumption
<1>3. ASSUME NEW ok \in BOOLEAN,
             MacJoins(ok)
      PROVE  CtrlOK'
  BY <1>3 DEF CtrlOK, MacJoins, app, queues
<1>4. CASE MacSends
  BY <1>4 DEF CtrlOK, MacSends, app, IsFull, Messages
<1>5. CASE MacGivesUp
  BY <1>5 DEF CtrlOK, MacGivesUp, app, queues, Messages
<1>6. ASSUME NEW accepted \in BOOLEAN,
             JoinRequests(accepted)
      PROVE  CtrlOK'
  BY <1>6, PortAssumption DEF CtrlOK, JoinRequests, JoinReturns, AppRuns, PortAssumption, queues
<1>7. ASSUME NEW accepted \in BOOLEAN,
             SendRequests(accepted)
      PROVE  CtrlOK'
  BY <1>7, PortAssumption DEF CtrlOK, SendRequests, SendReturns, AppRuns, queues, PortAssumption
<1>8. CASE JoinAnswered
  <2> DEFINE last == Head(xResponseQueue) \/ tries + 1 = MAX_JOIN_ATTEMPTS
  <2>1. CASE last
    <3>1. JoinReturns(Head(xResponseQueue)) /\ UNCHANGED <<request, frames>>
      BY <1>8, <2>1 DEF JoinAnswered, mac
    <3>2. pc' \in {"poll", "send", "exit"} /\ tries' = 0
      BY <3>1 DEF JoinReturns
    <3> QED BY <3>1, <3>2, PortAssumption DEF CtrlOK, PortAssumption
  <2>2. CASE ~last
    <3>1. /\ pc' = "join" /\ tries' = tries + 1 /\ tries + 1 # MAX_JOIN_ATTEMPTS
          /\ UNCHANGED <<request, frames>>
      BY <1>8, <2>2 DEF JoinAnswered, mac
    <3> QED BY <3>1, PortAssumption DEF CtrlOK, PortAssumption
  <2> QED BY <2>1, <2>2
<1>9. CASE SendAnswered
  BY <1>9 DEF CtrlOK, SendAnswered, SendReturns, AppRuns, mac
<1>10. CASE Receives
  BY <1>10 DEF CtrlOK, Receives, AppRuns, mac
<1>11. CASE PollsEvent
  BY <1>11 DEF CtrlOK, PollsEvent, AppRuns, mac
<1>12. CASE PollsNothing
  BY <1>12 DEF CtrlOK, PollsNothing, AppRuns, queues
<1>13. CASE Delays
  BY <1>13 DEF CtrlOK, Delays, AppRuns, mac, queues
<1>14. CASE UNCHANGED vars
  BY <1>14 DEF CtrlOK, vars, app, mac, queues
<1> QED
  BY <1>1, <1>2, <1>3, <1>4, <1>5, <1>6, <1>7, <1>8,
     <1>9, <1>10, <1>11, <1>12, <1>13, <1>14 DEF Next, MacNext, AppNext

(* What it remembers of the last calls. *)
LEMMA BoolStep == BoolOK /\ ResponseOK /\ [Next]_vars => BoolOK'
<1> SUFFICES ASSUME BoolOK, ResponseOK, [Next]_vars PROVE BoolOK'
  OBVIOUS
<1>1. ASSUME NEW ok \in BOOLEAN, NEW frame \in Frames, NEW due \in BOOLEAN,
             MacFinishes(ok, frame, due)
      PROVE  BoolOK'
  BY <1>1 DEF BoolOK, MacFinishes, app, queues
<1>2. ASSUME NEW frame \in Frames, NEW due \in BOOLEAN,
             MacRepeats(frame, due)
      PROVE  BoolOK'
  BY <1>2 DEF BoolOK, MacRepeats, app, queues
<1>3. ASSUME NEW ok \in BOOLEAN,
             MacJoins(ok)
      PROVE  BoolOK'
  BY <1>3 DEF BoolOK, MacJoins, app, queues
<1>4. CASE MacSends
  BY <1>4 DEF BoolOK, MacSends, app, IsFull, Messages
<1>5. CASE MacGivesUp
  BY <1>5 DEF BoolOK, MacGivesUp, app, queues, Messages
<1>6. ASSUME NEW accepted \in BOOLEAN,
             JoinRequests(accepted)
      PROVE  BoolOK'
  BY <1>6 DEF BoolOK, JoinRequests, JoinReturns, AppRuns, queues
<1>7. ASSUME NEW accepted \in BOOLEAN,
             SendRequests(accepted)
      PROVE  BoolOK'
  BY <1>7 DEF BoolOK, SendRequests, SendReturns, AppRuns, queues
<1>8. CASE JoinAnswered
  <2>1. Head(xResponseQueue) \in BOOLEAN
    BY <1>8, OneInQueue DEF ResponseOK, JoinAnswered
  <2> QED BY <1>8, <2>1 DEF BoolOK, JoinAnswered, JoinReturns, AppRuns, mac
<1>9. CASE SendAnswered
  <2>1. Head(xResponseQueue) \in BOOLEAN
    BY <1>9, OneInQueue DEF ResponseOK, SendAnswered
  <2> QED BY <1>9, <2>1 DEF BoolOK, SendAnswered, SendReturns, AppRuns, mac
<1>10. CASE Receives
  BY <1>10 DEF BoolOK, Receives, AppRuns, mac
<1>11. CASE PollsEvent
  BY <1>11 DEF BoolOK, PollsEvent, AppRuns, mac
<1>12. CASE PollsNothing
  BY <1>12 DEF BoolOK, PollsNothing, AppRuns, queues
<1>13. CASE Delays
  BY <1>13 DEF BoolOK, Delays, AppRuns, mac, queues
<1>14. CASE UNCHANGED vars
  BY <1>14 DEF BoolOK, vars, app, mac, queues
<1> QED
  BY <1>1, <1>2, <1>3, <1>4, <1>5, <1>6, <1>7, <1>8,
     <1>9, <1>10, <1>11, <1>12, <1>13, <1>14 DEF Next, MacNext, AppNext

(* The response queue holds at most one status. *)
LEMMA ResponseStep == ResponseOK /\ QueuesOK /\ [Next]_vars => ResponseOK'
<1> SUFFICES ASSUME ResponseOK, QueuesOK, [Next]_vars PROVE ResponseOK'
  OBVIOUS
<1>1. ASSUME NEW ok \in BOOLEAN, NEW frame \in Frames, NEW due \in BOOLEAN,
             MacFinishes(ok, frame, due)
      PROVE  ResponseOK'
  BY <1>1 DEF ResponseOK, MacFinishes, app, queues
<1>2. ASSUME NEW frame \in Frames, NEW due \in BOOLEAN,
             MacRepeats(frame, due)
      PROVE  ResponseOK'
  BY <1>2 DEF ResponseOK, MacRepeats, app, queues
<1>3. ASSUME NEW ok \in BOOLEAN,
             MacJoins(ok)
      PROVE  ResponseOK'
  BY <1>3 DEF ResponseOK, MacJoins, app, queues
<1>4. CASE MacSends
  <2>1. CASE Head(out).queue = "response"
    <3>1. Head(out).what \in BOOLEAN
      BY <1>4, <2>1, HeadTailProperties DEF MacSends, QueuesOK, Messages
    <3>2. xResponseQueue = <<>>
      <4>1. Len(xResponseQueue) # 1
        BY <1>4, <2>1 DEF MacSends, IsFull
      <4> QED BY <4>1, OneInQueue DEF ResponseOK
    <3> QED BY <1>4, <2>1, <3>1, <3>2 DEF ResponseOK, MacSends
  <2>2. CASE Head(out).queue # "response"
    BY <1>4, <2>2 DEF ResponseOK, MacSends
  <2> QED BY <2>1, <2>2
<1>5. CASE MacGivesUp
  BY <1>5 DEF ResponseOK, MacGivesUp, app, queues, Messages
<1>6. ASSUME NEW accepted \in BOOLEAN,
             JoinRequests(accepted)
      PROVE  ResponseOK'
  BY <1>6 DEF ResponseOK, JoinRequests, JoinReturns, AppRuns, queues
<1>7. ASSUME NEW accepted \in BOOLEAN,
             SendRequests(accepted)
      PROVE  ResponseOK'
  BY <1>7 DEF ResponseOK, SendRequests, SendReturns, AppRuns, queues
<1>8. CASE JoinAnswered
  <2>1. xResponseQueue # <<>> /\ xResponseQueue' = Tail(xResponseQueue)
    BY <1>8 DEF JoinAnswered
  <2>2. Tail(xResponseQueue) = <<>>
    BY <2>1, OneInQueue DEF ResponseOK
  <2> QED BY <2>1, <2>2, EmptySeq DEF ResponseOK
<1>9. CASE SendAnswered
  <2>1. xResponseQueue # <<>> /\ xResponseQueue' = Tail(xResponseQueue)
    BY <1>9 DEF SendAnswered
  <2>2. Tail(xResponseQueue) = <<>>
    BY <2>1, OneInQueue DEF ResponseOK
  <2> QED BY <2>1, <2>2, EmptySeq DEF ResponseOK
<1>10. CASE Receives
  BY <1>10 DEF ResponseOK, Receives, AppRuns, mac
<1>11. CASE PollsEvent
  BY <1>11 DEF ResponseOK, PollsEvent, AppRuns, mac
<1>12. CASE PollsNothing
  BY <1>12 DEF ResponseOK, PollsNothing, AppRuns, queues
<1>13. CASE Delays
  BY <1>13 DEF ResponseOK, Delays, AppRuns, mac, queues
<1>14. CASE UNCHANGED vars
  BY <1>14 DEF ResponseOK, vars, app, mac, queues
<1> QED
  BY <1>1, <1>2, <1>3, <1>4, <1>5, <1>6, <1>7, <1>8,
     <1>9, <1>10, <1>11, <1>12, <1>13, <1>14 DEF Next, MacNext, AppNext

(* The other queues, and what is on its way to them. *)
LEMMA QueuesStep == QueuesOK /\ [Next]_vars => QueuesOK'
<1> SUFFICES ASSUME QueuesOK, [Next]_vars PROVE QueuesOK'
  OBVIOUS
<1>1. ASSUME NEW ok \in BOOLEAN, NEW frame \in Frames, NEW due \in BOOLEAN,
             MacFinishes(ok, frame, due)
      PROVE  QueuesOK'
  BY <1>1, FinishSends DEF QueuesOK, MacFinishes, app, queues
<1>2. ASSUME NEW frame \in Frames, NEW due \in BOOLEAN,
             MacRepeats(frame, due)
      PROVE  QueuesOK'
  <2>1. out' \in Seq(Messages)
    BY <1>2, OthersType, OthersAreMessages DEF MacRepeats
  <2> QED BY <1>2, <2>1 DEF QueuesOK, MacRepeats, queues
<1>3. ASSUME NEW ok \in BOOLEAN,
             MacJoins(ok)
      PROVE  QueuesOK'
  BY <1>3, ResponseType DEF QueuesOK, MacJoins, app, queues
<1>4. CASE MacSends
  <2>1. Head(out) \in Messages /\ out' \in Seq(Messages)
    BY <1>4, HeadTailProperties DEF MacSends, QueuesOK
  <2>2. CASE Head(out).queue = "downlink"
    <3>1. Head(out).what = "data"
      BY <2>1, <2>2 DEF Messages
    <3>2. xDownlinkQueue = <<>>
      <4>1. Len(xDownlinkQueue) # 1
        BY <1>4, <2>2 DEF MacSends, IsFull
      <4> QED BY <4>1, OneInQueue DEF QueuesOK
    <3> QED BY <1>4, <2>1, <2>2, <3>1, <3>2 DEF QueuesOK, MacSends
  <2>3. CASE Head(out).queue = "event"
    <3>1. Head(out).what \in Events
      BY <2>1, <2>3 DEF Messages
    <3>2. Len(xEventQueue) < EVENT_QUEUE_SIZE
      <4>1. Len(xEventQueue) \in Nat /\ Len(xEventQueue) <= EVENT_QUEUE_SIZE
        BY EmptySeq DEF QueuesOK
      <4>2. Len(xEventQueue) # EVENT_QUEUE_SIZE
        BY <1>4, <2>3 DEF MacSends, IsFull
      <4> QED BY <4>1, <4>2, PortAssumption DEF PortAssumption
    <3>3. xEventQueue' = Append(xEventQueue, Head(out).what)
      BY <1>4, <2>3 DEF MacSends
    <3>4. xEventQueue' \in Seq(Events) /\ Len(xEventQueue') = Len(xEventQueue) + 1
      BY <3>1, <3>3, AppendProperties DEF QueuesOK
    <3>5. Len(xEventQueue') <= EVENT_QUEUE_SIZE
      BY <3>2, <3>4, EmptySeq, PortAssumption DEF QueuesOK, PortAssumption
    <3>6. UNCHANGED <<xDownlinkQueue, dropped>>
      BY <1>4, <2>3 DEF MacSends
    <3> QED BY <2>1, <3>4, <3>5, <3>6 DEF QueuesOK
  <2>4. CASE Head(out).queue = "response"
    BY <1>4, <2>1, <2>4 DEF QueuesOK, MacSends
  <2> QED BY <2>1, <2>2, <2>3, <2>4 DEF Messages
<1>5. CASE MacGivesUp
  <2>1. Head(out) \in Messages /\ Tail(out) \in Seq(Messages)
    BY <1>5, HeadTailProperties DEF MacGivesUp, QueuesOK
  <2>2. Head(out).queue \in {"response", "downlink", "event"}
    BY <2>1 DEF Messages
  <2> QED BY <1>5, <2>1, <2>2 DEF QueuesOK, MacGivesUp, queues
<1>6. ASSUME NEW accepted \in BOOLEAN,
             JoinRequests(accepted)
      PROVE  QueuesOK'
  BY <1>6 DEF QueuesOK, JoinRequests, JoinReturns, AppRuns, queues
<1>7. ASSUME NEW accepted \in BOOLEAN,
             SendRequests(accepted)
      PROVE  QueuesOK'
  BY <1>7 DEF QueuesOK, SendRequests, SendReturns, AppRuns, queues
<1>8. CASE JoinAnswered
  BY <1>8 DEF QueuesOK, JoinAnswered, JoinReturns, AppRuns, mac
<1>9. CASE SendAnswered
  BY <1>9 DEF QueuesOK, SendAnswered, SendReturns, AppRuns, mac
<1>10. CASE Receives
  BY <1>10 DEF QueuesOK, Receives, AppRuns, mac
<1>11. CASE PollsEvent
  <2>1. Tail(xEventQueue) \in Seq(Events) /\ Len(Tail(xEventQueue)) = Len(xEventQueue) - 1
    BY <1>11, HeadTailProperties DEF QueuesOK, PollsEvent
  <2>2. Len(xEventQueue) \in Nat
    BY EmptySeq DEF QueuesOK
  <2> QED BY <1>11, <2>1, <2>2, PortAssumption DEF QueuesOK, PollsEvent, mac, PortAssumption
<1>12. CASE PollsNothing
  <2>1. out' = out \/ out' = <<>>
    BY <1>12 DEF PollsNothing
  <2> QED BY <1>12, <2>1, EmptySeq DEF QueuesOK, PollsNothing, queues
<1>13. CASE Delays
  BY <1>13 DEF QueuesOK, Delays, AppRuns, mac, queues
<1>14. CASE UNCHANGED vars
  BY <1>14 DEF QueuesOK, vars, app, mac, queues
<1> QED
  BY <1>1, <1>2, <1>3, <1>4, <1>5, <1>6, <1>7, <1>8,
     <1>9, <1>10, <1>11, <1>12, <1>13, <1>14 DEF Next, MacNext, AppNext

-----------------------------------------------------------------------------
(* The token *)

(* Every step keeps the types. *)
LEMMA TypeStep == TypeOK /\ [Next]_vars => TypeOK'
<1>1. ASSUME TypeOK, [Next]_vars
      PROVE  CtrlOK' /\ BoolOK' /\ ResponseOK' /\ QueuesOK'
  BY <1>1, TypeParts, CtrlStep, BoolStep, ResponseStep, QueuesStep
<1>2. ASSUME CtrlOK', BoolOK', ResponseOK', QueuesOK' PROVE TypeOK'
  BY <1>2 DEF TypeOK, CtrlOK, BoolOK, ResponseOK, QueuesOK
<1> QED BY <1>1, <1>2

(* What is behind the first message is never a response. *)
LEMMA OutStep == QueuesOK /\ OutInv /\ [Next]_vars => OutInv'
<1> SUFFICES ASSUME QueuesOK, OutInv, [Next]_vars PROVE OutInv'
  OBVIOUS
<1>1. ASSUME NEW ok \in BOOLEAN, NEW frame \in Frames, NEW due \in BOOLEAN,
             MacFinishes(ok, frame, due)
      PROVE  OutInv'
  BY <1>1, FinishSends DEF OutInv
<1>2. ASSUME NEW frame \in Frames, NEW due \in BOOLEAN, MacRepeats(frame, due)
      PROVE  OutInv'
  <2>1. out' \in Seq(Others)
    BY <1>2, OthersType DEF MacRepeats
  <2> QED BY <2>1, NoResponseFirst DEF OutInv
<1>3. ASSUME NEW ok \in BOOLEAN, MacJoins(ok) PROVE OutInv'
  <2>1. Tail(out') = <<>>
    BY <1>3 DEF MacJoins, Response
  <2> QED BY <2>1, EmptySeq DEF OutInv
<1>4. CASE MacSends \/ MacGivesUp
  <2>1. out' = Tail(out) /\ Tail(out) \in Seq(Others)
    BY <1>4 DEF MacSends, MacGivesUp, OutInv
  <2> QED BY <2>1, NoResponseFirst DEF OutInv
<1>5. CASE AppNext \/ UNCHANGED vars
  <2>1. out' = out \/ out' = <<>>
    BY <1>5 DEF AppNext, JoinRequests, SendRequests, JoinAnswered, SendAnswered,
       Receives, PollsEvent, PollsNothing, Delays, mac, vars
  <2> QED BY <2>1 DEF OutInv
<1> QED
  BY <1>1, <1>2, <1>3, <1>4, <1>5 DEF Next, MacNext

(* The steps of the MAC task keep the token. *)
LEMMA MacTokenStep ==
  ASSUME TypeOK, OutInv, TokenInv, MacNext PROVE TokenInv'
<1>1. ASSUME NEW ok \in BOOLEAN, NEW frame \in Frames, NEW due \in BOOLEAN,
             MacFinishes(ok, frame, due)
      PROVE  TokenInv'
  <2>1. ResponseLeaves' /\ request' = "none"
    BY <1>1, FinishSends DEF MacFinishes, ResponseLeaves
  <2> QED BY <1>1, <2>1 DEF MacFinishes, TokenInv, Waiting, app, queues
<1>2. ASSUME NEW frame \in Frames, NEW due \in BOOLEAN, MacRepeats(frame, due)
      PROVE  TokenInv'
  <2>1. ~ResponseLeaves'
    BY <1>2, OthersType, NoResponseFirst DEF MacRepeats, ResponseLeaves
  <2> QED BY <1>2, <2>1 DEF MacRepeats, TokenInv, Waiting, app, queues
<1>3. ASSUME NEW ok \in BOOLEAN, MacJoins(ok) PROVE TokenInv'
  <2>1. ResponseLeaves' /\ request' = "none"
    BY <1>3 DEF MacJoins, Response, ResponseLeaves
  <2> QED BY <1>3, <2>1 DEF MacJoins, TokenInv, Waiting, app, queues
<1>4. CASE MacSends
  <2>1. ~ResponseLeaves'
    BY <1>4, NoResponseFirst DEF MacSends, OutInv, ResponseLeaves
  <2>2. CASE ResponseLeaves
    <3>1. request = "none" /\ Waiting /\ xResponseQueue = <<>>
      BY <2>2 DEF TokenInv
    <3>2. xResponseQueue' # <<>>
      BY <1>4, <2>2, <3>1 DEF MacSends, ResponseLeaves
    <3> QED BY <1>4, <2>1, <3>1, <3>2 DEF MacSends, TokenInv, Waiting, app
  <2>3. CASE ~ResponseLeaves
    <3>1. xResponseQueue' = xResponseQueue
      BY <1>4, <2>3 DEF MacSends, ResponseLeaves
    <3> QED BY <1>4, <2>1, <2>3, <3>1 DEF MacSends, TokenInv, Waiting, app
  <2> QED BY <2>2, <2>3
<1>5. CASE MacGivesUp
  <2>1. ~ResponseLeaves'
    BY <1>5, NoResponseFirst DEF MacGivesUp, OutInv, ResponseLeaves
  <2>2. ~ResponseLeaves
    <3>1. ASSUME ResponseLeaves PROVE FALSE
      <4>1. xResponseQueue = <<>> /\ Len(xResponseQueue) = 1
        BY <1>5, <3>1 DEF MacGivesUp, IsFull, ResponseLeaves, TokenInv
      <4> QED BY <4>1
    <3> QED BY <3>1
  <2>3. "response" \notin dropped'
    BY <1>5, <2>2 DEF MacGivesUp, ResponseLeaves, TokenInv
  <2> QED BY <1>5, <2>1, <2>2, <2>3 DEF MacGivesUp, TokenInv, Waiting, app, queues
<1> QED
  BY <1>1, <1>2, <1>3, <1>4, <1>5 DEF MacNext

(* The steps of the application's task keep the token: a call that asks    *)
(* creates it, a call that returns takes it.                               *)
LEMMA AppTokenStep ==
  ASSUME TypeOK, OutInv, TokenInv, AppNext PROVE TokenInv'
<1>1. ASSUME NEW accepted \in BOOLEAN, JoinRequests(accepted) PROVE TokenInv'
  <2>1. ~Waiting /\ request = "none" /\ ~ResponseLeaves /\ xResponseQueue = <<>>
    BY <1>1 DEF JoinRequests, AppRuns, Waiting, TokenInv
  <2>2. ~ResponseLeaves' /\ xResponseQueue' = <<>> /\ "response" \notin dropped'
    BY <1>1, <2>1 DEF JoinRequests, ResponseLeaves, queues, TokenInv
  <2>3. CASE accepted
    BY <1>1, <2>2, <2>3 DEF JoinRequests, TokenInv, Waiting
  <2>4. CASE ~accepted
    BY <1>1, <2>1, <2>2, <2>4 DEF JoinRequests, JoinReturns, TokenInv, Waiting
  <2> QED BY <2>3, <2>4
<1>2. ASSUME NEW accepted \in BOOLEAN, SendRequests(accepted) PROVE TokenInv'
  <2>1. ~Waiting /\ request = "none" /\ ~ResponseLeaves /\ xResponseQueue = <<>>
    BY <1>2 DEF SendRequests, AppRuns, Waiting, TokenInv
  <2>2. ~ResponseLeaves' /\ xResponseQueue' = <<>> /\ "response" \notin dropped'
    BY <1>2, <2>1 DEF SendRequests, ResponseLeaves, queues, TokenInv
  <2>3. CASE accepted
    BY <1>2, <2>2, <2>3 DEF SendRequests, TokenInv, Waiting
  <2>4. CASE ~accepted
    BY <1>2, <2>1, <2>2, <2>4 DEF SendRequests, SendReturns, TokenInv, Waiting
  <2> QED BY <2>3, <2>4
<1>3. CASE JoinAnswered \/ SendAnswered
  <2>1. xResponseQueue # <<>> /\ xResponseQueue' = Tail(xResponseQueue)
    BY <1>3 DEF JoinAnswered, SendAnswered
  <2>2. xResponseQueue' = <<>>
    BY <2>1, OneInQueue DEF TypeOK
  <2>3. request = "none" /\ ~ResponseLeaves
    BY <2>1 DEF TokenInv
  <2>4. pc' \notin {"joinWait", "sendWait"}
    BY <1>3 DEF JoinAnswered, JoinReturns, SendAnswered, SendReturns
  <2>5. UNCHANGED <<request, out, dropped>>
    BY <1>3 DEF JoinAnswered, SendAnswered, mac
  <2> QED BY <2>2, <2>3, <2>4, <2>5 DEF TokenInv, Waiting, ResponseLeaves
<1>4. CASE Receives \/ PollsEvent \/ PollsNothing \/ Delays
  <2>1. ~Waiting /\ pc' \notin {"joinWait", "sendWait"}
    BY <1>4 DEF Receives, PollsEvent, PollsNothing, Delays, AppRuns, Waiting
  <2>2. request = "none" /\ ~ResponseLeaves /\ xResponseQueue = <<>>
    BY <2>1 DEF TokenInv
  <2>3. UNCHANGED <<request, xResponseQueue, dropped>> /\ (out' = out \/ out' = <<>>)
    BY <1>4 DEF Receives, PollsEvent, PollsNothing, Delays, mac, queues
  <2> QED BY <2>1, <2>2, <2>3 DEF TokenInv, Waiting, ResponseLeaves
<1> QED
  BY <1>1, <1>2, <1>3, <1>4 DEF AppNext

(* The invariant is inductive. *)
LEMMA StepInv == IInv /\ [Next]_vars => IInv'
<1> SUFFICES ASSUME IInv, [Next]_vars PROVE IInv'
  OBVIOUS
<1>1. TypeOK' /\ OutInv'
  BY TypeStep, OutStep, TypeParts DEF IInv
<1>2. CASE UNCHANGED vars
  BY <1>1, <1>2 DEF IInv, TokenInv, Waiting, ResponseLeaves, vars, app, mac, queues
<1>3. CASE Next
  BY <1>1, <1>3, MacTokenStep, AppTokenStep DEF IInv, Next
<1> QED BY <1>2, <1>3

(* It holds in every behaviour. *)
LEMMA Invariance == Spec => []IInv
<1> QED BY InitInv, StepInv, PTL DEF Spec

-----------------------------------------------------------------------------
(* The indices of responses on their way are what ResponseLeaves says. *)
LEMMA ResponsesAreFirst ==
  ASSUME IInv
  PROVE  Responses # {} <=> ResponseLeaves
<1>1. ASSUME ResponseLeaves PROVE Responses # {}
  <2>1. out \in Seq(Messages) /\ out # <<>> /\ Head(out).queue = "response"
    BY <1>1 DEF IInv, TypeOK, ResponseLeaves
  <2>2. 1 \in DOMAIN out /\ out[1].queue = "response"
    BY <2>1, EmptySeq
  <2> QED BY <2>2 DEF Responses
<1>2. ASSUME NEW i \in Responses PROVE ResponseLeaves
  <2>1. /\ out \in Seq(Messages) /\ i \in 1 .. Len(out) /\ out # <<>>
        /\ out[i].queue = "response" /\ Tail(out) \in Seq(Others)
    BY <1>2 DEF Responses, IInv, TypeOK, OutInv
  <2>2. i = 1
    <3>1. ASSUME i # 1 PROVE FALSE
      <4>1. i - 1 \in 1 .. Len(Tail(out)) /\ Tail(out)[i - 1] = out[i]
        BY <2>1, <3>1
      <4>2. Tail(out)[i - 1] \in Others
        BY <2>1, <4>1
      <4> QED BY <2>1, <4>1, <4>2 DEF Others
    <3> QED BY <3>1
  <2> QED BY <2>1, <2>2 DEF ResponseLeaves
<1> QED BY <1>1, <1>2

(* The variables of the port keep their types.                             *)
THEOREM TypeCorrect == Spec => []TypeOK
<1>1. IInv => TypeOK
  BY DEF IInv
<1> QED BY <1>1, Invariance, PTL

(* Whatever the lengths of the other queues and the number of attempts: a  *)
(* response reaches the call that asked for it, and the MAC task never     *)
(* finds the queue of one response full (freertos_lorawan.c, xQueueSend in *)
(* prvMcpsConfirm and prvMlmeConfirm).                                     *)
THEOREM ResponsesMatch == Spec => []ResponseIsForRequest
<1>1. IInv => ResponseIsForRequest
  BY ResponsesAreFirst DEF IInv, TokenInv, ResponseIsForRequest
<1> QED BY <1>1, Invariance, PTL

(* LoRaWAN_Join() and LoRaWAN_Send() never wait on the response queue      *)
(* without a time limit for an answer nobody will give.                    *)
THEOREM AnswersExist == Spec => []AnswerExists
<1>1. IInv => AnswerExists
  BY ResponsesAreFirst DEF IInv, TokenInv, AnswerExists
<1> QED BY <1>1, Invariance, PTL
=============================================================================
