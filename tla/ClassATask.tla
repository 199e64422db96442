---------------------------- MODULE ClassATask ----------------------------
(***************************************************************************)
(* The FreeRTOS port of the stack, lib/FreeRTOS-LoRaWAN/freertos_lorawan.c,*)
(* under the application that uses it, app/freertos_lorawan/classa_task.c. *)
(*                                                                         *)
(* Two tasks meet in three queues.  The MAC task has the highest priority: *)
(* it runs a LoRaMacProcess() to its end, unless a queue it sends to is    *)
(* full; it then waits for one tick, in which the application runs, and    *)
(* gives the message up.  The MAC itself is what LoRaMacService says: it   *)
(* confirms a request it accepted, once, and then accepts the next.        *)
(***************************************************************************)
EXTENDS Naturals, Sequences

CONSTANTS
  EVENT_QUEUE_SIZE,      \* lorawanConfigEVENT_QUEUE_SIZE, 4; the other two
                         \* queues hold one message
  MAX_JOIN_ATTEMPTS,     \* lorawanConfigMAX_JOIN_ATTEMPTS, 1000
  MaxFrames              \* frames one uplink and its repetitions may bring

ASSUME PortAssumption ==
  /\ EVENT_QUEUE_SIZE \in Nat \ {0} /\ MAX_JOIN_ATTEMPTS \in Nat \ {0}
  /\ MaxFrames \in Nat

VARIABLES
  pc,          \* where vLorawanClassATask() is
  fetching,    \* is it in prvFetchDownlinkPacket()?
  started,     \* has it joined for the first time?
  status,      \* its status: is it LORAMAC_STATUS_OK?
  tries,       \* xNumTries of LoRaWAN_Join()
  request,     \* the request the MAC works on
  frames,      \* the frames it may still bring
  out,         \* what the MAC task has yet to send of this LoRaMacProcess()
  xResponseQueue, xDownlinkQueue, xEventQueue,
  dropped      \* history: the queues that lost a message

app    == <<pc, fetching, started, status, tries>>
mac    == <<request, frames, out>>
queues == <<xResponseQueue, xDownlinkQueue, xEventQueue>>
vars   == <<app, mac, queues, dropped>>

Events   == {"downlinkPending", "tooManyFrameLoss"}
Messages == [queue : {"response"}, what : BOOLEAN]
              \cup [queue : {"downlink"}, what : {"data"}]
              \cup [queue : {"event"}, what : Events]

(* Blocked on the response queue, with no time limit. *)
Waiting == pc \in {"joinWait", "sendWait"}

TypeOK ==
  /\ pc \in {"join", "joinWait", "send", "sendWait", "receive", "poll", "delay", "exit"}
  /\ fetching \in BOOLEAN /\ started \in BOOLEAN /\ status \in BOOLEAN
  /\ tries \in 0 .. MAX_JOIN_ATTEMPTS - 1
  /\ request \in {"none", "join", "uplink"}
  /\ frames \in 0 .. MaxFrames
  /\ out \in Seq(Messages)
  /\ xResponseQueue \in Seq(BOOLEAN) /\ Len(xResponseQueue) <= 1
  /\ xDownlinkQueue \in Seq({"data"}) /\ Len(xDownlinkQueue) <= 1
  /\ xEventQueue \in Seq(Events) /\ Len(xEventQueue) <= EVENT_QUEUE_SIZE
  /\ dropped \subseteq {"response", "downlink", "event"}

(* LoRaWAN_Init() has made the queues and the MAC task. *)
Init ==
  /\ pc = "join" /\ fetching = FALSE /\ started = FALSE /\ status = TRUE /\ tries = 0
  /\ request = "none" /\ frames = 0 /\ out = <<>>
  /\ xResponseQueue = <<>> /\ xDownlinkQueue = <<>> /\ xEventQueue = <<>>
  /\ dropped = {}

-----------------------------------------------------------------------------
(* The MAC task *)

IsFull(queue) ==
  \/ queue = "response" /\ Len(xResponseQueue) = 1
  \/ queue = "downlink" /\ Len(xDownlinkQueue) = 1
  \/ queue = "event" /\ Len(xEventQueue) = EVENT_QUEUE_SIZE

Response(ok) == <<[queue |-> "response", what |-> ok]>>
DownlinkPending == <<[queue |-> "event", what |-> "downlinkPending"]>>

(* prvMcpsIndication: a frame lost too many before it, or it is accepted,  *)
(* with or without data, and may say that more are pending.  "none" also   *)
(* stands for a frame of any other status.                                 *)
Frames == {"none", "loss", "data", "dataPending", "pending"}

Indication(frame) ==
  (IF frame \in {"data", "dataPending"}
   THEN <<[queue |-> "downlink", what |-> "data"]>> ELSE <<>>)
  \o (IF frame \in {"pending", "dataPending"} THEN DownlinkPending ELSE <<>>)
  \o (IF frame = "loss" THEN <<[queue |-> "event", what |-> "tooManyFrameLoss"]>>
      ELSE <<>>)

(* prvMlmeIndication: MLME_SCHEDULE_UPLINK. *)
Schedule(due) == IF due THEN DownlinkPending ELSE <<>>

(* A frame comes without the acknowledgement: the uplink will be repeated. *)
(* The loop sends its uplinks unconfirmed, and a frame ends one of those.  *)
MacRepeats(frame, due) ==
  /\ request = "uplink" /\ fetching /\ out = <<>>
  /\ frames > 0 /\ frames' = frames - 1
  /\ out' = Schedule(due) \o Indication(frame)
  /\ UNCHANGED <<app, request, queues, dropped>>

(* prvMcpsConfirm: "ok" is false for a confirmed uplink that was not       *)
(* acknowledged, and for one that was not sent.  The frame of the last     *)
(* window is indicated after it.                                           *)
MacFinishes(ok, frame, due) ==
  /\ request = "uplink" /\ out = <<>>
  /\ ok \/ fetching \/ (frame = "none" /\ ~due)
  /\ request' = "none"
  /\ out' = Response(ok) \o Schedule(due) \o Indication(frame)
  /\ UNCHANGED <<app, frames, queues, dropped>>

(* Mutant: a join that failed is not reported. *)
MacJoinsIfOk(ok) ==
  /\ request = "join" /\ out = <<>>
  /\ request' = "none"
  /\ out' = IF ok THEN Response(ok) ELSE <<>>
  /\ UNCHANGED <<app, frames, queues, dropped>>

(* prvMlmeConfirm: MLME_JOIN. *)
MacJoins(ok) ==
  /\ request = "join" /\ out = <<>>
  /\ request' = "none"
  /\ out' = Response(ok)
  /\ UNCHANGED <<app, frames, queues, dropped>>

(* Mutant: events are sent to the front. *)
MacSendsToFront ==
  /\ out # <<>> /\ ~IsFull(Head(out).queue)
  /\ out' = Tail(out)
  /\ LET m == Head(out)
         put(queue, q) == IF m.queue = queue THEN <<m.what>> \o q ELSE q
     IN /\ xResponseQueue' = put("response", xResponseQueue)
        /\ xDownlinkQueue' = put("downlink", xDownlinkQueue)
        /\ xEventQueue' = put("event", xEventQueue)
  /\ UNCHANGED <<app, request, frames, dropped>>

(* xQueueSend(..., 1) *)
MacSends ==
  /\ out # <<>> /\ ~IsFull(Head(out).queue)
  /\ out' = Tail(out)
  /\ LET m == Head(out)
         put(queue, q) == IF m.queue = queue THEN Append(q, m.what) ELSE q
     IN /\ xResponseQueue' = put("response", xResponseQueue)
        /\ xDownlinkQueue' = put("downlink", xDownlinkQueue)
        /\ xEventQueue' = put("event", xEventQueue)
  /\ UNCHANGED <<app, request, frames, dropped>>

(* The tick is over and the queue is still full. *)
MacGivesUp ==
  /\ out # <<>> /\ IsFull(Head(out).queue)
  /\ out' = Tail(out) /\ dropped' = dropped \cup {Head(out).queue}
  /\ UNCHANGED <<app, request, frames, queues>>

-----------------------------------------------------------------------------
(* The application's task *)

AppRuns(at) == pc = at /\ (out # <<>> => IsFull(Head(out).queue))

(* LoRaWAN_Join() returns. *)
JoinReturns(ok) ==
  /\ status' = ok
  /\ started' = (started \/ ok)
  /\ pc' = (IF started THEN "poll" ELSE IF ok THEN "send" ELSE "exit")
  /\ tries' = 0

(* LoRaMacMlmeRequest(MLME_JOIN) is accepted or refused; while the duty    *)
(* cycle restricts it, it is asked again after a delay.                    *)
JoinRequests(accepted) ==
  /\ AppRuns("join")
  /\ IF accepted
     THEN /\ request' = "join" /\ pc' = "joinWait"
          /\ UNCHANGED <<started, status, tries>>
     ELSE JoinReturns(FALSE) /\ UNCHANGED request
  /\ UNCHANGED <<fetching, frames, out, queues, dropped>>

(* The response to it: success, another attempt or the last failure. *)
JoinAnswered ==
  /\ AppRuns("joinWait") /\ xResponseQueue # <<>>
  /\ xResponseQueue' = Tail(xResponseQueue)
  /\ IF Head(xResponseQueue) \/ tries + 1 = MAX_JOIN_ATTEMPTS
     THEN JoinReturns(Head(xResponseQueue))
     ELSE /\ pc' = "join" /\ tries' = tries + 1
          /\ UNCHANGED <<started, status>>
  /\ UNCHANGED <<fetching, mac, xDownlinkQueue, xEventQueue, dropped>>

(* LoRaWAN_Send() returns: to the loop, which then waits for a downlink, or*)
(* for its next turn; or to prvFetchDownlinkPacket().                      *)
SendReturns(ok) ==
  /\ status' = ok
  /\ pc' = (IF ok THEN "receive" ELSE IF fetching THEN "poll" ELSE "delay")
  /\ fetching' = (fetching /\ ok)

SendRequests(accepted) ==
  /\ AppRuns("send")
  /\ IF accepted
     THEN /\ request' = "uplink" /\ frames' = MaxFrames /\ pc' = "sendWait"
          /\ UNCHANGED <<fetching, status>>
     ELSE SendReturns(FALSE) /\ UNCHANGED <<request, frames>>
  /\ UNCHANGED <<started, tries, out, queues, dropped>>

(* Mutant: the wait for the response has a time limit. *)
SendAnsweredOrNot ==
  /\ AppRuns("sendWait")
  /\ IF xResponseQueue # <<>>
     THEN xResponseQueue' = Tail(xResponseQueue) /\ SendReturns(Head(xResponseQueue))
     ELSE SendReturns(FALSE) /\ UNCHANGED xResponseQueue
  /\ UNCHANGED <<started, tries, mac, xDownlinkQueue, xEventQueue, dropped>>

SendAnswered ==
  /\ AppRuns("sendWait") /\ xResponseQueue # <<>>
  /\ xResponseQueue' = Tail(xResponseQueue)
  /\ SendReturns(Head(xResponseQueue))
  /\ UNCHANGED <<started, tries, mac, xDownlinkQueue, xEventQueue, dropped>>

(* LoRaWAN_Receive(): a downlink, or none for the whole receive window. *)
Receives ==
  /\ AppRuns("receive") /\ pc' = "poll" /\ fetching' = FALSE
  /\ xDownlinkQueue' = (IF xDownlinkQueue = <<>> THEN <<>> ELSE Tail(xDownlinkQueue))
  /\ UNCHANGED <<started, status, tries, mac, xResponseQueue, xEventQueue, dropped>>

(* LoRaWAN_PollEvent(): an event that says more is pending is answered by  *)
(* an empty confirmed uplink, too many lost frames by a new join.          *)
PollsEvent ==
  /\ AppRuns("poll") /\ xEventQueue # <<>>
  /\ xEventQueue' = Tail(xEventQueue)
  /\ \/ /\ Head(xEventQueue) = "downlinkPending"
        /\ fetching' = TRUE /\ pc' = "send"
     \/ /\ Head(xEventQueue) = "tooManyFrameLoss"
        /\ UNCHANGED fetching /\ pc' = "join"
  /\ UNCHANGED <<started, status, tries, mac, xResponseQueue, xDownlinkQueue, dropped>>

(* No more events.  When the last fetch or join failed the task leaves its *)
(* loop: LoRaWAN_Cleanup() deletes the MAC task and the queues.            *)
PollsNothing ==
  /\ AppRuns("poll") /\ xEventQueue = <<>>
  /\ IF status THEN pc' = "delay" /\ UNCHANGED out
     ELSE pc' = "exit" /\ out' = <<>>
  /\ UNCHANGED <<fetching, started, status, tries, request, frames, queues, dropped>>

Delays ==
  /\ AppRuns("delay") /\ pc' = "send"
  /\ UNCHANGED <<fetching, started, status, tries, mac, queues, dropped>>

MacNext ==
  \/ \E ok \in BOOLEAN, frame \in Frames, due \in BOOLEAN : MacFinishes(ok, frame, due)
  \/ \E frame \in Frames, due \in BOOLEAN : MacRepeats(frame, due)
  \/ \E ok \in BOOLEAN : MacJoins(ok)
  \/ MacSends \/ MacGivesUp

AppNext ==
  \/ \E accepted \in BOOLEAN : JoinRequests(accepted) \/ SendRequests(accepted)
  \/ JoinAnswered \/ SendAnswered
  \/ Receives \/ PollsEvent \/ PollsNothing \/ Delays

Next == MacNext \/ AppNext

Spec == Init /\ [][Next]_vars

(* Both tasks go on; the MAC comes to an end with every request, as        *)
(* LoRaMac.tla shows; now and then an uplink is accepted, and succeeds.    *)
Fairness ==
  /\ WF_vars(AppNext) /\ WF_vars(MacSends \/ MacGivesUp)
  /\ WF_vars(\E ok \in BOOLEAN : MacJoins(ok))
  /\ WF_vars(\E ok \in BOOLEAN, frame \in Frames, due \in BOOLEAN :
               MacFinishes(ok, frame, due))
  /\ SF_vars(SendRequests(TRUE))
  /\ SF_vars(\E frame \in Frames, due \in BOOLEAN : MacFinishes(TRUE, frame, due))

FairSpec == Spec /\ Fairness

-----------------------------------------------------------------------------
Responses == {i \in DOMAIN out : out[i].queue = "response"}

(* A response is for the request the task waits for, never for an earlier  *)
(* one, and the MAC task never finds the queue of one response full: the   *)
(* comment of lorawanConfigRESPONSE_QUEUE_SIZE, "there is at most 1        *)
(* LoRaWAN operation at a time".                                           *)
ResponseIsForRequest ==
  /\ "response" \notin dropped
  /\ request # "none" => Waiting
  /\ Responses # {} => Waiting /\ request = "none"
  /\ xResponseQueue # <<>> => Waiting /\ request = "none" /\ Responses = {}

(* A task that waits with no time limit waits for something: the MAC works *)
(* on its request, or the response is on its way or there.                 *)
AnswerExists ==
  Waiting => request # "none" \/ xResponseQueue # <<>> \/ Responses # {}

(* The calls that wait for ever return.                                    *)
CallsReturn == Waiting ~> ~Waiting

(* A device that lost too many frames joins again, or gives up; the event  *)
(* waits behind uplinks that fail and fetches that bring more events.      *)
LossIsAnswered ==
  (\E i \in DOMAIN xEventQueue : xEventQueue[i] = "tooManyFrameLoss")
    ~> pc \in {"join", "exit"}
=============================================================================
