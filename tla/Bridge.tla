-------------------------------- MODULE Bridge --------------------------------
(***************************************************************************)
(* The ROS bridge (bridge_node.py) on top of HostResources: main() loads   *)
(* and applies the file, starts the heartbeat thread, asks for the info    *)
(* and spins; then a single-threaded executor runs one callback at a time, *)
(* services and the poll timer, while the heartbeat thread receives frames *)
(* and puts them into the client's queues at any point of a callback.      *)
(*                                                                         *)
(* There are two topics, "telemetry" and "events", each with its queue.  A *)
(* frame is numbered in the order of arrival at its queue.                 *)
(*                                                                         *)
(* Bounds: MaxFrames in all; those of HostResources.                       *)
(***************************************************************************)
EXTENDS HostResources

CONSTANTS
  max_frames,             \* telemetry_max_frames, event_max_frames
  max_publish_per_poll,
  MaxFrames

(* A maxsize of 0 would be no bound. *)
ASSUME BridgeAssumption == max_frames \in Nat \ {0} /\ max_publish_per_poll \in Nat

VARIABLES
  phase,          \* of main()
  heartbeat,      \* the heartbeat thread: "off", "running", "dead"
  subscribed,     \* slots the board sends telemetry of
  name_by_ref,
  queue,          \* _telemetry_queue, _event_queue
  dropped,        \* telemetry_dropped, events_dropped
  poll,           \* where _poll is
  published,      \* in this poll, by topic
  response,       \* the last answer of a service
  arrived,        \* history: frames put into a queue, by topic
  shown           \* history: frames published, by topic, the last of them and its name

mainVars == <<phase, heartbeat>>
queueVars == <<queue, dropped, arrived>>
pollVars == <<poll, published, shown>>
bridgeVars == <<mainVars, subscribed, name_by_ref, queueVars, pollVars, response>>

Topics == {"telemetry", "events"}

BridgeTypeOK ==
  /\ phase \in {"configuring", "info", "spinning", "ended"}
  /\ heartbeat \in {"off", "running", "dead"}
  /\ poll \in {"idle", "reading"} \cup Topics
  /\ response \in {"none", "ok", "failed"}
  /\ \A t \in Topics : Len(queue[t]) <= max_frames /\ published[t] <= max_publish_per_poll
  /\ subscribed \subseteq {"gpio", "analog", "counter", "encoder", "dac"} \X Nat

BridgeInit ==
  /\ Init
  /\ phase = "configuring" /\ heartbeat = "off"
  /\ subscribed = {} /\ name_by_ref = <<>>
  /\ queue = [t \in Topics |-> <<>>] /\ dropped = [t \in Topics |-> 0]
  /\ arrived = [t \in Topics |-> 0]
  /\ poll = "idle" /\ published = [t \in Topics |-> 0]
  /\ shown = [t \in Topics |-> [count |-> 0, frame |-> 0, slot |-> "none", name |-> "none"]]
  /\ response = "none"

-----------------------------------------------------------------------------
(* Names. *)

(* _resource_ref looks through the handles of a name class by class; a PWM is
   not a resource to it. *)
ResourceClasses == <<"pin", "analog", "counter", "encoder", "dac">>

HasResource(name) == \E i \in DOMAIN ResourceClasses : HasRef(<<ResourceClasses[i], name>>)

_resource_ref(name) ==
  LET i == Min({j \in DOMAIN ResourceClasses : HasRef(<<ResourceClasses[j], name>>)})
  IN SlotOf(<<ResourceClasses[i], name>>)

(* Mutant: _counters and _encoders are left out of configure_names. *)
NamedClasses_pins == {"pin", "analog"}

(* The dictionaries that configure_names goes through. *)
NamedClasses == {"pin", "analog", "counter", "encoder"}

(* configure_names: of two names for one slot, either may come last. *)
configure_names ==
  LET named == {h[2] : h \in {g \in DOMAIN ref : g[1] \in NamedClasses}}
      slots == {_resource_ref(n) : n \in named}
  IN name_by_ref' \in {f \in [slots -> named] : \A s \in slots : _resource_ref(f[s]) = s}

-----------------------------------------------------------------------------
(* main(). *)

(* The first exception of configure_all ends the program. *)
Configures ==
  /\ phase = "configuring" /\ configured # "returned"
  /\ \/ configured = "no" /\ calls' = calls + 1 /\ ConfigureAll /\ UNCHANGED phase
     \/ ConfigureNext /\ phase' = IF Acknowledged THEN phase ELSE "ended"
  /\ UNCHANGED <<heartbeat, subscribed, name_by_ref, queueVars, pollVars, response>>

StartsHeartbeat ==
  /\ phase = "configuring" /\ configured = "returned"
  /\ phase' = "info" /\ heartbeat' = "running"
  /\ UNCHANGED <<vars, subscribed, name_by_ref, queueVars, pollVars, response>>

(* get_info, configure_names, spin. *)
Spins ==
  /\ phase = "info"
  /\ Command([op |-> "get_info"], FALSE, board)
  /\ phase' = IF Acknowledged THEN "spinning" ELSE "ended"
  /\ IF Acknowledged THEN configure_names ELSE UNCHANGED name_by_ref
  /\ heartbeat' = IF Acknowledged THEN heartbeat ELSE "off"
  /\ UNCHANGED <<configVars, handleVars, stopped, calls, edges, historyVars, subscribed,
                 queueVars, pollVars, response>>

(* spin returns, or an exception in a poll ends it; the finally clause closes the
   client. *)
Ends ==
  /\ phase = "spinning"
  /\ phase' = "ended" /\ heartbeat' = "off"
  /\ UNCHANGED <<vars, subscribed, name_by_ref, queueVars, pollVars, response>>

(* A heartbeat that is not answered in time ends its thread. *)
HeartbeatDies ==
  /\ heartbeat = "running" /\ timeouts < MaxTimeouts
  /\ timeouts' = timeouts + 1
  /\ heartbeat' = "dead"
  /\ UNCHANGED <<configVars, handleVars, board, stopped, callVars, calls, edges, historyVars, phase,
                 subscribed, name_by_ref, queueVars, pollVars, response>>

(* The board's watchdog, while no heartbeats come. *)
Watchdog ==
  /\ heartbeat # "running" /\ ~stopped /\ phase # "ended"
  /\ stopped' = TRUE
  /\ UNCHANGED <<configVars, handleVars, board, callVars, calls, edges, timeouts, historyVars, bridgeVars>>

-----------------------------------------------------------------------------
(* Services, each a callback that no other interrupts. *)

(* Mutant: a call that raises is answered as one that returns. *)
Answer_ok == response' = "ok"

(* _ok and _fail. *)
Answer == response' = IF Acknowledged THEN "ok" ELSE "failed"

(* digital_write, pwm_write, dac_write; the resets; the reads, which change
   nothing here and are refused where the board does not know the slot. *)
HandleService(h) ==
  /\ \/ \E v \in Values : write(h, v)
     \/ reset(h)
     \/ /\ Command([op |-> "read"], SlotOf(h) \notin DOMAIN board, board)
        /\ UNCHANGED <<configVars, handleVars, stopped, edges, historyVars>>
  /\ UNCHANGED subscribed

EmergencyStopService ==
  /\ \E active \in BOOLEAN : emergency_stop(active)
  /\ UNCHANGED subscribed

(* The call behind _subscribe.  The board refuses what it does not know. *)
subscribe(name) ==
  LET s == _resource_ref(name)
      refused == s[1] # "gpio" /\ s \notin DOMAIN board
  IN /\ HasResource(name)
     /\ Command([op |-> "subscribe", slot |-> s], refused, board)
     /\ subscribed' \in IF Acknowledged THEN {subscribed \cup {s}}
                        ELSE {subscribed} \cup (IF refused THEN {} ELSE {subscribed \cup {s}})
     /\ UNCHANGED <<configVars, handleVars, stopped, edges, historyVars>>

Service ==
  /\ phase = "spinning" /\ poll = "idle"
  /\ Len(config) + calls < MaxWork
  /\ calls' = calls + 1
  /\ \/ /\ (\E h \in DOMAIN ref : HandleService(h)) \/ EmergencyStopService
        /\ UNCHANGED name_by_ref
     \/ /\ \E n \in Names : subscribe(n)
        /\ IF Acknowledged THEN configure_names ELSE UNCHANGED name_by_ref
  /\ Answer
  /\ UNCHANGED <<mainVars, queueVars, pollVars>>

-----------------------------------------------------------------------------
(* Frames. *)

(* Mutant: a full queue grows. *)
Kept_all(t) == queue[t]

(* What _put_bounded keeps of a queue. *)
Kept(t) == IF Len(queue[t]) = max_frames THEN Tail(queue[t]) ELSE queue[t]

(* _put_bounded, in the poll or in the heartbeat thread, which reads frames
   while it waits for its answer.  Events come from pins. *)
Receive(t) ==
  /\ phase = "spinning" /\ (poll = "reading" \/ heartbeat = "running")
  /\ arrived["telemetry"] + arrived["events"] < MaxFrames
  /\ arrived' = [arrived EXCEPT ![t] = @ + 1]
  /\ \E s \in {r \in subscribed : t = "events" => r[1] = "gpio"} :
       /\ queue' = [queue EXCEPT ![t] = Append(Kept(t), [frame |-> arrived'[t], slot |-> s])]
       /\ dropped' = [dropped EXCEPT ![t] = @ + Len(queue[t]) - Len(Kept(t))]
  /\ UNCHANGED <<vars, mainVars, subscribed, name_by_ref, pollVars, response>>

PollStarts ==
  /\ phase = "spinning" /\ poll = "idle"
  /\ poll' = "reading" /\ published' = [t \in Topics |-> 0]
  /\ UNCHANGED <<vars, mainVars, subscribed, name_by_ref, queueVars, shown, response>>

(* _poll_async_packets returns. *)
PollHasRead ==
  /\ poll = "reading" /\ poll' = "telemetry"
  /\ UNCHANGED <<vars, mainVars, subscribed, name_by_ref, queueVars, published, shown, response>>

MayPublish(t) == published[t] < max_publish_per_poll

(* Mutant: the newest frame is published. *)
Next_newest(t) == Last(queue[t])

NextOf(t) == Head(queue[t])

Publish(t) ==
  /\ poll = t /\ MayPublish(t) /\ queue[t] # <<>>
  /\ LET f == NextOf(t)
     IN shown' = [shown EXCEPT ![t] =
                    [count |-> @.count + 1, frame |-> f.frame, slot |-> f.slot,
                     name |-> IF f.slot \in DOMAIN name_by_ref THEN name_by_ref[f.slot]
                                                               ELSE "none"]]
  /\ queue' = [queue EXCEPT ![t] = Tail(@)]
  /\ published' = [published EXCEPT ![t] = @ + 1]
  /\ UNCHANGED <<vars, mainVars, subscribed, name_by_ref, dropped, arrived, poll, response>>

(* Mutant: an empty telemetry queue ends the poll. *)
AfterLoop_return(t) == IF t = "telemetry" /\ queue[t] # <<>> THEN "events" ELSE "idle"

AfterLoop(t) == IF t = "telemetry" THEN "events" ELSE "idle"

LoopEnds(t) ==
  /\ poll = t /\ (~MayPublish(t) \/ queue[t] = <<>>)
  /\ poll' = AfterLoop(t)
  /\ UNCHANGED <<vars, mainVars, subscribed, name_by_ref, queueVars, published, shown, response>>

_poll == PollStarts \/ PollHasRead \/ \E t \in Topics : Publish(t) \/ LoopEnds(t)

BridgeNext ==
  \/ Configures \/ StartsHeartbeat \/ Spins \/ Ends
  \/ HeartbeatDies \/ Watchdog
  \/ Service
  \/ _poll
  \/ \E t \in Topics : Receive(t)

(* The timer fires again and again, and callbacks run to their end. *)
Fairness == WF_<<vars, bridgeVars>>(_poll)

BridgeSpec == BridgeInit /\ [][BridgeNext]_<<vars, bridgeVars>> /\ Fairness

-----------------------------------------------------------------------------
(* _poll: frames are published in the order in which they arrived, none twice,
   and those that are not are in the queue or counted as dropped, while the
   heartbeat thread adds to the queues behind the loop's back. *)
PublishedInOrder ==
  \A t \in Topics :
    LET all == <<shown[t].frame>> \o [i \in DOMAIN queue[t] |-> queue[t][i].frame]
    IN /\ \A i, j \in DOMAIN all : i < j => all[i] < all[j]
       /\ arrived[t] = shown[t].count + Len(queue[t]) + dropped[t]

(* configure_names and _resource_ref: a frame is published under a name that
   refers to its resource, for every class but the DACs, which have none. *)
PublishedUnderItsName ==
  \A t \in Topics : shown[t].count > 0 =>
    IF shown[t].slot[1] = "dac" THEN shown[t].name = "none"
    ELSE shown[t].name \in Names /\ _resource_ref(shown[t].name) = shown[t].slot

(* A service that answers ok has done what it was asked: the value is where the
   name says, the outputs are stopped, the board sends the telemetry. *)
OkMeansDone ==
  response = "ok" =>
    /\ call.op = "write" => \/ call.handle \in doubtful
                            \/ LET s == SlotOf(call.handle)
                               IN board[s].by = call.handle => board[s].value = call.value
    /\ call.op = "emergency_stop" /\ call.active => stopped
    /\ call.op = "subscribe" => call.slot \in subscribed

(* Once frames stop coming, the polls empty both queues as long as the node
   spins, however small their budgets. *)
QueuesDrain ==
  \A t \in Topics :
    (phase = "spinning" /\ queue[t] # <<>>) ~> (phase = "ended" \/ queue[t] = <<>>)

=============================================================================
