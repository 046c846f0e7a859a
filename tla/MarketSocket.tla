---------------------------- MODULE MarketSocket ----------------------------
(***************************************************************************)
(* Live market data on its way to a phone: Redis channels of one symbol -> *)
(* the WebSocket gateway, one handler per connection, -> the app's         *)
(* MarketWebSocket, which reconnects with a growing delay.                 *)
(*                                                                         *)
(* The k-th message published on the channels of the symbol is the number  *)
(* k; all of them are JSON objects, which the gateway tags with a type.    *)
(* The connections the app opens are numbered 1, 2, ...                    *)
(***************************************************************************)
EXTENDS Integers, Sequences, FiniteSets

CONSTANTS
    Faults,        \* whether Redis, the network and the API process may fail
    MinBackoff,    \* delay before the first reconnection, in seconds (1),
    MaxBackoff,    \* and the longest one (30)
    MaxPublished,  \* bounds of the model: messages published,
    MaxConns       \* and connections opened; the last one does not fail

ASSUME SocketAssumption ==
    /\ Faults \in BOOLEAN
    /\ MinBackoff \in Nat \ {0} /\ MaxBackoff \in Nat /\ MinBackoff <= MaxBackoff
    /\ MaxPublished \in Nat
    /\ MaxConns \in Nat \ {0}

Conns == 1..MaxConns

(* The events of a channel that are not frames: onError and onDone. *)
Failed == -1
Ended == 0
Marks == {Failed, Ended}

VARIABLES
    supported,  \* the provider knows the symbol
    published,  \* messages published so far
    session,    \* session[c]: the gateway's handler of connection c
    line,       \* line[c]: the connection is "new", "up" or "cut"
    events,     \* events[c]: what the app's channel will report: frames, or
                \* that it failed or ended
    conns,      \* connections opened
    app,        \* MarketWebSocket: started, closed, sub (0 for null), backoff
    listening,  \* subscriptions that are not cancelled
    timers,     \* reconnect timers that are pending
    failures,   \* connections lost since the last frame, up to MaxConns
    received    \* the frames added to the app's stream

gateway == <<supported, published, session>>
client == <<conns, app, listening, timers, failures, received>>
vars == <<supported, published, session, line, events, conns, app, listening,
          timers, failures, received>>

-----------------------------------------------------------------------------
(* The gateway.  "since" is the last message before the subscription, or   *)
(* before the latest one, if it had to be renewed.                         *)

NoSession == [at |-> "none", forwarding |-> FALSE, since |-> 0, held |-> 0, queue |-> <<>>]

Over == [NoSession EXCEPT !.at = "over"]

Report(c, what) == IF line[c] = "up" THEN events[c] \o what ELSE events[c]

Publish ==
    /\ published < MaxPublished
    /\ published' = published + 1
    /\ session' = [c \in Conns |->
                     IF session[c].at = "serving"
                     THEN [session[c] EXCEPT !.queue = Append(@, published + 1)]
                     ELSE session[c]]
    /\ UNCHANGED <<supported, line, events, client>>

(* close(1008) before accept() fails the handshake. *)
Handshake(c) ==
    /\ session[c].at = "opening"
    /\ session' = [session EXCEPT ![c] = IF supported THEN [@ EXCEPT !.at = "accepted"] ELSE Over]
    /\ events' = [events EXCEPT ![c] =
                    IF supported THEN @ ELSE Report(c, <<Failed, Ended>>)]
    /\ line' = [line EXCEPT ![c] = IF supported THEN @ ELSE "cut"]
    /\ UNCHANGED <<supported, published, client>>

Subscribe(c) ==
    /\ session[c].at = "accepted"
    /\ session' = [session EXCEPT ![c] =
                     [@ EXCEPT !.at = "serving", !.forwarding = TRUE, !.since = published]]
    /\ UNCHANGED <<supported, published, line, events, client>>

(* Outside the try: the exception ends the handler, which closes nothing.  *)
SubscribeFails(c) ==
    /\ Faults /\ c < MaxConns
    /\ session[c].at = "accepted"
    /\ session' = [session EXCEPT ![c] = Over]
    /\ events' = [events EXCEPT ![c] = Report(c, <<Ended>>)]
    /\ line' = [line EXCEPT ![c] = "cut"]
    /\ UNCHANGED <<supported, published, client>>

(* Mutant: reads on while the message before is still being sent. *)
GetMessageUnsent(c) ==
    /\ session[c].forwarding /\ session[c].queue # <<>>
    /\ session' = [session EXCEPT ![c].held = Head(session[c].queue),
                                  ![c].queue = Tail(@)]
    /\ UNCHANGED <<supported, published, line, events, client>>

(* forward(): get_message() and send_json() are two awaits. *)
GetMessage(c) ==
    /\ session[c].forwarding /\ session[c].held = 0 /\ session[c].queue # <<>>
    /\ session' = [session EXCEPT ![c].held = Head(session[c].queue),
                                  ![c].queue = Tail(@)]
    /\ UNCHANGED <<supported, published, line, events, client>>

(* A send on a broken connection raises, or goes nowhere. *)
SendJson(c) ==
    /\ session[c].forwarding /\ session[c].held # 0
    /\ \E raises \in {FALSE, line[c] = "cut"} :
          session' = [session EXCEPT ![c].held = 0, ![c].forwarding = ~raises]
    /\ events' = [events EXCEPT ![c] = Report(c, <<session[c].held>>)]
    /\ UNCHANGED <<supported, published, line, client>>

(* get_message() raises in the task; nobody awaits it before the end.      *)
ForwarderDies(c) ==
    /\ Faults
    /\ session[c].forwarding /\ session[c].held = 0
    /\ session' = [session EXCEPT ![c].forwarding = FALSE]
    /\ UNCHANGED <<supported, published, line, events, client>>

(* Or it finds its Redis connection broken, connects and subscribes again, *)
(* and the messages until then are lost without a word.                    *)
Resubscribe(c) ==
    /\ Faults
    /\ session[c].forwarding /\ session[c].held = 0
    /\ session' = [session EXCEPT ![c].queue = <<>>, ![c].since = published]
    /\ UNCHANGED <<supported, published, line, events, client>>

(* Mutant: nobody reads, a broken connection is noticed by sending. *)
DisconnectedBySend(c) ==
    /\ session[c].at = "serving" /\ line[c] = "cut" /\ ~session[c].forwarding
    /\ session' = [session EXCEPT ![c] = [@ EXCEPT !.at = "closing", !.held = 0]]
    /\ UNCHANGED <<supported, published, line, events, client>>

(* receive_text() notices the disconnect; the task is cancelled. *)
Disconnected(c) ==
    /\ session[c].at = "serving" /\ line[c] = "cut"
    /\ session' = [session EXCEPT ![c] = [@ EXCEPT !.at = "closing", !.forwarding = FALSE,
                                                   !.held = 0]]
    /\ UNCHANGED <<supported, published, line, events, client>>

(* unsubscribe() and aclose(); if one raises, the handler ends as well. *)
Unsubscribe(c) ==
    /\ session[c].at = "closing"
    /\ session' = [session EXCEPT ![c] = Over]
    /\ UNCHANGED <<supported, published, line, events, client>>

-----------------------------------------------------------------------------
(* What breaks: a connection, with the last frames on it, before or after  *)
(* the handshake, or the API process with all its connections.             *)

NetworkFails(c) ==
    /\ Faults /\ c < MaxConns
    /\ line[c] = "up"
    /\ line' = [line EXCEPT ![c] = "cut"]
    /\ \E report \in {<<Ended>>, <<Failed, Ended>>}, arrived \in 0..Len(events[c]) :
          events' = [events EXCEPT ![c] = SubSeq(@, 1, arrived) \o report]
    /\ session' = [session EXCEPT ![c] = IF @.at = "opening" THEN Over ELSE @]
    /\ UNCHANGED <<supported, published, client>>

ApiRestarts ==
    /\ Faults /\ conns < MaxConns
    /\ \E c \in Conns : session[c].at \notin {"none", "over"}
    /\ session' = [c \in Conns |-> IF session[c].at = "none" THEN NoSession ELSE Over]
    /\ events' = [c \in Conns |-> Report(c, <<Ended>>)]
    /\ line' = [c \in Conns |-> IF line[c] = "up" THEN "cut" ELSE line[c]]
    /\ UNCHANGED <<supported, published, client>>

-----------------------------------------------------------------------------
(* The app.                                                                *)

(* _connect(), with n timers pending. *)
Connect(n) ==
    /\ conns < MaxConns
    /\ conns' = conns + 1
    /\ timers' = n
    /\ listening' = listening \cup {conns'}
    /\ app' = [app EXCEPT !.started = TRUE, !.sub = conns']
    /\ line' = [line EXCEPT ![conns'] = "up"]
    /\ session' = [session EXCEPT ![conns'].at = "opening"]
    /\ UNCHANGED <<supported, published, events, failures, received>>

Start == ~app.started /\ ~app.closed /\ Connect(timers)

TimerFires ==
    /\ timers > 0
    /\ \/ ~app.closed /\ Connect(timers - 1)
       \/ /\ app.closed
          /\ timers' = timers - 1
          /\ UNCHANGED <<gateway, line, events, conns, app, listening, failures, received>>

Minimum(a, b) == IF a <= b THEN a ELSE b

(* Mutant of ReconnectAfter: the subscription is neither cancelled by an   *)
(* error (cancelOnError) nor by the caller.                                *)
ReconnectAfterUncancelled(c) ==
    /\ listening' = IF Head(events[c]) = Ended THEN listening \ {c} ELSE listening
    /\ timers' = timers + 1
    /\ app' = [app EXCEPT !.sub = 0, !.backoff = Minimum(2 * @, MaxBackoff)]
    /\ failures' = Minimum(failures + 1, MaxConns)
    /\ events' = [events EXCEPT ![c] = Tail(@)]
    /\ line' = line

(* Mutant: listens to onError only, and not to onDone. *)
ReconnectAfterError(c) ==
    /\ listening' = listening \ {c, app.sub}
    /\ timers' = IF Head(events[c]) = Failed THEN timers + 1 ELSE timers
    /\ app' = [app EXCEPT !.sub = 0, !.backoff = Minimum(2 * @, MaxBackoff)]
    /\ failures' = Minimum(failures + 1, MaxConns)
    /\ events' = [events EXCEPT ![c] = <<>>]
    /\ line' = [line EXCEPT ![c] = "cut"]

(* _scheduleReconnect(), after an event of connection c that ends its      *)
(* subscription.                                                           *)
ReconnectAfter(c) ==
    /\ listening' = listening \ {c, app.sub}
    /\ timers' = timers + 1
    /\ app' = [app EXCEPT !.sub = 0, !.backoff = Minimum(2 * @, MaxBackoff)]
    /\ failures' = Minimum(failures + 1, MaxConns)
    /\ events' = [events EXCEPT ![c] = <<>>]
    /\ line' = [line EXCEPT ![c] = "cut"]

Ends(c) ==
    /\ c \in listening /\ events[c] # <<>> /\ Head(events[c]) \in Marks
    /\ ReconnectAfter(c)
    /\ UNCHANGED <<gateway, conns, received>>

OnMessage(c) ==
    /\ received' = Append(received, Head(events[c]))
    /\ failures' = 0
    /\ app' = [app EXCEPT !.backoff = MinBackoff]

Frame(c) ==
    /\ c \in listening /\ events[c] # <<>> /\ Head(events[c]) \notin Marks
    /\ OnMessage(c)
    /\ events' = [events EXCEPT ![c] = Tail(@)]
    /\ UNCHANGED <<gateway, line, conns, listening, timers>>

Dispose ==
    /\ app.started /\ ~app.closed
    /\ app' = [app EXCEPT !.closed = TRUE]
    /\ listening' = listening \ {app.sub}
    /\ events' = [c \in Conns |-> IF c = app.sub THEN <<>> ELSE events[c]]
    /\ line' = [c \in Conns |-> IF c = app.sub THEN "cut" ELSE line[c]]
    /\ UNCHANGED <<gateway, conns, timers, failures, received>>

-----------------------------------------------------------------------------
Init ==
    /\ supported \in BOOLEAN
    /\ published = 0
    /\ session = [c \in Conns |-> NoSession]
    /\ line = [c \in Conns |-> "new"]
    /\ events = [c \in Conns |-> <<>>]
    /\ conns = 0
    /\ app = [started |-> FALSE, closed |-> FALSE, sub |-> 0, backoff |-> MinBackoff]
    /\ listening = {}
    /\ timers = 0
    /\ failures = 0
    /\ received = <<>>

HandlerStep(c) ==
    \/ Handshake(c)
    \/ Subscribe(c)
    \/ Disconnected(c)
    \/ Unsubscribe(c)

ForwardStep(c) == GetMessage(c) \/ SendJson(c)

AppStep == TimerFires \/ \E c \in Conns : Ends(c) \/ Frame(c)

Next ==
    \/ Publish
    \/ \E c \in Conns : HandlerStep(c) \/ ForwardStep(c)
    \/ \E c \in Conns : \/ SubscribeFails(c) \/ ForwarderDies(c) \/ Resubscribe(c)
                        \/ NetworkFails(c)
    \/ ApiRestarts
    \/ Start
    \/ AppStep
    \/ Dispose

Spec == Init /\ [][Next]_vars

(* Both event loops run their tasks, timers and callbacks, and the server  *)
(* notices a broken connection (it pings).  Nobody has to publish, to      *)
(* start the app or to leave it.                                           *)
Fairness ==
    /\ \A c \in Conns : WF_vars(HandlerStep(c)) /\ WF_vars(ForwardStep(c))
    /\ WF_vars(AppStep)

FairSpec == Spec /\ Fairness

-----------------------------------------------------------------------------
Sessions ==
    [at : {"none", "opening", "accepted", "serving", "closing", "over"},
     forwarding : BOOLEAN, since : Nat, held : Nat, queue : Seq(Nat)]

(* Every variable stays in the set its declaration describes. *)
TypeOK ==
    /\ supported \in BOOLEAN
    /\ published \in Nat
    /\ session \in [Conns -> Sessions]
    /\ line \in [Conns -> {"new", "up", "cut"}]
    /\ events \in [Conns -> Seq(Nat \cup Marks)]
    /\ conns \in 0..MaxConns
    /\ app \in [started : BOOLEAN, closed : BOOLEAN, sub : 0..MaxConns, backoff : Nat]
    /\ listening \subseteq Conns
    /\ timers \in Nat
    /\ failures \in 0..MaxConns
    /\ received \in Seq(Nat)

(* However connections fail, an app that runs either listens to exactly    *)
(* one of them or waits for exactly one timer: an error and an end of the  *)
(* same connection do not make two of either.  After dispose() it listens  *)
(* to none, and no connection but the one it listens to is open.           *)
OneConnection ==
    /\ ~app.closed => listening = {app.sub} \ {0}
    /\ ~app.closed => timers = IF app.started /\ app.sub = 0 THEN 1 ELSE 0
    /\ app.closed => listening = {}
    /\ \A c \in Conns : line[c] = "up" => c \in listening

(* The shortest delay, doubled k times. *)
Doubled[k \in 0..MaxConns] == IF k = 0 THEN MinBackoff ELSE 2 * Doubled[k - 1]

(* The delay doubles with each connection lost in a row and returns to the *)
(* shortest only when a frame arrives: a server that accepts and closes    *)
(* is not called every second.                                             *)
BackoffGrows ==
    failures < MaxConns => app.backoff = Minimum(Doubled[failures], MaxBackoff)

SocketInv ==
    /\ TypeOK
    /\ OneConnection
    /\ BackoffGrows

Items(s) == {s[i] : i \in 1..Len(s)}

(* What a handler has still to deliver on an open connection. *)
Pending(c) == Items(events[c]) \cup ({session[c].held} \ {0}) \cup Items(session[c].queue)

(* The frames of the app's stream come in order and none comes twice, over *)
(* any number of connections; and as long as a connection is open, each    *)
(* message since its latest subscription has been received or is on its    *)
(* way, whether the forwarder is alive or not.                             *)
FramesInOrder ==
    /\ \A i, j \in 1..Len(received) : i < j => received[i] < received[j]
    /\ \A c \in Conns : line[c] = "up" /\ session[c].at = "serving" =>
          (session[c].since + 1)..published \subseteq Items(received) \cup Pending(c)

(* Once connections stop failing, an app that runs is connected for good,  *)
(* and has every message since its last subscription, unless the symbol is *)
(* unknown or the forwarder has died, which nobody notices.                *)
Connected ==
    LET c == app.sub
    IN  /\ c # 0
        /\ line[c] = "up" /\ session[c].at = "serving"
        /\ session[c].forwarding => Pending(c) = {}

Recovers == <>[](app.started /\ ~app.closed /\ supported => Connected)

(* A handler does not outlive its connection: when the app has left it, by *)
(* dispose() or for another connection, or the network is gone, the        *)
(* handler and its subscription end.                                       *)
SessionsEnd ==
    \A c \in Conns : (line[c] = "cut") ~> (session[c].at = "over")
=============================================================================
