------------------------- MODULE MarketSocketProofs -------------------------
(***************************************************************************)
(* The app follows one connection, and the frames of its stream come in    *)
(* order, for every number of connections and messages, every backoff, and *)
(* with or without faults.  FramesInOrder is not inductive: ConnInv adds   *)
(* where the messages between the channel and the app are, and that what a *)
(* broken connection still reports is newer than all that was received.    *)
(***************************************************************************)
EXTENDS MarketSocket, SequenceTheorems, Recursion

(* The constants, unpacked. *)
LEMMA Constants ==
    /\ MinBackoff \in Nat /\ MaxBackoff \in Nat /\ MaxConns \in Nat
    /\ Conns \subseteq Nat \ {0}
BY SocketAssumption DEF SocketAssumption, Conns

-----------------------------------------------------------------------------
(* The messages between the channel and the app: events of the app's       *)
(* channel, one in the forwarder's hands, and a queue.                     *)
OnTheWay(evs, held, queue) == Items(evs) \cup ({held} \ {0}) \cup Items(queue)

(* An open connection carries all messages since its subscription that the *)
(* app has not received, and every one of them behind those before it: the *)
(* queue holds the latest messages, and the events none after the one in   *)
(* the forwarder's hands.                                                  *)
Carries(evs, held, queue, since, pub, recv) ==
    /\ \A i \in 1..Len(queue) : queue[i] = pub - Len(queue) + i
    /\ held <= pub - Len(queue)
    /\ \A x \in Items(evs) \cup Items(recv) :
          x <= pub - Len(queue) /\ (held # 0 => x < held)
    /\ (since + 1)..pub \subseteq Items(recv) \cup OnTheWay(evs, held, queue)

(* What the app will hear of a connection is news, open or broken. *)
News(evs, pub, recv) ==
    /\ \A i, j \in 1..Len(evs) : i < j /\ evs[j] \notin Marks => evs[i] < evs[j]
    /\ \A i \in 1..Len(evs) : evs[i] \notin Marks =>
          /\ evs[i] <= pub
          /\ \A k \in 1..Len(recv) : recv[k] < evs[i]

Consecutive(c) ==
    Carries(events[c], session[c].held, session[c].queue, session[c].since, published, received)

Fresh(c) == News(events[c], published, received)

ConnInv(c) ==
    /\ session[c].forwarding \/ session[c].held # 0 => session[c].at = "serving"
    /\ session[c].at \notin {"serving", "closing"} => session[c].queue = <<>>
    /\ line[c] = "up" /\ session[c].at # "serving" => events[c] = <<>>
    /\ line[c] = "up" /\ session[c].at = "serving" => Consecutive(c)
    /\ c \in listening => Fresh(c)
    /\ c > conns => session[c] = NoSession /\ events[c] = <<>> /\ line[c] = "new"

ReceivedInOrder ==
    /\ \A i, j \in 1..Len(received) : i < j => received[i] < received[j]
    /\ \A i \in 1..Len(received) : received[i] <= published

AppInv ==
    /\ app.closed => app.started
    /\ app.sub # 0 => app.started
    /\ app.sub <= conns
    /\ OneConnection

MarketInv ==
    /\ TypeOK
    /\ AppInv
    /\ ReceivedInOrder
    /\ \A c \in Conns : ConnInv(c)

-----------------------------------------------------------------------------
(* The records of the handlers, field by field. *)
SessionStates == {"none", "opening", "accepted", "serving", "closing", "over"}

LEMMA SessionWith ==
    ASSUME NEW s \in Sessions
    PROVE  /\ \A a \in SessionStates : [s EXCEPT !.at = a] \in Sessions
           /\ \A f \in BOOLEAN : [s EXCEPT !.forwarding = f] \in Sessions
           /\ \A n \in Nat : [s EXCEPT !.since = n] \in Sessions
           /\ \A n \in Nat : [s EXCEPT !.held = n] \in Sessions
           /\ \A q \in Seq(Nat) : [s EXCEPT !.queue = q] \in Sessions
<1>1. \A a \in SessionStates : [s EXCEPT !.at = a] \in Sessions
  BY DEF Sessions, SessionStates
<1>2. \A f \in BOOLEAN : [s EXCEPT !.forwarding = f] \in Sessions
  BY DEF Sessions
<1>3. \A n \in Nat : [s EXCEPT !.since = n] \in Sessions
  BY DEF Sessions
<1>4. \A n \in Nat : [s EXCEPT !.held = n] \in Sessions
  BY DEF Sessions
<1>5. \A q \in Seq(Nat) : [s EXCEPT !.queue = q] \in Sessions
  BY DEF Sessions
<1> QED BY <1>1, <1>2, <1>3, <1>4, <1>5

LEMMA SessionFields ==
    ASSUME NEW s \in Sessions
    PROVE  /\ s.at \in SessionStates /\ s.forwarding \in BOOLEAN
           /\ s.since \in Nat /\ s.held \in Nat /\ s.queue \in Seq(Nat)
BY DEF Sessions, SessionStates

LEMMA NoSessionTypes == NoSession \in Sessions /\ Over \in Sessions
<1>1. NoSession \in Sessions
  BY DEF NoSession, Sessions
<1> QED BY <1>1, SessionWith DEF Over, SessionStates

LEMMA ReportTypes ==
    ASSUME TypeOK, NEW c \in Conns, NEW what \in Seq(Nat \cup Marks)
    PROVE  Report(c, what) \in Seq(Nat \cup Marks)
BY DEF TypeOK, Report

LEMMA ReportsTyped ==
    /\ <<Ended>> \in Seq(Nat \cup Marks)
    /\ <<Failed, Ended>> \in Seq(Nat \cup Marks)
BY DEF Marks

(* The gateway's own steps keep the types. *)
LEMMA GatewayTypes ==
    ASSUME TypeOK, NEW c \in Conns,
           \/ HandlerStep(c) \/ ForwardStep(c)
           \/ SubscribeFails(c) \/ ForwarderDies(c) \/ Resubscribe(c)
    PROVE  TypeOK'
<1>1. UNCHANGED <<supported, published, client>>
  BY DEF HandlerStep, ForwardStep, Handshake, Subscribe, SubscribeFails, GetMessage, SendJson,
         ForwarderDies, Resubscribe, Disconnected, Unsubscribe
<1>2. session' \in [Conns -> Sessions]
  <2> DEFINE s == session[c]
  <2>0. session \in [Conns -> Sessions] /\ s \in Sessions /\ published \in Nat
    BY DEF TypeOK
  <2>1. CASE Handshake(c)
    <3>1. [s EXCEPT !.at = "accepted"] \in Sessions
      BY <2>0, SessionWith DEF SessionStates
    <3>2. session' = [session EXCEPT ![c] = IF supported THEN [s EXCEPT !.at = "accepted"]
                                            ELSE Over]
      BY <2>0, <2>1 DEF Handshake
    <3> QED BY ONLY <2>0, <3>1, <3>2, NoSessionTypes
  <2>2. CASE Subscribe(c)
    <3> DEFINE t == [[[s EXCEPT !.at = "serving"] EXCEPT !.forwarding = TRUE]
                        EXCEPT !.since = published]
    <3>1. [s EXCEPT !.at = "serving"] \in Sessions
      BY <2>0, SessionWith DEF SessionStates
    <3>2. [[s EXCEPT !.at = "serving"] EXCEPT !.forwarding = TRUE] \in Sessions
      BY ONLY <3>1, SessionWith
    <3>3. t \in Sessions
      BY ONLY <2>0, <3>2, SessionWith
    <3>4. session' = [session EXCEPT ![c] = t]
      BY <2>0, <2>2 DEF Subscribe
    <3> QED BY ONLY <2>0, <3>3, <3>4
  <2>3. CASE SubscribeFails(c) \/ Unsubscribe(c)
    BY <2>0, <2>3, NoSessionTypes DEF SubscribeFails, Unsubscribe
  <2>4. CASE GetMessage(c)
    <3> DEFINE t == [[s EXCEPT !.held = Head(s.queue)] EXCEPT !.queue = Tail(s.queue)]
    <3>1. s.queue \in Seq(Nat) /\ s.queue # <<>>
      BY <2>0, <2>4, SessionFields DEF GetMessage
    <3>2. Head(s.queue) \in Nat /\ Tail(s.queue) \in Seq(Nat)
      BY ONLY <3>1
    <3>3. t \in Sessions
      BY ONLY <2>0, <3>2, SessionWith
    <3>4. session' = [session EXCEPT ![c] = t]
      BY <2>0, <2>4 DEF GetMessage
    <3> QED BY ONLY <2>0, <3>3, <3>4
  <2>5. CASE SendJson(c)
    <3>1. PICK raises \in BOOLEAN :
             session' = [session EXCEPT ![c].held = 0, ![c].forwarding = ~raises]
      BY <2>5 DEF SendJson
    <3> DEFINE t == [[s EXCEPT !.held = 0] EXCEPT !.forwarding = ~raises]
    <3>2. t \in Sessions
      BY ONLY <2>0, SessionWith
    <3>3. session' = [session EXCEPT ![c] = t]
      BY ONLY <2>0, <3>1
    <3> QED BY ONLY <2>0, <3>2, <3>3
  <2>6. CASE ForwarderDies(c)
    <3>1. [s EXCEPT !.forwarding = FALSE] \in Sessions
      BY ONLY <2>0, SessionWith
    <3>2. session' = [session EXCEPT ![c] = [s EXCEPT !.forwarding = FALSE]]
      BY <2>0, <2>6 DEF ForwarderDies
    <3> QED BY ONLY <2>0, <3>1, <3>2
  <2>8. CASE Resubscribe(c)
    <3> DEFINE t == [[s EXCEPT !.queue = <<>>] EXCEPT !.since = published]
    <3>1. t \in Sessions
      <4>1. <<>> \in Seq(Nat)
        OBVIOUS
      <4> QED BY ONLY <2>0, <4>1, SessionWith
    <3>2. session' = [session EXCEPT ![c] = t]
      BY <2>0, <2>8 DEF Resubscribe
    <3> QED BY ONLY <2>0, <3>1, <3>2
  <2>7. CASE Disconnected(c)
    <3> DEFINE t == [[[s EXCEPT !.at = "closing"] EXCEPT !.forwarding = FALSE]
                        EXCEPT !.held = 0]
    <3>1. [s EXCEPT !.at = "closing"] \in Sessions
      BY <2>0, SessionWith DEF SessionStates
    <3>2. [[s EXCEPT !.at = "closing"] EXCEPT !.forwarding = FALSE] \in Sessions
      BY ONLY <3>1, SessionWith
    <3>3. t \in Sessions
      BY ONLY <3>2, SessionWith
    <3>4. session' = [session EXCEPT ![c] = t]
      BY <2>0, <2>7 DEF Disconnected
    <3> QED BY ONLY <2>0, <3>3, <3>4
  <2> QED BY <2>1, <2>2, <2>3, <2>4, <2>5, <2>6, <2>7, <2>8 DEF HandlerStep, ForwardStep
<1>3. line' \in [Conns -> {"new", "up", "cut"}]
  BY DEF TypeOK, HandlerStep, ForwardStep, Handshake, Subscribe, SubscribeFails, GetMessage,
         SendJson, ForwarderDies, Resubscribe, Disconnected, Unsubscribe
<1>4. events' \in [Conns -> Seq(Nat \cup Marks)]
  <2>1. <<session[c].held>> \in Seq(Nat \cup Marks)
    BY DEF TypeOK, Sessions
  <2>2. events' = events \/ \E what \in Seq(Nat \cup Marks) :
                               events' = [events EXCEPT ![c] = Report(c, what)]
    BY <2>1, ReportsTyped
       DEF HandlerStep, ForwardStep, Handshake, Subscribe, SubscribeFails, GetMessage,
           SendJson, ForwarderDies, Resubscribe, Disconnected, Unsubscribe, TypeOK
  <2>3. CASE events' = events
    BY <2>3 DEF TypeOK
  <2>4. ASSUME NEW what \in Seq(Nat \cup Marks), events' = [events EXCEPT ![c] = Report(c, what)]
        PROVE  events' \in [Conns -> Seq(Nat \cup Marks)]
    <3>1. Report(c, what) \in Seq(Nat \cup Marks)
      BY ReportTypes
    <3>2. events \in [Conns -> Seq(Nat \cup Marks)]
      BY DEF TypeOK
    <3> QED BY ONLY <2>4, <3>1, <3>2
  <2> QED BY ONLY <2>2, <2>3, <2>4
<1> QED BY ONLY TypeOK, <1>1, <1>2, <1>3, <1>4 DEF TypeOK, client

(* A message, and what breaks, keep them. *)
LEMMA WorldTypes ==
    ASSUME TypeOK, Publish \/ ApiRestarts \/ \E c \in Conns : NetworkFails(c)
    PROVE  TypeOK'
<1>1. /\ session \in [Conns -> Sessions] /\ published \in Nat
      /\ events \in [Conns -> Seq(Nat \cup Marks)]
      /\ line \in [Conns -> {"new", "up", "cut"}]
  BY DEF TypeOK
<1>2. CASE Publish
  <2>1. \A c \in Conns : [session[c] EXCEPT !.queue = Append(@, published + 1)] \in Sessions
    <3> SUFFICES ASSUME NEW c \in Conns
                 PROVE  [session[c] EXCEPT !.queue = Append(session[c].queue, published + 1)]
                           \in Sessions
      OBVIOUS
    <3>1. session[c] \in Sessions /\ session[c].queue \in Seq(Nat)
      BY <1>1, SessionFields
    <3>2. Append(session[c].queue, published + 1) \in Seq(Nat)
      BY ONLY <1>1, <3>1
    <3> QED BY ONLY <3>1, <3>2, SessionWith
  <2>2. session' \in [Conns -> Sessions]
    BY ONLY <1>1, <1>2, <2>1 DEF Publish
  <2>3. published' \in Nat /\ UNCHANGED <<supported, line, events, client>>
    BY <1>1, <1>2 DEF Publish
  <2> QED BY ONLY TypeOK, <2>2, <2>3 DEF TypeOK, client
<1>3. CASE ApiRestarts
  <2>1. session' \in [Conns -> Sessions]
    BY <1>3, NoSessionTypes DEF ApiRestarts
  <2>2. events' \in [Conns -> Seq(Nat \cup Marks)]
    <3>1. \A c \in Conns : Report(c, <<Ended>>) \in Seq(Nat \cup Marks)
      BY ReportTypes, ReportsTyped
    <3>2. events' = [c \in Conns |-> Report(c, <<Ended>>)]
      BY <1>3 DEF ApiRestarts
    <3> QED BY ONLY <3>1, <3>2
  <2>3. line' \in [Conns -> {"new", "up", "cut"}]
    BY ONLY <1>1, <1>3 DEF ApiRestarts
  <2>4. UNCHANGED <<supported, published, client>>
    BY <1>3 DEF ApiRestarts
  <2> QED BY ONLY TypeOK, <2>1, <2>2, <2>3, <2>4 DEF TypeOK, client
<1>4. ASSUME NEW c \in Conns, NetworkFails(c)
      PROVE  TypeOK'
  <2>1. session' \in [Conns -> Sessions]
    BY ONLY <1>1, <1>4, NoSessionTypes DEF NetworkFails
  <2>2. PICK report \in {<<Ended>>, <<Failed, Ended>>}, arrived \in 0..Len(events[c]) :
           events' = [events EXCEPT ![c] = SubSeq(events[c], 1, arrived) \o report]
    BY <1>4, <1>1 DEF NetworkFails
  <2>3. SubSeq(events[c], 1, arrived) \in Seq(Nat \cup Marks)
    BY ONLY <1>1, SubSeqProperties
  <2>4. SubSeq(events[c], 1, arrived) \o report \in Seq(Nat \cup Marks)
    BY ONLY <2>3, ReportsTyped, ConcatProperties
  <2>5. events' \in [Conns -> Seq(Nat \cup Marks)]
    BY ONLY <1>1, <2>2, <2>4
  <2>6. line' \in [Conns -> {"new", "up", "cut"}] /\ UNCHANGED <<supported, published, client>>
    BY <1>1, <1>4 DEF NetworkFails
  <2> QED BY ONLY TypeOK, <2>1, <2>5, <2>6 DEF TypeOK, client
<1> QED BY <1>2, <1>3, <1>4

(* So do the steps of the app. *)
LEMMA AppTypes ==
    ASSUME TypeOK, Start \/ AppStep \/ Dispose
    PROVE  TypeOK'
<1> DEFINE Apps == [started : BOOLEAN, closed : BOOLEAN, sub : 0..MaxConns, backoff : Nat]
<1>1. /\ session \in [Conns -> Sessions] /\ published \in Nat
      /\ events \in [Conns -> Seq(Nat \cup Marks)]
      /\ line \in [Conns -> {"new", "up", "cut"}]
      /\ app \in Apps /\ conns \in 0..MaxConns /\ listening \subseteq Conns
      /\ timers \in Nat /\ failures \in 0..MaxConns /\ received \in Seq(Nat)
  BY DEF TypeOK
<1>2. ASSUME NEW n \in Nat, Connect(n)
      PROVE  TypeOK'
  <2>1. conns' \in 0..MaxConns /\ conns' \in Conns /\ conns' = conns + 1
    BY ONLY <1>1, <1>2, Constants DEF Connect, Conns
  <2>2. app' \in Apps
    <3>1. app' = [app EXCEPT !.started = TRUE, !.sub = conns']
      BY ONLY <1>2 DEF Connect
    <3> QED BY ONLY <1>1, <2>1, <3>1
  <2>3. session' \in [Conns -> Sessions]
    <3>1. session' = [session EXCEPT ![conns'] = [session[conns'] EXCEPT !.at = "opening"]]
      BY ONLY <1>1, <1>2, <2>1 DEF Connect
    <3>2. [session[conns'] EXCEPT !.at = "opening"] \in Sessions
      BY <1>1, <2>1, SessionWith DEF SessionStates
    <3> QED BY ONLY <1>1, <2>1, <3>1, <3>2
  <2>4. line' \in [Conns -> {"new", "up", "cut"}] /\ listening' \subseteq Conns
    BY ONLY <1>1, <1>2, <2>1 DEF Connect
  <2>5. timers' \in Nat /\ UNCHANGED <<supported, published, events, failures, received>>
    BY <1>2 DEF Connect
  <2> QED BY ONLY TypeOK, <2>1, <2>2, <2>3, <2>4, <2>5 DEF TypeOK
<1>3. ASSUME NEW c \in Conns, Ends(c)
      PROVE  TypeOK'
  <2>1. app' = [app EXCEPT !.sub = 0, !.backoff = Minimum(2 * @, MaxBackoff)]
    BY <1>3 DEF Ends, ReconnectAfter
  <2>2. app' \in Apps
    <3>1. Minimum(2 * app.backoff, MaxBackoff) \in Nat
      BY <1>1, Constants DEF Minimum
    <3>2. 0 \in 0..MaxConns
      BY Constants
    <3> QED BY ONLY <1>1, <2>1, <3>1, <3>2
  <2>3. failures' \in 0..MaxConns
    BY SMTT(30), <1>1, <1>3, Constants DEF Ends, ReconnectAfter, Minimum
  <2>4. events' \in [Conns -> Seq(Nat \cup Marks)]
    BY ONLY <1>1, <1>3 DEF Ends, ReconnectAfter
  <2>5. line' \in [Conns -> {"new", "up", "cut"}] /\ listening' \subseteq Conns
        /\ timers' \in Nat
    BY ONLY <1>1, <1>3 DEF Ends, ReconnectAfter
  <2>6. UNCHANGED <<supported, published, session, conns, received>>
    BY <1>3 DEF Ends, gateway
  <2> QED BY ONLY TypeOK, <2>2, <2>3, <2>4, <2>5, <2>6 DEF TypeOK
<1>4. ASSUME NEW c \in Conns, Frame(c)
      PROVE  TypeOK'
  <2>1. app' = [app EXCEPT !.backoff = MinBackoff] /\ failures' = 0
    BY <1>4 DEF Frame, OnMessage
  <2>2. app' \in Apps /\ failures' \in 0..MaxConns
    <3>1. MinBackoff \in Nat /\ 0 \in 0..MaxConns
      BY Constants
    <3>2. app' \in Apps
      BY ONLY <1>1, <2>1, <3>1
    <3> QED BY ONLY <2>1, <3>1, <3>2
  <2>3. events[c] \in Seq(Nat \cup Marks) /\ events[c] # <<>> /\ Head(events[c]) \notin Marks
    BY <1>1, <1>4 DEF Frame
  <2>4. Head(events[c]) \in Nat /\ Tail(events[c]) \in Seq(Nat \cup Marks)
    BY ONLY <2>3
  <2>5. received' \in Seq(Nat) /\ events' \in [Conns -> Seq(Nat \cup Marks)]
    BY ONLY <1>1, <1>4, <2>4 DEF Frame, OnMessage
  <2>6. UNCHANGED <<supported, published, session, line, conns, listening, timers>>
    BY <1>4 DEF Frame, gateway
  <2> QED BY ONLY TypeOK, <2>2, <2>5, <2>6 DEF TypeOK
<1>5. CASE Dispose
  <2>1. app' \in Apps
    BY ONLY <1>1, <1>5 DEF Dispose
  <2>2. events' \in [Conns -> Seq(Nat \cup Marks)]
    <3>1. events' = [c \in Conns |-> IF c = app.sub THEN <<>> ELSE events[c]]
      BY ONLY <1>5 DEF Dispose
    <3>2. <<>> \in Seq(Nat \cup Marks)
      OBVIOUS
    <3> QED BY ONLY <1>1, <3>1, <3>2
  <2>3. listening' \subseteq Conns
    BY ONLY <1>1, <1>5 DEF Dispose
  <2>4. line' \in [Conns -> {"new", "up", "cut"}]
    <3>1. line' = [c \in Conns |-> IF c = app.sub THEN "cut" ELSE line[c]]
      BY ONLY <1>5 DEF Dispose
    <3> QED BY ONLY <1>1, <3>1
  <2>5. UNCHANGED <<supported, published, session, conns, timers, failures, received>>
    BY <1>5 DEF Dispose, gateway
  <2> QED BY ONLY TypeOK, <2>1, <2>2, <2>3, <2>4, <2>5 DEF TypeOK
<1>6. CASE TimerFires
  <2>1. timers - 1 \in Nat
    BY <1>1, <1>6 DEF TimerFires
  <2>2. CASE app.closed
    <3>1. timers' = timers - 1 /\ UNCHANGED <<gateway, line, events, conns, app, listening,
                                              failures, received>>
      BY <1>6, <2>2 DEF TimerFires
    <3> QED BY ONLY TypeOK, <2>1, <3>1 DEF TypeOK, gateway
  <2> QED BY <1>2, <1>6, <2>1, <2>2 DEF TimerFires
<1> QED BY <1>1, <1>2, <1>3, <1>4, <1>5, <1>6 DEF Start, AppStep

-----------------------------------------------------------------------------
(* Init establishes the invariant: nothing is published, opened or sent.   *)
LEMMA MarketBegins == Init => MarketInv
<1> SUFFICES ASSUME Init PROVE MarketInv
  OBVIOUS
<1>1. TypeOK
  <2>1. session \in [Conns -> Sessions]
    BY NoSessionTypes DEF Init
  <2>2. events \in [Conns -> Seq(Nat \cup Marks)]
    <3>1. <<>> \in Seq(Nat \cup Marks)
      OBVIOUS
    <3> QED BY ONLY <3>1, Init DEF Init
  <2>3. app \in [started : BOOLEAN, closed : BOOLEAN, sub : 0..MaxConns, backoff : Nat]
    <3>1. MinBackoff \in Nat /\ 0 \in 0..MaxConns
      BY Constants
    <3>2. app = [started |-> FALSE, closed |-> FALSE, sub |-> 0, backoff |-> MinBackoff]
      BY DEF Init
    <3> QED BY ONLY <3>1, <3>2
  <2>4. line \in [Conns -> {"new", "up", "cut"}] /\ conns \in 0..MaxConns
        /\ failures \in 0..MaxConns
    BY Constants DEF Init
  <2>5. received \in Seq(Nat) /\ supported \in BOOLEAN /\ published \in Nat
        /\ listening \subseteq Conns /\ timers \in Nat
    BY DEF Init
  <2> QED BY ONLY <2>1, <2>2, <2>3, <2>4, <2>5 DEF TypeOK
<1>2. AppInv
  BY Constants DEF Init, AppInv, OneConnection
<1>3. ReceivedInOrder
  BY DEF Init, ReceivedInOrder
<1>4. ASSUME NEW c \in Conns PROVE ConnInv(c)
  <2>1. /\ session[c] = NoSession /\ events[c] = <<>> /\ line[c] = "new" /\ listening = {}
    BY DEF Init
  <2>2. ~NoSession.forwarding /\ NoSession.held = 0 /\ NoSession.at = "none"
        /\ NoSession.queue = <<>>
    BY DEF NoSession
  <2> QED BY ONLY <2>1, <2>2 DEF ConnInv
<1> QED BY <1>1, <1>2, <1>3, <1>4 DEF MarketInv

(* The app keeps one connection or one timer.  Steps of the gateway may    *)
(* close a connection, but only the app opens one.                         *)
LEMMA OneConnectionKept ==
    ASSUME MarketInv, Next
    PROVE  AppInv'
<1>0. /\ line \in [Conns -> {"new", "up", "cut"}]
      /\ app \in [started : BOOLEAN, closed : BOOLEAN, sub : 0..MaxConns, backoff : Nat]
      /\ conns \in 0..MaxConns /\ listening \subseteq Conns /\ timers \in Nat
      /\ AppInv
  BY DEF MarketInv, TypeOK
<1>1. ASSUME UNCHANGED client, \A c \in Conns : line'[c] = "up" => line[c] = "up"
      PROVE  AppInv'
  BY ONLY <1>0, <1>1 DEF AppInv, OneConnection, client
<1>2. ASSUME NEW c \in Conns,
             \/ HandlerStep(c) \/ ForwardStep(c) \/ SubscribeFails(c)
             \/ ForwarderDies(c) \/ Resubscribe(c) \/ NetworkFails(c)
      PROVE  AppInv'
  <2>1. UNCHANGED client
    BY <1>2 DEF HandlerStep, ForwardStep, SubscribeFails, ForwarderDies, Resubscribe,
                NetworkFails, Handshake, Subscribe, Disconnected, Unsubscribe,
                GetMessage, SendJson
  <2>2. line' = line \/ line' = [line EXCEPT ![c] = "cut"]
    BY <1>0, <1>2 DEF HandlerStep, ForwardStep, SubscribeFails, ForwarderDies, Resubscribe,
                NetworkFails, Handshake, Subscribe, Disconnected, Unsubscribe,
                GetMessage, SendJson
  <2> QED BY ONLY <1>0, <1>1, <2>1, <2>2
<1>3. CASE Publish \/ ApiRestarts
  BY <1>0, <1>1, <1>3 DEF Publish, ApiRestarts
<1>4. ASSUME NEW n \in Nat, Connect(n), ~app.closed, listening = {}, n = 0
      PROVE  AppInv'
  <2>1. /\ conns' \in Conns /\ listening' = {conns'} /\ timers' = 0
        /\ app' = [app EXCEPT !.started = TRUE, !.sub = conns']
        /\ line' = [line EXCEPT ![conns'] = "up"]
    BY ONLY <1>0, <1>4, Constants DEF Connect, Conns
  <2>2. app'.started /\ ~app'.closed /\ app'.sub = conns' /\ app'.sub # 0
        /\ app'.sub <= conns'
    BY ONLY <1>0, <1>4, <2>1 DEF Conns
  <2>3. \A c \in Conns : line'[c] = "up" => c \in listening'
    BY ONLY <1>0, <1>4, <2>1 DEF AppInv, OneConnection
  <2> QED BY ONLY <2>1, <2>2, <2>3 DEF AppInv, OneConnection
<1>5. CASE Start
  <2>1. listening = {} /\ timers = 0
    BY <1>0, <1>5 DEF Start, AppInv, OneConnection
  <2> QED BY <1>4, <1>5, <2>1 DEF Start
<1>6. CASE TimerFires
  <2>1. CASE app.closed
    <3>1. UNCHANGED <<line, app, listening, conns>>
      BY <1>6, <2>1 DEF TimerFires
    <3> QED BY ONLY <1>0, <2>1, <3>1 DEF AppInv, OneConnection
  <2>2. CASE ~app.closed
    <3>1. listening = {} /\ timers = 1
      BY ONLY <1>0, <1>6, <2>2 DEF TimerFires, AppInv, OneConnection
    <3>2. Connect(timers - 1)
      BY <1>6, <2>2 DEF TimerFires
    <3>3. Connect(0)
      BY ONLY <3>1, <3>2
    <3> QED BY <1>4, <2>2, <3>1, <3>3
  <2> QED BY <2>1, <2>2
<1>7. ASSUME NEW c \in Conns, Ends(c)
      PROVE  AppInv'
  <2>1. c \in listening /\ listening' = listening \ {c, app.sub} /\ timers' = timers + 1
        /\ app' = [app EXCEPT !.sub = 0, !.backoff = Minimum(2 * @, MaxBackoff)]
        /\ line' = [line EXCEPT ![c] = "cut"]
    BY <1>7 DEF Ends, ReconnectAfter
  <2>2. ~app.closed /\ listening = {c} /\ app.sub = c /\ app.started /\ timers = 0
    BY ONLY <1>0, <2>1 DEF AppInv, OneConnection
  <2>3. app'.closed = app.closed /\ app'.started = app.started /\ app'.sub = 0
        /\ app'.sub <= conns'
    <3>1. conns' = conns
      BY <1>7 DEF Ends
    <3> QED BY ONLY <1>0, <2>1, <3>1
  <2>4. listening' = {} /\ timers' = 1 /\ \A d \in Conns : line'[d] # "up"
    BY ONLY <1>0, <2>1, <2>2 DEF AppInv, OneConnection
  <2> QED BY ONLY <2>2, <2>3, <2>4 DEF AppInv, OneConnection
<1>8. ASSUME NEW c \in Conns, Frame(c)
      PROVE  AppInv'
  <2>1. app' = [app EXCEPT !.backoff = MinBackoff]
        /\ UNCHANGED <<line, conns, listening, timers>>
    BY <1>8 DEF Frame, OnMessage
  <2>2. app'.closed = app.closed /\ app'.started = app.started /\ app'.sub = app.sub
    BY ONLY <1>0, <2>1
  <2> QED BY ONLY <1>0, <2>1, <2>2 DEF AppInv, OneConnection
<1>9. CASE Dispose
  <2>1. /\ app.started /\ ~app.closed /\ app' = [app EXCEPT !.closed = TRUE]
        /\ listening' = listening \ {app.sub} /\ timers' = timers
        /\ line' = [c \in Conns |-> IF c = app.sub THEN "cut" ELSE line[c]]
        /\ conns' = conns
    BY <1>9 DEF Dispose
  <2>2. app'.closed /\ app'.started = app.started /\ app'.sub = app.sub /\ app'.sub <= conns'
    BY ONLY <1>0, <2>1 DEF AppInv
  <2>3. listening' = {} /\ \A c \in Conns : line'[c] # "up"
    BY ONLY <1>0, <2>1 DEF AppInv, OneConnection
  <2> QED BY ONLY <2>1, <2>2, <2>3 DEF AppInv, OneConnection
<1> QED BY <1>2, <1>3, <1>5, <1>6, <1>7, <1>8, <1>9 DEF Next, AppStep

-----------------------------------------------------------------------------
(* The items of a sequence that grows or shrinks at an end. *)
LEMMA ItemsAppend ==
    ASSUME NEW S, NEW s \in Seq(S), NEW x \in S
    PROVE  Items(Append(s, x)) = Items(s) \cup {x}
<1> DEFINE new == Append(s, x)
<1>1. /\ Len(s) \in Nat /\ Len(new) = Len(s) + 1 /\ new[Len(s) + 1] = x
      /\ \A i \in 1..Len(s) : new[i] = s[i]
  OBVIOUS
<1> HIDE DEF new
<1>2. \A i \in 1..Len(new) : i \in 1..Len(s) \/ i = Len(s) + 1
  BY ONLY <1>1
<1>3. Len(s) + 1 \in 1..Len(new) /\ \A i \in 1..Len(s) : i \in 1..Len(new)
  BY ONLY <1>1
<1>4. Items(new) = Items(s) \cup {x}
  BY ONLY <1>1, <1>2, <1>3 DEF Items
<1> QED BY <1>4 DEF new

LEMMA ItemsTail ==
    ASSUME NEW S, NEW s \in Seq(S), s # <<>>
    PROVE  Items(s) = {Head(s)} \cup Items(Tail(s))
<1> DEFINE rest == Tail(s)
           h == Head(s)
<1>1. /\ Len(s) \in Nat \ {0} /\ Len(rest) = Len(s) - 1 /\ h = s[1]
      /\ \A i \in 1..Len(rest) : rest[i] = s[i + 1]
  OBVIOUS
<1> HIDE DEF rest, h
<1>2. \A i \in 1..Len(s) : i = 1 \/ i - 1 \in 1..Len(rest)
  BY ONLY <1>1
<1>3. \A i \in 1..Len(s) : i = 1 \/ s[i] = rest[i - 1]
  <2> TAKE i \in 1..Len(s)
  <2>1. CASE i # 1
    <3>1. i - 1 \in 1..Len(rest) /\ (i - 1) + 1 = i
      BY ONLY <1>1, <2>1, i \in 1..Len(s)
    <3> QED BY ONLY <1>1, <3>1
  <2> QED BY <2>1
<1>4. 1 \in 1..Len(s) /\ \A i \in 1..Len(rest) : i + 1 \in 1..Len(s)
  BY ONLY <1>1
<1>5. Items(s) \subseteq {h} \cup Items(rest)
  BY ONLY <1>1, <1>2, <1>3 DEF Items
<1>6. {h} \cup Items(rest) \subseteq Items(s)
  BY ONLY <1>1, <1>4 DEF Items
<1>7. Items(s) = {h} \cup Items(rest)
  BY ONLY <1>5, <1>6
<1> QED BY <1>7 DEF rest, h

LEMMA ItemsIn ==
    ASSUME NEW S, NEW s \in Seq(S)
    PROVE  Items(s) \subseteq S
BY DEF Items

(* What the moves of a message do to Carries and News. *)
LEMMA CarriesNothing ==
    ASSUME NEW evs \in Seq(Nat \cup Marks), NEW pub \in Nat, NEW recv \in Seq(Nat),
           \A k \in 1..Len(recv) : recv[k] <= pub, News(evs, pub, recv)
    PROVE  Carries(evs, 0, <<>>, pub, pub, recv)
<1>1. \A x \in Items(evs) : x <= pub
  <2> SUFFICES ASSUME NEW i \in 1..Len(evs) PROVE evs[i] <= pub
    BY DEF Items
  <2>1. CASE evs[i] \in Marks
    BY ONLY <2>1, pub \in Nat DEF Marks, Failed, Ended
  <2>2. CASE evs[i] \notin Marks
    BY <2>2 DEF News
  <2> QED BY <2>1, <2>2
<1>2. \A x \in Items(recv) : x <= pub
  BY DEF Items
<1>3. (pub + 1)..pub = {} /\ Len(<<>>) = 0 /\ pub - 0 = pub /\ 0 <= pub
  OBVIOUS
<1> QED BY ONLY <1>1, <1>2, <1>3 DEF Carries

LEMMA CarriesTaken ==
    ASSUME NEW evs \in Seq(Nat \cup Marks), NEW queue \in Seq(Nat), NEW since \in Nat,
           NEW pub \in Nat, NEW recv \in Seq(Nat),
           queue # <<>>, Carries(evs, 0, queue, since, pub, recv)
    PROVE  Carries(evs, Head(queue), Tail(queue), since, pub, recv)
<1> DEFINE h == Head(queue)
           rest == Tail(queue)
           b == pub - Len(queue)
<1>1. /\ Len(queue) \in Nat \ {0} /\ Len(rest) = Len(queue) - 1 /\ h = queue[1]
      /\ \A i \in 1..Len(rest) : rest[i] = queue[i + 1]
      /\ Items(evs) \cup Items(recv) \subseteq Int
  <2>1. /\ Len(queue) \in Nat \ {0} /\ Len(rest) = Len(queue) - 1 /\ h = queue[1]
        /\ \A i \in 1..Len(rest) : rest[i] = queue[i + 1]
    OBVIOUS
  <2>2. Items(evs) \subseteq Nat \cup Marks /\ Items(recv) \subseteq Nat
    BY ItemsIn
  <2>3. Nat \cup Marks \subseteq Int
    BY ONLY DEF Marks, Failed, Ended
  <2> QED BY ONLY <2>1, <2>2, <2>3
<1>2. /\ \A i \in 1..Len(queue) : queue[i] = b + i
      /\ 0 <= b
      /\ \A x \in Items(evs) \cup Items(recv) : x <= b
      /\ (since + 1)..pub \subseteq Items(recv) \cup OnTheWay(evs, 0, queue)
  BY DEF Carries
<1>3. Items(queue) = {h} \cup Items(rest)
  BY ItemsTail
<1>4. b \in Int /\ pub - Len(rest) = b + 1
  BY ONLY <1>1, pub \in Nat
<1> HIDE DEF h, rest, b
<1>5. h = b + 1 /\ h # 0
  BY ONLY <1>1, <1>2, <1>4
<1>6. \A i \in 1..Len(rest) : rest[i] = pub - Len(rest) + i
  <2> TAKE i \in 1..Len(rest)
  <2>1. i + 1 \in 1..Len(queue) /\ rest[i] = queue[i + 1]
    BY ONLY <1>1, i \in 1..Len(rest)
  <2>2. rest[i] = b + (i + 1)
    BY ONLY <1>2, <2>1
  <2>3. i \in Int
    BY ONLY i \in 1..Len(rest)
  <2> QED BY ONLY <1>4, <2>2, <2>3
<1>7. \A x \in Items(evs) \cup Items(recv) : x <= pub - Len(rest) /\ x < h
  BY ONLY <1>1, <1>2, <1>4, <1>5
<1>8. OnTheWay(evs, h, rest) = OnTheWay(evs, 0, queue)
  BY ONLY <1>3, <1>5 DEF OnTheWay
<1>9. h <= pub - Len(rest)
  BY ONLY <1>4, <1>5
<1> QED BY ONLY <1>2, <1>6, <1>7, <1>8, <1>9 DEF Carries, h, rest

LEMMA CarriesSent ==
    ASSUME NEW evs \in Seq(Nat \cup Marks), NEW held \in Nat, NEW queue \in Seq(Nat),
           NEW since \in Nat, NEW pub \in Nat, NEW recv \in Seq(Nat),
           held # 0, Carries(evs, held, queue, since, pub, recv), News(evs, pub, recv)
    PROVE  /\ Carries(Append(evs, held), 0, queue, since, pub, recv)
           /\ News(Append(evs, held), pub, recv)
<1> DEFINE n == Len(evs)
           new == Append(evs, held)
           b == pub - Len(queue)
<1>1. /\ n \in Nat /\ Len(queue) \in Nat /\ b \in Int /\ b <= pub
      /\ Len(new) = n + 1 /\ new[n + 1] = held /\ \A i \in 1..n : new[i] = evs[i]
  OBVIOUS
<1>2. Items(new) = Items(evs) \cup {held}
  <2>1. held \in Nat \cup Marks
    OBVIOUS
  <2> QED BY ONLY <2>1, ItemsAppend, evs \in Seq(Nat \cup Marks)
<1>3. /\ \A i \in 1..Len(queue) : queue[i] = b + i
      /\ held <= b
      /\ \A x \in Items(evs) \cup Items(recv) : x <= b /\ x < held
      /\ (since + 1)..pub \subseteq Items(recv) \cup OnTheWay(evs, held, queue)
  BY DEF Carries
<1>4. /\ \A i, j \in 1..n : i < j /\ evs[j] \notin Marks => evs[i] < evs[j]
      /\ \A i \in 1..n : evs[i] \notin Marks =>
            evs[i] <= pub /\ \A k \in 1..Len(recv) : recv[k] < evs[i]
  BY DEF News
<1>5. /\ \A i \in 1..n : evs[i] < held
      /\ \A k \in 1..Len(recv) : recv[k] < held
  BY ONLY <1>3 DEF Items, n
<1> HIDE DEF n, new, b
<1>6. \A i \in 1..(n + 1) : i \in 1..n \/ i = n + 1
  BY ONLY <1>1
<1>7. ASSUME NEW i \in 1..(n + 1), NEW j \in 1..(n + 1), i < j, new[j] \notin Marks
      PROVE  new[i] < new[j]
  <2>1. i \in 1..n
    BY ONLY <1>1, <1>7
  <2>2. CASE j \in 1..n
    BY ONLY <1>1, <1>4, <1>7, <2>1, <2>2
  <2>3. CASE j = n + 1
    BY ONLY <1>1, <1>5, <2>1, <2>3
  <2> QED BY <1>6, <2>2, <2>3
<1>8. ASSUME NEW i \in 1..(n + 1), new[i] \notin Marks
      PROVE  new[i] <= pub /\ \A k \in 1..Len(recv) : recv[k] < new[i]
  <2>1. CASE i \in 1..n
    BY ONLY <1>1, <1>4, <1>8, <2>1
  <2>2. CASE i = n + 1
    <3>1. held <= pub
      BY ONLY <1>1, <1>3, held \in Nat, pub \in Nat
    <3> QED BY ONLY <1>1, <1>5, <2>2, <3>1
  <2> QED BY <1>6, <2>1, <2>2
<1>9. News(new, pub, recv)
  BY ONLY <1>1, <1>7, <1>8 DEF News
<1>10. 0 <= b
  BY ONLY <1>1, <1>3, held \in Nat
<1>11. \A x \in Items(new) \cup Items(recv) : x <= b
  BY ONLY <1>2, <1>3
<1>12. OnTheWay(new, 0, queue) = OnTheWay(evs, held, queue)
  BY ONLY <1>2, held # 0 DEF OnTheWay
<1>13. Carries(new, 0, queue, since, pub, recv)
  BY ONLY <1>3, <1>10, <1>11, <1>12 DEF Carries, b
<1> QED BY <1>9, <1>13 DEF new

LEMMA CarriesPublished ==
    ASSUME NEW evs \in Seq(Nat \cup Marks), NEW held \in Nat, NEW queue \in Seq(Nat),
           NEW since \in Nat, NEW pub \in Nat, NEW recv \in Seq(Nat),
           Carries(evs, held, queue, since, pub, recv)
    PROVE  Carries(evs, held, Append(queue, pub + 1), since, pub + 1, recv)
<1> DEFINE m == Len(queue)
           new == Append(queue, pub + 1)
           b == pub - m
<1>1. /\ m \in Nat /\ b \in Int /\ Len(new) = m + 1 /\ new[m + 1] = pub + 1
      /\ pub + 1 - (m + 1) = b /\ b + m + 1 = pub + 1
      /\ \A i \in 1..m : new[i] = queue[i]
  OBVIOUS
<1>2. Items(new) = Items(queue) \cup {pub + 1}
  <2>1. pub + 1 \in Nat
    OBVIOUS
  <2> QED BY ONLY <2>1, ItemsAppend, queue \in Seq(Nat)
<1>3. /\ \A i \in 1..m : queue[i] = b + i
      /\ held <= b
      /\ \A x \in Items(evs) \cup Items(recv) : x <= b /\ (held # 0 => x < held)
      /\ (since + 1)..pub \subseteq Items(recv) \cup OnTheWay(evs, held, queue)
  BY DEF Carries
<1> HIDE DEF m, new, b
<1>4. ASSUME NEW i \in 1..(m + 1) PROVE new[i] = b + i
  <2>1. i \in 1..m \/ i = m + 1
    BY ONLY <1>1
  <2>2. CASE i \in 1..m
    BY ONLY <1>1, <1>3, <2>2
  <2>3. CASE i = m + 1
    BY ONLY <1>1, <2>3
  <2> QED BY <2>1, <2>2, <2>3
<1>5. OnTheWay(evs, held, new) = OnTheWay(evs, held, queue) \cup {pub + 1}
  BY ONLY <1>2 DEF OnTheWay
<1>6. (since + 1)..(pub + 1) \subseteq (since + 1)..pub \cup {pub + 1}
  OBVIOUS
<1>7. (since + 1)..(pub + 1) \subseteq Items(recv) \cup OnTheWay(evs, held, new)
  BY ONLY <1>3, <1>5, <1>6
<1>8. pub + 1 - Len(new) = b
  BY ONLY <1>1
<1>9. \A i \in 1..Len(new) : new[i] = (pub + 1 - Len(new)) + i
  BY ONLY <1>1, <1>4, <1>8
<1>10. Carries(evs, held, new, since, pub + 1, recv)
  BY ONLY <1>3, <1>7, <1>8, <1>9 DEF Carries
<1> QED BY <1>10 DEF new

LEMMA NewsPublished ==
    ASSUME NEW evs \in Seq(Nat \cup Marks), NEW pub \in Nat, NEW recv \in Seq(Nat),
           News(evs, pub, recv)
    PROVE  News(evs, pub + 1, recv)
<1>1. \A i \in 1..Len(evs) : evs[i] \notin Marks => evs[i] \in Nat
  OBVIOUS
<1> QED BY <1>1 DEF News

LEMMA NewsBroken ==
    ASSUME NEW evs \in Seq(Nat \cup Marks), NEW pub \in Nat, NEW recv \in Seq(Nat),
           NEW arrived \in 0..Len(evs), NEW marks \in {<<Ended>>, <<Failed, Ended>>},
           News(evs, pub, recv)
    PROVE  News(SubSeq(evs, 1, arrived) \o marks, pub, recv)
<1> DEFINE new == SubSeq(evs, 1, arrived) \o marks
<1>1. /\ SubSeq(evs, 1, arrived) \in Seq(Nat \cup Marks) /\ marks \in Seq(Nat \cup Marks)
      /\ Len(SubSeq(evs, 1, arrived)) = arrived
      /\ \A i \in 1..arrived : SubSeq(evs, 1, arrived)[i] = evs[i]
  <2>1. arrived \in 0..Len(evs) /\ evs \in Seq(Nat \cup Marks)
    OBVIOUS
  <2>2. marks \in Seq(Nat \cup Marks)
    BY ReportsTyped
  <2>3. SubSeq(evs, 1, arrived) \in Seq(Nat \cup Marks)
        /\ Len(SubSeq(evs, 1, arrived)) = arrived
    BY ONLY <2>1
  <2>4. \A i \in 1..arrived : SubSeq(evs, 1, arrived)[i] = evs[i]
    BY ONLY <2>1
  <2> QED BY ONLY <2>2, <2>3, <2>4
<1>2. /\ arrived \in Nat /\ arrived <= Len(evs) /\ Len(evs) \in Nat /\ Len(marks) \in Nat
      /\ \A i \in 1..Len(marks) : marks[i] \in Marks
  BY SMTT(30) DEF Marks
<1>3. /\ Len(new) = arrived + Len(marks)
      /\ \A i \in 1..Len(new) : new[i] = IF i <= arrived THEN SubSeq(evs, 1, arrived)[i]
                                         ELSE marks[i - arrived]
  BY ONLY <1>1, <1>2, ConcatProperties
<1> HIDE DEF new
<1>4. ASSUME NEW i \in 1..Len(new), new[i] \notin Marks
      PROVE  i \in 1..arrived
  <2>1. i - arrived \in 1..Len(marks) \/ i \in 1..arrived
    BY ONLY <1>2, <1>3
  <2> QED BY ONLY <1>2, <1>3, <1>4, <2>1
<1>5. \A i \in 1..arrived : new[i] = evs[i] /\ i \in 1..Len(evs) /\ i \in 1..Len(new)
  BY ONLY <1>1, <1>2, <1>3
<1>6. ASSUME NEW i \in 1..Len(new), NEW j \in 1..Len(new), i < j, new[j] \notin Marks
      PROVE  new[i] < new[j]
  <2>1. j \in 1..arrived /\ i \in 1..arrived
    <3>1. j \in 1..arrived
      BY <1>4, <1>6
    <3> QED BY ONLY <1>2, <1>3, <1>6, <3>1
  <2> QED BY ONLY <1>5, <1>6, <2>1, News(evs, pub, recv) DEF News
<1>7. ASSUME NEW i \in 1..Len(new), new[i] \notin Marks
      PROVE  new[i] <= pub /\ \A k \in 1..Len(recv) : recv[k] < new[i]
  <2>1. i \in 1..arrived
    BY <1>4, <1>7
  <2> QED BY ONLY <1>5, <1>7, <2>1, News(evs, pub, recv) DEF News
<1>8. News(new, pub, recv)
  BY ONLY <1>6, <1>7 DEF News
<1> QED BY <1>8 DEF new

(* The app hears the first event. *)
LEMMA NewsHeard ==
    ASSUME NEW evs \in Seq(Nat \cup Marks), NEW pub \in Nat, NEW recv \in Seq(Nat),
           evs # <<>>, Head(evs) \notin Marks, News(evs, pub, recv),
           \A i, j \in 1..Len(recv) : i < j => recv[i] < recv[j],
           \A i \in 1..Len(recv) : recv[i] <= pub
    PROVE  LET new == Append(recv, Head(evs))
           IN  /\ News(Tail(evs), pub, new)
               /\ \A i, j \in 1..Len(new) : i < j => new[i] < new[j]
               /\ \A i \in 1..Len(new) : new[i] <= pub
<1> DEFINE new == Append(recv, Head(evs))
           rest == Tail(evs)
           h == Head(evs)
           n == Len(recv)
<1>1. /\ n \in Nat /\ Len(new) = n + 1 /\ new[n + 1] = h /\ h \in Nat
      /\ \A k \in 1..n : new[k] = recv[k] /\ recv[k] \in Nat
  BY DEF Marks
<1>2. /\ Len(evs) \in Nat \ {0} /\ Len(rest) = Len(evs) - 1 /\ h = evs[1]
      /\ \A i \in 1..Len(rest) : rest[i] = evs[i + 1] /\ i + 1 \in 1..Len(evs)
  OBVIOUS
<1>3. 1 \in 1..Len(evs)
  BY ONLY <1>2
<1>4. h <= pub /\ \A k \in 1..n : recv[k] < h
  BY ONLY <1>2, <1>3, Head(evs) \notin Marks, News(evs, pub, recv) DEF News
<1> HIDE DEF new, rest, h, n
<1>5. \A i \in 1..(n + 1) : i \in 1..n \/ i = n + 1
  BY ONLY <1>1
<1>6. ASSUME NEW i \in 1..(n + 1), NEW j \in 1..(n + 1), i < j
      PROVE  new[i] < new[j]
  <2>1. i \in 1..n
    BY ONLY <1>1, <1>6
  <2>2. CASE j \in 1..n
    <3>1. recv[i] < recv[j]
      BY <1>6, <2>1, <2>2 DEF n
    <3> QED BY ONLY <1>1, <2>1, <2>2, <3>1
  <2>3. CASE j = n + 1
    BY ONLY <1>1, <1>4, <2>1, <2>3
  <2> QED BY <1>5, <2>2, <2>3
<1>7. ASSUME NEW i \in 1..(n + 1)
      PROVE  new[i] <= pub
  <2>1. CASE i \in 1..n
    <3>1. recv[i] <= pub
      BY <2>1 DEF n
    <3> QED BY ONLY <1>1, <2>1, <3>1
  <2>2. CASE i = n + 1
    BY ONLY <1>1, <1>4, <2>2
  <2> QED BY <1>5, <2>1, <2>2
<1>8. ASSUME NEW i \in 1..Len(rest), NEW j \in 1..Len(rest), i < j, rest[j] \notin Marks
      PROVE  rest[i] < rest[j]
  <2>1. /\ i + 1 \in 1..Len(evs) /\ j + 1 \in 1..Len(evs) /\ i + 1 < j + 1
        /\ rest[i] = evs[i + 1] /\ rest[j] = evs[j + 1]
    BY ONLY <1>2, <1>8
  <2> QED BY ONLY <1>8, <2>1, News(evs, pub, recv) DEF News
<1>9. ASSUME NEW i \in 1..Len(rest), rest[i] \notin Marks
      PROVE  rest[i] <= pub /\ \A k \in 1..(n + 1) : new[k] < rest[i]
  <2>1. rest[i] <= pub /\ \A k \in 1..n : recv[k] < rest[i]
    BY ONLY <1>2, <1>9, News(evs, pub, recv) DEF News, n
  <2>2. h < rest[i]
    <3>1. 1 < i + 1
      BY ONLY <1>2
    <3> QED BY ONLY <1>2, <1>3, <1>9, <3>1, News(evs, pub, recv) DEF News
  <2> QED BY ONLY <1>1, <1>5, <2>1, <2>2
<1>10. News(rest, pub, new)
  BY ONLY <1>1, <1>8, <1>9 DEF News
<1> QED BY ONLY <1>1, <1>6, <1>7, <1>10 DEF new, rest, h

LEMMA CarriesHeard ==
    ASSUME NEW evs \in Seq(Nat \cup Marks), NEW held \in Nat, NEW queue \in Seq(Nat),
           NEW since \in Nat, NEW pub \in Nat, NEW recv \in Seq(Nat),
           evs # <<>>, Head(evs) \notin Marks, Carries(evs, held, queue, since, pub, recv)
    PROVE  Carries(Tail(evs), held, queue, since, pub, Append(recv, Head(evs)))
<1> DEFINE h == Head(evs)
           rest == Tail(evs)
           new == Append(recv, h)
<1>1. h \in Nat
  BY DEF Marks
<1>2. Items(evs) = {h} \cup Items(rest) /\ Items(new) = Items(recv) \cup {h}
  <2>1. Items(evs) = {h} \cup Items(rest)
    BY ONLY ItemsTail, evs \in Seq(Nat \cup Marks), evs # <<>>
  <2>2. \A x \in Nat : Items(Append(recv, x)) = Items(recv) \cup {x}
    BY ONLY ItemsAppend, recv \in Seq(Nat)
  <2>3. Items(new) = Items(recv) \cup {h}
    BY ONLY <1>1, <2>2
  <2> QED BY <2>1, <2>3
<1> HIDE DEF h, rest, new
<1>3. Items(rest) \cup Items(new) = Items(evs) \cup Items(recv)
  BY ONLY <1>2
<1>4. Items(recv) \cup OnTheWay(evs, held, queue) = Items(new) \cup OnTheWay(rest, held, queue)
  BY ONLY <1>2 DEF OnTheWay
<1>5. Carries(rest, held, queue, since, pub, new)
  BY ONLY <1>3, <1>4, Carries(evs, held, queue, since, pub, recv) DEF Carries
<1> QED BY <1>5 DEF rest, new, h

-----------------------------------------------------------------------------
(* A step that leaves a connection, what is published and what is received *)
(* alone keeps the connection's part of the invariant.                     *)
LEMMA Elsewhere ==
    ASSUME NEW d \in Conns, ConnInv(d), TypeOK,
           session'[d] = session[d], events'[d] = events[d], line'[d] = line[d],
           published' = published, received' = received,
           d \in listening' => d \in listening,
           conns' \in Nat, conns' >= conns
    PROVE  ConnInv(d)'
<1>3. Consecutive(d)' <=> Consecutive(d)
  BY DEF Consecutive
<1>4. Fresh(d)' <=> Fresh(d)
  BY DEF Fresh
<1>5. d > conns' => d > conns
  BY Constants DEF TypeOK
<1> QED BY <1>3, <1>4, <1>5 DEF ConnInv

(* A connection that is broken is no longer read from the channel, and one *)
(* that the gateway has not subscribed for carries nothing.                *)
LEMMA HandlerKeepsOrder ==
    ASSUME MarketInv, NEW c \in Conns,
           HandlerStep(c) \/ SubscribeFails(c) \/ ForwarderDies(c) \/ Resubscribe(c)
    PROVE  ConnInv(c)'
<1>0. /\ session \in [Conns -> Sessions] /\ session[c] \in Sessions
      /\ line \in [Conns -> {"new", "up", "cut"}] /\ line[c] \in {"new", "up", "cut"}
      /\ events \in [Conns -> Seq(Nat \cup Marks)] /\ events[c] \in Seq(Nat \cup Marks)
      /\ published \in Nat /\ conns \in Nat /\ received \in Seq(Nat) /\ ConnInv(c)
      /\ c \in Nat
  BY Constants DEF MarketInv, TypeOK
<1>1. UNCHANGED <<supported, published, conns, app, listening, received>>
  BY DEF HandlerStep, SubscribeFails, ForwarderDies, Resubscribe, Handshake, Subscribe,
         Disconnected, Unsubscribe, client
<1>2. session[c].at # "none" /\ c <= conns
  <2>1. session[c].at # "none"
    BY <1>0 DEF HandlerStep, SubscribeFails, ForwarderDies, Resubscribe, Handshake, Subscribe,
                Disconnected, Unsubscribe, ConnInv
  <2>2. NoSession.at = "none"
    BY DEF NoSession
  <2> QED BY ONLY <1>0, <2>1, <2>2 DEF ConnInv
<1>3. Over.at = "over" /\ ~Over.forwarding /\ Over.held = 0 /\ Over.queue = <<>>
  BY DEF Over, NoSession
<1>4. ASSUME events'[c] = events[c] \/ Fresh(c)',
             line'[c] = "up" => session'[c].at # "serving" /\ events'[c] = <<>>,
             session'[c].forwarding \/ session'[c].held # 0 => session'[c].at = "serving",
             session'[c].at \notin {"serving", "closing"} => session'[c].queue = <<>>
      PROVE  ConnInv(c)'
  <2>1. events'[c] = events[c] => (Fresh(c)' <=> Fresh(c))
    BY <1>1 DEF Fresh
  <2> QED BY ONLY <1>0, <1>1, <1>2, <1>4, <2>1 DEF ConnInv
<1>5. ASSUME NEW marks \in {<<Ended>>, <<Failed, Ended>>}, session[c].at # "serving",
             events'[c] = Report(c, marks)
      PROVE  events'[c] = events[c] \/ Fresh(c)'
  <2>1. CASE line[c] = "up"
    <3>1. events[c] = <<>>
      BY ONLY <1>0, <1>5, <2>1 DEF ConnInv
    <3>2. events'[c] = marks
      <4>1. marks \in Seq(Nat \cup Marks)
        BY <1>5, ReportsTyped
      <4>2. <<>> \o marks = marks
        BY ONLY <4>1, ConcatEmptySeq
      <4> QED BY ONLY <1>5, <2>1, <3>1, <4>2 DEF Report
    <3>3. \A i \in 1..Len(marks) : marks[i] \in Marks
      BY <1>5 DEF Marks
    <3> QED BY ONLY <3>2, <3>3 DEF Fresh, News
  <2> QED BY <1>5, <2>1 DEF Report
<1>6. CASE Handshake(c)
  <2>1. session[c].at = "opening"
    BY <1>6 DEF Handshake
  <2>2. CASE supported
    <3>1. session'[c] = [session[c] EXCEPT !.at = "accepted"] /\ line'[c] = line[c]
          /\ events'[c] = events[c]
      BY ONLY <1>0, <1>6, <2>2 DEF Handshake
    <3>2. /\ session'[c].at = "accepted" /\ session'[c].forwarding = session[c].forwarding
          /\ session'[c].held = session[c].held /\ session'[c].queue = session[c].queue
      BY ONLY <1>0, <3>1 DEF Sessions
    <3>3. ~session[c].forwarding /\ session[c].held = 0 /\ session[c].queue = <<>>
          /\ (line[c] = "up" => events[c] = <<>>)
      BY ONLY <1>0, <2>1 DEF ConnInv
    <3> QED BY ONLY <1>4, <3>1, <3>2, <3>3
  <2>3. CASE ~supported
    <3>1. session'[c] = Over /\ line'[c] = "cut" /\ events'[c] = Report(c, <<Failed, Ended>>)
      BY ONLY <1>0, <1>6, <2>3 DEF Handshake
    <3>2. events'[c] = events[c] \/ Fresh(c)'
      BY <1>5, <2>1, <3>1
    <3> QED BY ONLY <1>3, <1>4, <3>1, <3>2
  <2> QED BY <2>2, <2>3
<1>7. CASE SubscribeFails(c)
  <2>1. session[c].at = "accepted"
    BY <1>7 DEF SubscribeFails
  <2>2. session'[c] = Over /\ line'[c] = "cut" /\ events'[c] = Report(c, <<Ended>>)
    BY ONLY <1>0, <1>7 DEF SubscribeFails
  <2>3. events'[c] = events[c] \/ Fresh(c)'
    BY <1>5, <2>1, <2>2
  <2> QED BY ONLY <1>3, <1>4, <2>2, <2>3
<1>8. CASE Subscribe(c)
  <2>1. session[c].at = "accepted" /\ line' = line /\ events' = events
    BY <1>8 DEF Subscribe
  <2>2. /\ session'[c].at = "serving" /\ session'[c].since = published
        /\ session'[c].held = session[c].held /\ session'[c].queue = session[c].queue
    BY ONLY <1>0, <1>8 DEF Subscribe, Sessions
  <2>3. session[c].held = 0 /\ session[c].queue = <<>> /\ (line[c] = "up" => events[c] = <<>>)
    BY ONLY <1>0, <2>1 DEF ConnInv
  <2>4. line[c] = "up" => Consecutive(c)'
    <3>0. SUFFICES ASSUME line[c] = "up" PROVE Consecutive(c)'
      OBVIOUS
    <3>1. \A k \in 1..Len(received) : received[k] <= published
      BY DEF MarketInv, ReceivedInOrder
    <3>3. News(<<>>, published, received)
      BY DEF News
    <3>2. Carries(<<>>, 0, <<>>, published, published, received)
      <4>1. <<>> \in Seq(Nat \cup Marks)
        OBVIOUS
      <4> QED BY ONLY <1>0, <3>1, <3>3, <4>1, CarriesNothing
    <3> QED BY ONLY <1>1, <2>1, <2>2, <2>3, <3>0, <3>2 DEF Consecutive
  <2>5. Fresh(c)' <=> Fresh(c)
    BY <1>1, <2>1 DEF Fresh
  <2> QED BY ONLY <1>0, <1>1, <1>2, <2>1, <2>2, <2>3, <2>4, <2>5 DEF ConnInv
<1>9. CASE ForwarderDies(c)
  <2>1. /\ session'[c].at = session[c].at /\ session'[c].since = session[c].since
        /\ session'[c].held = session[c].held /\ session'[c].queue = session[c].queue
        /\ session[c].forwarding
    BY ONLY <1>0, <1>9 DEF ForwarderDies, Sessions
  <2>2. line' = line /\ events' = events
    BY <1>9 DEF ForwarderDies
  <2>4. Consecutive(c)' <=> Consecutive(c)
    BY ONLY <1>1, <2>1, <2>2 DEF Consecutive
  <2>5. Fresh(c)' <=> Fresh(c)
    BY <1>1, <2>2 DEF Fresh
  <2> QED BY ONLY <1>0, <1>1, <1>2, <2>1, <2>2, <2>4, <2>5 DEF ConnInv
<1>12. CASE Resubscribe(c)
  <2>1. /\ session'[c].at = session[c].at /\ session'[c].forwarding = session[c].forwarding
        /\ session'[c].held = 0 /\ session'[c].queue = <<>>
        /\ session'[c].since = published /\ session[c].forwarding
    BY ONLY <1>0, <1>12 DEF Resubscribe, Sessions
  <2>2. line' = line /\ events' = events
    BY <1>12 DEF Resubscribe
  <2>3. ASSUME line[c] = "up" PROVE Consecutive(c)'
    <3>1. \A k \in 1..Len(received) : received[k] <= published
      BY DEF MarketInv, ReceivedInOrder
    <3>2. News(events[c], published, received)
      BY <1>0, <2>3 DEF MarketInv, AppInv, OneConnection, ConnInv, Fresh
    <3>3. Carries(events[c], 0, <<>>, published, published, received)
      BY ONLY <1>0, <3>1, <3>2, CarriesNothing
    <3> QED BY ONLY <1>1, <2>1, <2>2, <3>3 DEF Consecutive
  <2>4. Fresh(c)' <=> Fresh(c)
    BY <1>1, <2>2 DEF Fresh
  <2> QED BY ONLY <1>0, <1>1, <1>2, <2>1, <2>2, <2>3, <2>4 DEF ConnInv
<1>10. CASE Disconnected(c)
  <2>1. line'[c] = "cut" /\ events' = events
    BY <1>10 DEF Disconnected
  <2>2. session'[c].at = "closing" /\ ~session'[c].forwarding /\ session'[c].held = 0
    BY ONLY <1>0, <1>10 DEF Disconnected, Sessions
  <2> QED BY ONLY <1>4, <2>1, <2>2
<1>11. CASE Unsubscribe(c)
  <2>1. session[c].at = "closing" /\ line' = line /\ events' = events
    BY <1>11 DEF Unsubscribe
  <2>2. session'[c] = Over
    BY ONLY <1>0, <1>11 DEF Unsubscribe
  <2>3. line[c] = "up" => events[c] = <<>>
    BY ONLY <1>0, <2>1 DEF ConnInv
  <2> QED BY ONLY <1>3, <1>4, <2>1, <2>2, <2>3
<1> QED BY <1>6, <1>7, <1>8, <1>9, <1>10, <1>11, <1>12 DEF HandlerStep

(* A message moves from the queue to the forwarder's hands to the app's    *)
(* channel, and none overtakes another.                                    *)
LEMMA ForwardKeepsOrder ==
    ASSUME MarketInv, NEW c \in Conns, ForwardStep(c)
    PROVE  ConnInv(c)'
<1>0. /\ session \in [Conns -> Sessions] /\ session[c] \in Sessions
      /\ line \in [Conns -> {"new", "up", "cut"}]
      /\ events \in [Conns -> Seq(Nat \cup Marks)] /\ events[c] \in Seq(Nat \cup Marks)
      /\ published \in Nat /\ conns \in Nat /\ received \in Seq(Nat) /\ ConnInv(c)
      /\ c \in Nat
  BY Constants DEF MarketInv, TypeOK
<1>1. /\ UNCHANGED <<supported, published, line, conns, app, listening, received>>
      /\ session[c].forwarding
  BY DEF ForwardStep, GetMessage, SendJson, client
<1>2. session[c].at = "serving" /\ c <= conns
  <2>1. session[c].at = "serving"
    BY ONLY <1>0, <1>1 DEF ConnInv
  <2>2. NoSession.at = "none"
    BY DEF NoSession
  <2> QED BY ONLY <1>0, <2>1, <2>2 DEF ConnInv
<1>3. /\ session[c].since \in Nat /\ session[c].held \in Nat /\ session[c].queue \in Seq(Nat)
  BY <1>0, SessionFields
<1>4. CASE GetMessage(c)
  <2>1. /\ session'[c].at = "serving" /\ session'[c].since = session[c].since
        /\ session'[c].held = Head(session[c].queue)
        /\ session'[c].queue = Tail(session[c].queue)
        /\ session[c].held = 0 /\ session[c].queue # <<>> /\ events' = events
    BY ONLY <1>0, <1>2, <1>4 DEF GetMessage, Sessions
  <2>3. ASSUME line[c] = "up" PROVE Consecutive(c)'
    <3>1. Carries(events[c], 0, session[c].queue, session[c].since, published, received)
      BY ONLY <1>0, <1>2, <2>1, <2>3 DEF ConnInv, Consecutive
    <3>2. Carries(events[c], Head(session[c].queue), Tail(session[c].queue), session[c].since,
                  published, received)
      BY ONLY <1>0, <1>3, <2>1, <3>1, CarriesTaken
    <3> QED BY ONLY <1>1, <2>1, <3>2 DEF Consecutive
  <2>4. Fresh(c)' <=> Fresh(c)
    BY <1>1, <2>1 DEF Fresh
  <2> QED BY ONLY <1>0, <1>1, <1>2, <2>1, <2>3, <2>4 DEF ConnInv
<1>5. CASE SendJson(c)
  <2>1. PICK raises \in {FALSE, line[c] = "cut"} :
           session' = [session EXCEPT ![c].held = 0, ![c].forwarding = ~raises]
    BY <1>5 DEF SendJson
  <2>2. /\ session'[c].at = "serving" /\ session'[c].since = session[c].since
        /\ session'[c].held = 0 /\ session'[c].queue = session[c].queue
    BY ONLY <1>0, <1>2, <2>1 DEF Sessions
  <2>3. session[c].held # 0 /\ events'[c] = Report(c, <<session[c].held>>)
    BY ONLY <1>0, <1>5 DEF SendJson
  <2>4. CASE line[c] # "up"
    <3>1. events'[c] = events[c]
      BY ONLY <2>3, <2>4 DEF Report
    <3>2. Fresh(c)' <=> Fresh(c)
      BY <1>1, <3>1 DEF Fresh
    <3> QED BY ONLY <1>0, <1>1, <1>2, <2>2, <2>4, <3>2 DEF ConnInv
  <2>5. CASE line[c] = "up"
    <3>1. Carries(events[c], session[c].held, session[c].queue, session[c].since, published,
                  received)
      BY ONLY <1>0, <1>2, <2>5 DEF ConnInv, Consecutive
    <3>2. events'[c] = Append(events[c], session[c].held)
      <4>1. <<session[c].held>> \in Seq(Nat \cup Marks)
        BY ONLY <1>3
      <4> QED BY ONLY <1>0, <2>3, <2>5, <4>1 DEF Report
    <3>3. /\ Carries(Append(events[c], session[c].held), 0, session[c].queue, session[c].since,
                     published, received)
          /\ News(Append(events[c], session[c].held), published, received)
      <4>1. News(events[c], published, received)
        BY <1>0, <2>5 DEF MarketInv, AppInv, OneConnection, ConnInv, Fresh
      <4> QED BY ONLY <1>0, <1>3, <2>3, <3>1, <4>1, CarriesSent
    <3>4. Consecutive(c)' /\ Fresh(c)'
      BY ONLY <1>1, <2>2, <3>2, <3>3 DEF Consecutive, Fresh
    <3> QED BY ONLY <1>0, <1>1, <1>2, <2>2, <3>4 DEF ConnInv
  <2> QED BY <2>4, <2>5
<1> QED BY <1>4, <1>5 DEF ForwardStep

(* A message reaches the queue of every subscribed handler. *)
LEMMA PublishKeepsOrder ==
    ASSUME MarketInv, NEW c \in Conns, Publish
    PROVE  ConnInv(c)'
<1>0. /\ session \in [Conns -> Sessions] /\ session[c] \in Sessions
      /\ events[c] \in Seq(Nat \cup Marks) /\ published \in Nat
      /\ received \in Seq(Nat) /\ ConnInv(c)
  BY DEF MarketInv, TypeOK
<1>1. published' = published + 1
      /\ UNCHANGED <<supported, line, events, conns, app, listening, received>>
  BY DEF Publish, client
<1>3. Fresh(c) => Fresh(c)'
  BY ONLY <1>0, <1>1, NewsPublished DEF Fresh
<1>4. CASE session[c].at # "serving"
  <2>1. session'[c] = session[c]
    BY ONLY <1>0, <1>4, Publish DEF Publish
  <2> QED BY ONLY <1>0, <1>1, <1>3, <1>4, <2>1 DEF ConnInv
<1>5. CASE session[c].at = "serving"
  <2>1. session[c].held \in Nat /\ session[c].queue \in Seq(Nat) /\ session[c].since \in Nat
    BY <1>0, SessionFields
  <2>2. session'[c] = [session[c] EXCEPT !.queue = Append(session[c].queue, published + 1)]
    BY ONLY <1>0, <1>5, Publish DEF Publish
  <2>3. /\ session'[c].at = "serving" /\ session'[c].since = session[c].since
        /\ session'[c].held = session[c].held
        /\ session'[c].queue = Append(session[c].queue, published + 1)
    BY ONLY <1>0, <1>5, <2>2 DEF Sessions
  <2>4. ASSUME line[c] = "up" PROVE Consecutive(c)'
    <3>1. Carries(events[c], session[c].held, session[c].queue, session[c].since, published,
                  received)
      BY ONLY <1>0, <1>5, <2>4 DEF ConnInv, Consecutive
    <3>2. Carries(events[c], session[c].held, Append(session[c].queue, published + 1),
                  session[c].since, published + 1, received)
      BY ONLY <1>0, <2>1, <3>1, CarriesPublished
    <3> QED BY ONLY <1>1, <2>3, <3>2 DEF Consecutive
  <2>5. NoSession.at = "none"
    BY DEF NoSession
  <2> QED BY ONLY <1>0, <1>1, <1>3, <1>5, <2>3, <2>4, <2>5 DEF ConnInv
<1> QED BY <1>4, <1>5

(* What breaks cuts what is on the connection short, and ends it.           *)
LEMMA FailuresKeepOrder ==
    ASSUME MarketInv, NEW c \in Conns,
           NetworkFails(c) \/ ApiRestarts
    PROVE  ConnInv(c)'
<1>0. /\ session \in [Conns -> Sessions] /\ session[c] \in Sessions
      /\ line \in [Conns -> {"new", "up", "cut"}]
      /\ events \in [Conns -> Seq(Nat \cup Marks)] /\ events[c] \in Seq(Nat \cup Marks)
      /\ published \in Nat /\ conns \in Nat /\ received \in Seq(Nat) /\ ConnInv(c)
      /\ c \in Nat
  BY Constants DEF MarketInv, TypeOK
<1>1. UNCHANGED <<supported, published, conns, app, listening, received>>
  BY DEF NetworkFails, ApiRestarts, client
<1>2. Over.at = "over" /\ ~Over.forwarding /\ Over.held = 0 /\ Over.queue = <<>>
  BY DEF Over, NoSession
<1>3. NoSession.at = "none" /\ ~NoSession.forwarding /\ NoSession.held = 0
      /\ NoSession.queue = <<>>
  BY DEF NoSession
<1>4. ASSUME NEW arrived \in 0..Len(events[c]), NEW marks \in {<<Ended>>, <<Failed, Ended>>},
             line[c] = "up", events'[c] = SubSeq(events[c], 1, arrived) \o marks
      PROVE  c <= conns /\ Fresh(c)'
  <2>1. Fresh(c)
    BY <1>0, <1>4 DEF MarketInv, AppInv, OneConnection, ConnInv
  <2>2. News(SubSeq(events[c], 1, arrived) \o marks, published, received)
    BY ONLY <1>0, <1>4, <2>1, NewsBroken DEF Fresh
  <2> QED BY ONLY <1>0, <1>1, <1>4, <2>2 DEF ConnInv, Fresh
<1>5. CASE NetworkFails(c)
  <2>1. PICK report \in {<<Ended>>, <<Failed, Ended>>}, arrived \in 0..Len(events[c]) :
           events' = [events EXCEPT ![c] = SubSeq(events[c], 1, arrived) \o report]
    BY <1>0, <1>5 DEF NetworkFails
  <2>2. events'[c] = SubSeq(events[c], 1, arrived) \o report
    BY ONLY <1>0, <2>1
  <2>3. line[c] = "up" /\ line'[c] = "cut"
        /\ session'[c] = IF session[c].at = "opening" THEN Over ELSE session[c]
    BY ONLY <1>0, <1>5 DEF NetworkFails
  <2>4. c <= conns /\ Fresh(c)'
    BY <1>4, <2>2, <2>3
  <2> QED BY ONLY <1>0, <1>1, <1>2, <2>3, <2>4 DEF ConnInv
<1>6. CASE ApiRestarts
  <2>1. /\ session'[c] = IF session[c].at = "none" THEN NoSession ELSE Over
        /\ events'[c] = Report(c, <<Ended>>)
        /\ line'[c] = IF line[c] = "up" THEN "cut" ELSE line[c]
    BY ONLY <1>0, <1>6 DEF ApiRestarts
  <2>2. CASE line[c] = "up"
    <3>1. events'[c] = SubSeq(events[c], 1, Len(events[c])) \o <<Ended>>
          /\ Len(events[c]) \in 0..Len(events[c])
      <4>1. SubSeq(events[c], 1, Len(events[c])) = events[c]
        BY ONLY <1>0, SubSeqFull
      <4> QED BY ONLY <1>0, <2>1, <2>2, <4>1 DEF Report
    <3>2. c <= conns /\ Fresh(c)'
      BY <1>4, <2>2, <3>1
    <3> QED BY ONLY <1>0, <1>1, <1>2, <1>3, <2>1, <2>2, <3>2 DEF ConnInv
  <2>3. CASE line[c] # "up"
    <3>1. events'[c] = events[c]
      BY ONLY <2>1, <2>3 DEF Report
    <3>2. Fresh(c)' <=> Fresh(c)
      BY <1>1, <3>1 DEF Fresh
    <3> QED BY ONLY <1>0, <1>1, <1>2, <1>3, <2>1, <2>3, <3>1, <3>2 DEF ConnInv
  <2> QED BY <2>2, <2>3
<1> QED BY <1>5, <1>6

(* A connection begins empty, and ends with the app's subscription.         *)
LEMMA AppKeepsOrder ==
    ASSUME MarketInv, NEW c \in Conns,
           \/ Start \/ TimerFires \/ Dispose
           \/ \E d \in Conns : Ends(d)
    PROVE  ConnInv(c)'
<1>0. /\ session \in [Conns -> Sessions] /\ session[c] \in Sessions
      /\ line \in [Conns -> {"new", "up", "cut"}]
      /\ events \in [Conns -> Seq(Nat \cup Marks)] /\ events[c] \in Seq(Nat \cup Marks)
      /\ published \in Nat /\ conns \in Nat /\ received \in Seq(Nat) /\ ConnInv(c)
      /\ c \in Nat /\ TypeOK
  BY SMTT(30), Constants DEF MarketInv, TypeOK
<1>1. ASSUME session'[c] = session[c], events'[c] = <<>>, line'[c] = "cut", c <= conns,
             UNCHANGED <<published, conns, received>>
      PROVE  ConnInv(c)'
  <2>1. Fresh(c)'
    BY ONLY <1>1 DEF Fresh, News
  <2> QED BY ONLY <1>0, <1>1, <2>1 DEF ConnInv
<1>2. ASSUME NEW n \in Int, Connect(n)
      PROVE  ConnInv(c)'
  <2>1. /\ conns' = conns + 1 /\ listening' = listening \cup {conns'}
        /\ line' = [line EXCEPT ![conns'] = "up"]
        /\ session' = [session EXCEPT ![conns'].at = "opening"]
        /\ UNCHANGED <<published, events, received>>
    BY <1>2 DEF Connect
  <2>2. CASE c = conns'
    <3>1. session[c] = NoSession /\ events[c] = <<>>
      BY ONLY <1>0, <2>1, <2>2 DEF ConnInv
    <3>2. session'[c] = [NoSession EXCEPT !.at = "opening"] /\ line'[c] = "up"
      BY ONLY <1>0, <2>1, <2>2, <3>1
    <3>3. session'[c].at = "opening" /\ ~session'[c].forwarding /\ session'[c].held = 0
          /\ session'[c].queue = <<>>
      BY ONLY <3>2 DEF NoSession
    <3>4. Fresh(c)'
      BY ONLY <2>1, <3>1 DEF Fresh, News
    <3> QED BY ONLY <1>0, <2>1, <2>2, <3>1, <3>3, <3>4 DEF ConnInv
  <2>3. CASE c # conns'
    <3>1. session'[c] = session[c] /\ line'[c] = line[c] /\ events'[c] = events[c]
      BY ONLY <1>0, <2>1, <2>3
    <3>2. conns' \in Nat /\ conns' >= conns
      BY ONLY <1>0, <2>1
    <3> QED BY ONLY <1>0, <2>1, <2>3, <3>1, <3>2, Elsewhere
  <2> QED BY <2>2, <2>3
<1>3. CASE Start \/ (TimerFires /\ ~app.closed)
  <2>1. timers \in Int /\ timers - 1 \in Int
    BY <1>0 DEF TypeOK
  <2> QED BY <1>2, <1>3, <2>1 DEF Start, TimerFires
<1>4. CASE TimerFires /\ app.closed
  <2>1. UNCHANGED <<published, session, line, events, conns, listening, received>>
    BY <1>4 DEF TimerFires, gateway
  <2> QED BY ONLY <1>0, <2>1, Elsewhere
<1>5. ASSUME NEW d \in Conns, Ends(d)
      PROVE  ConnInv(c)'
  <2>1. /\ events[d] # <<>> /\ events' = [events EXCEPT ![d] = <<>>]
        /\ line' = [line EXCEPT ![d] = "cut"] /\ listening' = listening \ {d, app.sub}
        /\ UNCHANGED <<published, session, conns, received>>
    BY <1>5 DEF Ends, ReconnectAfter, gateway
  <2>2. CASE c = d
    <3>1. c <= conns
      BY ONLY <1>0, <2>1, <2>2 DEF ConnInv
    <3> QED BY ONLY <1>0, <1>1, <2>1, <2>2, <3>1
  <2>3. CASE c # d
    <3>1. line'[c] = line[c] /\ events'[c] = events[c] /\ session'[c] = session[c]
      BY ONLY <1>0, <2>1, <2>3
    <3> QED BY ONLY <1>0, <2>1, <3>1, Elsewhere
  <2> QED BY <2>2, <2>3
<1>6. CASE Dispose
  <2>1. /\ listening' = listening \ {app.sub}
        /\ events' = [d \in Conns |-> IF d = app.sub THEN <<>> ELSE events[d]]
        /\ line' = [d \in Conns |-> IF d = app.sub THEN "cut" ELSE line[d]]
        /\ UNCHANGED <<published, session, conns, received>>
    BY <1>6 DEF Dispose, gateway
  <2>2. CASE c = app.sub
    <3>1. c <= conns
      BY ONLY <2>2, MarketInv DEF MarketInv, AppInv
    <3>2. events'[c] = <<>> /\ line'[c] = "cut"
      BY ONLY <2>1, <2>2
    <3> QED BY ONLY <1>0, <1>1, <2>1, <3>1, <3>2
  <2>3. CASE c # app.sub
    <3>1. line'[c] = line[c] /\ events'[c] = events[c]
      BY ONLY <1>0, <2>1, <2>3
    <3> QED BY ONLY <1>0, <2>1, <3>1, Elsewhere
  <2> QED BY <2>2, <2>3
<1> QED BY <1>3, <1>4, <1>5, <1>6

(* The app hears a frame: of the only connection it listens to.            *)
LEMMA FrameKeepsOrder ==
    ASSUME MarketInv, NEW d \in Conns, Frame(d)
    PROVE  ReceivedInOrder' /\ \A c \in Conns : ConnInv(c)'
<1>0. /\ session \in [Conns -> Sessions] /\ events \in [Conns -> Seq(Nat \cup Marks)]
      /\ published \in Nat /\ conns \in Nat /\ received \in Seq(Nat)
      /\ \A c \in Conns : ConnInv(c) /\ c \in Nat
      /\ session[d] \in Sessions /\ events[d] \in Seq(Nat \cup Marks)
      /\ line \in [Conns -> {"new", "up", "cut"}]
  BY Constants DEF MarketInv, TypeOK
<1>1. /\ events[d] # <<>> /\ Head(events[d]) \notin Marks /\ d \in listening
      /\ received' = Append(received, Head(events[d]))
      /\ events' = [events EXCEPT ![d] = Tail(@)]
      /\ UNCHANGED <<supported, published, session, line, conns, listening>>
  BY DEF Frame, OnMessage, gateway
<1>2. events'[d] = Tail(events[d]) /\ \A c \in Conns \ {d} : events'[c] = events[c]
  BY ONLY <1>0, <1>1
<1>3. \A c \in Conns : c \in listening \/ line[c] = "up" => c = d
  BY <1>1 DEF MarketInv, AppInv, OneConnection
<1>4. News(events[d], published, received)
  BY ONLY <1>0, <1>1 DEF ConnInv, Fresh
<1>5. /\ \A i, j \in 1..Len(received) : i < j => received[i] < received[j]
      /\ \A i \in 1..Len(received) : received[i] <= published
  BY DEF MarketInv, ReceivedInOrder
<1>6. /\ News(Tail(events[d]), published, Append(received, Head(events[d])))
      /\ \A i, j \in 1..Len(received') : i < j => received'[i] < received'[j]
      /\ \A i \in 1..Len(received') : received'[i] <= published
  BY ONLY <1>0, <1>1, <1>4, <1>5, NewsHeard
<1>7. ReceivedInOrder' /\ Fresh(d)'
  BY ONLY <1>1, <1>2, <1>6 DEF ReceivedInOrder, Fresh
<1>8. ASSUME line[d] = "up", session[d].at = "serving"
      PROVE  Consecutive(d)'
  <2>1. Carries(events[d], session[d].held, session[d].queue, session[d].since, published,
                received)
    BY ONLY <1>0, <1>8 DEF ConnInv, Consecutive
  <2>2. session[d].held \in Nat /\ session[d].queue \in Seq(Nat) /\ session[d].since \in Nat
    BY <1>0, SessionFields
  <2>3. Carries(Tail(events[d]), session[d].held, session[d].queue, session[d].since, published,
                Append(received, Head(events[d])))
    BY ONLY <1>0, <1>1, <2>1, <2>2, CarriesHeard
  <2> QED BY ONLY <1>1, <1>2, <2>3 DEF Consecutive
<1>9. ConnInv(d)'
  BY ONLY <1>0, <1>1, <1>7, <1>8 DEF ConnInv
<1>10. ASSUME NEW c \in Conns \ {d}
       PROVE  ConnInv(c)'
  BY ONLY <1>0, <1>1, <1>2, <1>3, <1>10 DEF ConnInv
<1> QED BY <1>7, <1>9, <1>10

-----------------------------------------------------------------------------
LEMMA MarketKept == MarketInv /\ [Next]_vars => MarketInv'
<1> SUFFICES ASSUME MarketInv, [Next]_vars PROVE MarketInv'
  OBVIOUS
<1>0. TypeOK /\ ReceivedInOrder /\ \A c \in Conns : ConnInv(c)
  BY DEF MarketInv
<1>1. CASE UNCHANGED vars
  <2>1. TypeOK' /\ AppInv' /\ ReceivedInOrder'
    BY <1>1 DEF MarketInv, vars, TypeOK, AppInv, OneConnection, ReceivedInOrder
  <2>2. ASSUME NEW c \in Conns PROVE ConnInv(c)'
    <3>1. conns' \in Nat /\ conns' >= conns
      BY <1>0, <1>1, Constants DEF TypeOK, vars
    <3> QED BY <1>0, <1>1, <3>1, Elsewhere DEF vars
  <2> QED BY <2>1, <2>2 DEF MarketInv
<1>2. CASE Next
  <2>1. TypeOK'
    BY <1>0, <1>2, GatewayTypes, WorldTypes, AppTypes DEF Next
  <2>2. AppInv'
    BY <1>2, OneConnectionKept
  <2>3. ASSUME NEW c \in Conns, HandlerStep(c) \/ ForwardStep(c) \/ SubscribeFails(c)
                                 \/ ForwarderDies(c) \/ Resubscribe(c) \/ NetworkFails(c)
        PROVE  ReceivedInOrder' /\ \A d \in Conns : ConnInv(d)'
    <3>1. UNCHANGED <<published, client>>
      BY <2>3 DEF HandlerStep, ForwardStep, SubscribeFails, ForwarderDies, Resubscribe,
                  NetworkFails, Handshake, Subscribe, Disconnected, Unsubscribe,
                  GetMessage, SendJson
    <3>2. ReceivedInOrder'
      BY <1>0, <3>1 DEF ReceivedInOrder, client
    <3>3. ConnInv(c)'
      BY <2>3, HandlerKeepsOrder, ForwardKeepsOrder, FailuresKeepOrder
    <3>4. ASSUME NEW d \in Conns \ {c} PROVE ConnInv(d)'
      <4>1. session'[d] = session[d] /\ events'[d] = events[d] /\ line'[d] = line[d]
        BY <1>0, <2>3 DEF TypeOK, HandlerStep, ForwardStep, SubscribeFails, ForwarderDies,
              Resubscribe, NetworkFails, Handshake, Subscribe, Disconnected, Unsubscribe,
              GetMessage, SendJson
      <4>2. conns' \in Nat /\ conns' >= conns
        BY <1>0, <3>1, Constants DEF TypeOK, client
      <4> QED BY <1>0, <3>1, <4>1, <4>2, Elsewhere DEF client
    <3> QED BY <3>2, <3>3, <3>4
  <2>4. ASSUME Publish
        PROVE  ReceivedInOrder' /\ \A d \in Conns : ConnInv(d)'
    <3>1. published' = published + 1 /\ received' = received
      BY <2>4 DEF Publish, client
    <3>2. published \in Nat /\ \A i \in 1..Len(received) : received[i] \in Nat
      BY <1>0 DEF TypeOK
    <3>3. ReceivedInOrder'
      BY ONLY <1>0, <3>1, <3>2 DEF ReceivedInOrder
    <3> QED BY <2>4, <3>3, PublishKeepsOrder
  <2>5. ASSUME ApiRestarts
        PROVE  ReceivedInOrder' /\ \A d \in Conns : ConnInv(d)'
    <3>1. ReceivedInOrder'
      BY <1>0, <2>5 DEF ReceivedInOrder, ApiRestarts, client
    <3> QED BY <2>5, <3>1, FailuresKeepOrder
  <2>6. ASSUME Start \/ TimerFires \/ Dispose \/ \E c \in Conns : Ends(c)
        PROVE  ReceivedInOrder' /\ \A d \in Conns : ConnInv(d)'
    <3>1. UNCHANGED <<published, received>>
      BY <2>6 DEF Start, TimerFires, Dispose, Ends, Connect, gateway
    <3>2. ReceivedInOrder'
      BY <1>0, <3>1 DEF ReceivedInOrder
    <3> QED BY <2>6, <3>2, AppKeepsOrder
  <2>7. ASSUME NEW c \in Conns, Frame(c)
        PROVE  ReceivedInOrder' /\ \A d \in Conns : ConnInv(d)'
    BY <2>7, FrameKeepsOrder
  <2>8. ReceivedInOrder' /\ \A c \in Conns : ConnInv(c)'
    BY <1>2, <2>3, <2>4, <2>5, <2>6, <2>7 DEF Next, AppStep
  <2> QED BY <2>1, <2>2, <2>8 DEF MarketInv
<1> QED BY <1>1, <1>2

(* The invariant of the gateway and the app.                                *)
THEOREM MarketInvariant == Spec => []MarketInv
BY MarketBegins, MarketKept, PTL DEF Spec

(* The app listens to one connection or waits for one timer, and no other  *)
(* connection of it is open (MarketWebSocket._connect, _scheduleReconnect, *)
(* dispose).                                                               *)
THEOREM OneConnectionAlways == Spec => [](TypeOK /\ OneConnection)
<1>1. MarketInv => TypeOK /\ OneConnection
  BY DEF MarketInv, AppInv
<1> QED BY <1>1, MarketInvariant, PTL

-----------------------------------------------------------------------------
(* The delay.                                                              *)

LEMMA Doublings ==
    /\ Doubled \in [0..MaxConns -> Nat]
    /\ Doubled[0] = MinBackoff
    /\ \A k \in 1..MaxConns : Doubled[k] = 2 * Doubled[k - 1]
<1> DEFINE Is(s) == s = [k \in 0..MaxConns |-> IF k = 0 THEN MinBackoff ELSE 2 * s[k - 1]]
           step == [k \in 1..MaxConns |-> [x \in Nat |-> 2 * x]]
<1>1. MaxConns \in Int /\ 0 \in Int /\ 0 <= MaxConns /\ MinBackoff \in Nat
  BY Constants
<1>2. ASSUME NEW k \in (0 + 1)..MaxConns, NEW x \in Nat
      PROVE  step[k][x] = 2 * x /\ step[k][x] \in Nat
  OBVIOUS
<1> HIDE DEF step
<1>3. IsStep(step, (0 + 1)..MaxConns, Nat)
  BY <1>2 DEF IsStep
<1>4. \A k \in (0 + 1)..MaxConns : k \in 0..MaxConns /\ k - 1 \in 0..MaxConns /\ k # 0
  BY <1>1
<1>5. PICK s \in [0..MaxConns -> Nat] : Follows(s, 0, MaxConns, MinBackoff, step)
  BY <1>1, <1>3, RecursiveFunctionExists
<1>6. \A k \in 0..MaxConns : s[k] = IF k = 0 THEN MinBackoff ELSE 2 * s[k - 1]
  <2> SUFFICES ASSUME NEW k \in 0..MaxConns
               PROVE  s[k] = IF k = 0 THEN MinBackoff ELSE 2 * s[k - 1]
    OBVIOUS
  <2>1. CASE k = 0
    BY <2>1, <1>1, <1>5 DEF Follows
  <2>2. CASE k # 0
    <3>1. k \in (0 + 1)..MaxConns
      BY <2>2, <1>1
    <3> QED BY <2>2, <3>1, <1>2, <1>4, <1>5 DEF Follows
  <2> QED BY <2>1, <2>2
<1>7. Is(s)
  BY <1>6
<1>8. Is(Doubled)
  <2>1. Doubled = CHOOSE f : Is(f)
    BY DEF Doubled
  <2> HIDE DEF Is
  <2> QED BY <1>7, <2>1
<1>9. \A k \in 0..MaxConns : Doubled[k] = IF k = 0 THEN MinBackoff ELSE 2 * Doubled[k - 1]
  BY <1>8
<1>10. Obeys(Doubled, 0, MaxConns, Nat, MinBackoff, step)
  <2>1. Doubled = [k \in 0..MaxConns |-> Doubled[k]]
    BY <1>8
  <2>2. Doubled[0] = MinBackoff
    BY <1>1, <1>9
  <2>3. ASSUME NEW k \in (0 + 1)..MaxConns, Doubled[k - 1] \in Nat
        PROVE  Doubled[k] = step[k][Doubled[k - 1]]
    BY <2>3, <1>2, <1>4, <1>9
  <2> QED BY <2>1, <2>2, <2>3 DEF Obeys
<1>11. Doubled \in [0..MaxConns -> Nat] /\ Follows(Doubled, 0, MaxConns, MinBackoff, step)
  BY <1>1, <1>3, <1>10, RecursiveFunctionTyped
<1> QED BY <1>1, <1>4, <1>9, <1>11

(* Losing a connection doubles the delay up to the longest, and a frame    *)
(* makes it the shortest; nothing else touches it.                         *)
LEMMA BackoffKept ==
    ASSUME TypeOK, BackoffGrows, [Next]_vars
    PROVE  BackoffGrows'
<1>1. /\ app \in [started : BOOLEAN, closed : BOOLEAN, sub : 0..MaxConns, backoff : Nat]
      /\ failures \in 0..MaxConns
  BY DEF TypeOK
<1>2. /\ MinBackoff \in Nat /\ MaxBackoff \in Nat /\ MinBackoff <= MaxBackoff
      /\ MaxConns \in Nat
  BY SocketAssumption DEF SocketAssumption
<1>3. CASE app'.backoff = app.backoff /\ failures' = failures
  BY <1>3 DEF BackoffGrows
<1>4. ASSUME NEW c \in Conns, ReconnectAfter(c)
      PROVE  BackoffGrows'
  <2>1. /\ app'.backoff = Minimum(2 * app.backoff, MaxBackoff)
        /\ failures' = Minimum(failures + 1, MaxConns)
    BY <1>1, <1>4 DEF ReconnectAfter
  <2> SUFFICES ASSUME failures' < MaxConns
               PROVE  app'.backoff = Minimum(Doubled[failures'], MaxBackoff)
    BY DEF BackoffGrows
  <2>2. failures' = failures + 1 /\ failures < MaxConns
    BY <2>1, <1>1, <1>2 DEF Minimum
  <2>3. app.backoff = Minimum(Doubled[failures], MaxBackoff)
    BY <2>2 DEF BackoffGrows
  <2>4. failures + 1 \in 1..MaxConns /\ (failures + 1) - 1 = failures
    BY <2>2, <1>1, <1>2
  <2>5. Doubled[failures'] = 2 * Doubled[failures] /\ Doubled[failures] \in Nat
    BY <2>2, <2>4, <1>1, Doublings
  <2> QED BY <2>1, <2>3, <2>5, <1>2 DEF Minimum
<1>5. ASSUME NEW c \in Conns, OnMessage(c)
      PROVE  BackoffGrows'
  <2>1. failures' = 0 /\ app'.backoff = MinBackoff
    BY <1>1, <1>5 DEF OnMessage
  <2>2. MinBackoff = Minimum(MinBackoff, MaxBackoff)
    BY <1>2 DEF Minimum
  <2> QED BY <2>1, <2>2, Doublings DEF BackoffGrows
<1>6. ASSUME NEW n, Connect(n)
      PROVE  BackoffGrows'
  <2>1. app'.backoff = app.backoff /\ failures' = failures
    BY <1>1, <1>6 DEF Connect
  <2> QED BY <2>1, <1>3
<1>7. CASE UNCHANGED <<app, failures>>
  BY <1>3, <1>7
<1>8. CASE UNCHANGED vars
  BY <1>7, <1>8 DEF vars
<1>9. ASSUME NEW c \in Conns, HandlerStep(c) \/ ForwardStep(c) \/ SubscribeFails(c)
                               \/ ForwarderDies(c) \/ Resubscribe(c) \/ NetworkFails(c)
      PROVE  BackoffGrows'
  <2>1. UNCHANGED client
    BY <1>9 DEF HandlerStep, ForwardStep, SubscribeFails, ForwarderDies, Resubscribe,
                NetworkFails, Handshake, Subscribe, Disconnected, Unsubscribe,
                GetMessage, SendJson
  <2> QED BY <2>1, <1>7 DEF client
<1>10. CASE Publish \/ ApiRestarts
  BY <1>7, <1>10 DEF Publish, ApiRestarts, client
<1>11. CASE Dispose
  <2>1. app'.backoff = app.backoff /\ failures' = failures
    BY <1>1, <1>11 DEF Dispose
  <2> QED BY <2>1, <1>3
<1>12. CASE Start \/ TimerFires
  <2>1. CASE \E n : Connect(n)
    BY <2>1, <1>6
  <2>2. CASE UNCHANGED <<app, failures>>
    BY <2>2, <1>7
  <2> QED BY <1>12, <2>1, <2>2 DEF Start, TimerFires
<1>13. CASE \E c \in Conns : Ends(c) \/ Frame(c)
  BY <1>4, <1>5, <1>13 DEF Ends, Frame
<1> QED
  BY <1>8, <1>9, <1>10, <1>11, <1>12, <1>13 DEF Next, AppStep

(* One connection or one timer, and a delay that doubles with each         *)
(* connection lost in a row: a server that accepts and closes is not       *)
(* called every second (MarketWebSocket._scheduleReconnect, _onMessage).   *)
THEOREM OneConnectionAndBackoff == Spec => []SocketInv
<1>1. Init => BackoffGrows
  <2> SUFFICES ASSUME Init PROVE BackoffGrows
    OBVIOUS
  <2>1. failures = 0 /\ app.backoff = MinBackoff
    BY DEF Init
  <2>2. MinBackoff = Minimum(MinBackoff, MaxBackoff)
    BY SocketAssumption DEF SocketAssumption, Minimum
  <2> QED BY <2>1, <2>2, Doublings DEF BackoffGrows
<1>2. TypeOK /\ BackoffGrows /\ [Next]_vars => BackoffGrows'
  BY BackoffKept
<1>3. TypeOK /\ OneConnection /\ BackoffGrows => SocketInv
  BY DEF SocketInv
<1> QED BY <1>1, <1>2, <1>3, OneConnectionAlways, PTL DEF Spec

-----------------------------------------------------------------------------
(* The frames of the app's stream are in order, whatever failed in between,*)
(* and as long as a connection is open no message since its subscription   *)
(* is missing on it (ws.forward, MarketWebSocket._onMessage).              *)
THEOREM FramesComeInOrder == Spec => []FramesInOrder
<1>1. ASSUME MarketInv, NEW c \in Conns, line[c] = "up", session[c].at = "serving"
      PROVE  (session[c].since + 1)..published \subseteq Items(received) \cup Pending(c)
  <2>1. Consecutive(c)
    BY <1>1 DEF MarketInv, ConnInv
  <2>2. Pending(c) = OnTheWay(events[c], session[c].held, session[c].queue)
    BY DEF Pending, OnTheWay
  <2> QED BY ONLY <2>1, <2>2 DEF Consecutive, Carries
<1>2. MarketInv => FramesInOrder
  BY <1>1 DEF FramesInOrder, MarketInv, ReceivedInOrder
<1> QED BY <1>2, MarketInvariant, PTL
=============================================================================
