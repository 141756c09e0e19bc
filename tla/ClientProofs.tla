---------------------------- MODULE ClientProofs ----------------------------
(***************************************************************************)
(* The websocket client of Client, for every number of attempts and of     *)
(* sockets and with or without autoReconnect.                              *)
(*                                                                         *)
(* The fields of the client and the states of its sockets are kept in step *)
(* by handlers that do not know of each other; Tidied says how they fit as *)
(* long as the application waits for quiet before it calls connect().      *)
(***************************************************************************)
EXTENDS Client, FiniteSetTheorems, TLAPS

WellFormed(c) ==
    /\ c \in ClientState
    /\ DOMAIN c.auths = DOMAIN c.sockets
    /\ c.ws # None => c.ws \in DOMAIN c.sockets

LiveIn(c) == {s \in DOMAIN c.sockets : c.sockets[s] # "closed"}

\* One socket lives at a time, and the client holds it until it closes.
Single(c) ==
    \A s \in LiveIn(c) :
        /\ \A t \in LiveIn(c) : s = t
        /\ c.sockets[s] # "closing" => c.ws = s

\* `connecting` covers every attempt, and ends with its socket.
Attempting(c) ==
    /\ \A s \in DOMAIN c.sockets : c.sockets[s] = "connecting" => c.connecting
    /\ c.connecting => LiveIn(c) # {}

\* A timer runs alone, when nothing else can bring a connection.
Timed(c) ==
    /\ c.timers <= 1
    /\ c.timers > 0 => LiveIn(c) = {}

Authenticated(c) ==
    \A s \in DOMAIN c.sockets :
        /\ c.sockets[s] = "open" => Len(c.auths[s]) = 1
        /\ c.sockets[s] = "connecting" => c.auths[s] = << >>

Tidied(c) ==
    /\ Single(c)
    /\ Attempting(c)
    /\ Timed(c)
    /\ Authenticated(c)
    /\ c.closedByUser => c.ws = None

CInv ==
    /\ WellFormed(client)
    /\ wanted \in BOOLEAN /\ tidy \in BOOLEAN
    /\ tidy => /\ Tidied(client)
               /\ wanted => ~client.closedByUser
               /\ NotStranded
-----------------------------------------------------------------------------
(* The fields of a client.                                                  *)
LEMMA FieldTypes ==
    ASSUME NEW c \in ClientState
    PROVE  /\ c.sockets \in Seq(SocketState)
           /\ c.auths \in Seq(Seq(Counters \cup {None}))
           /\ c.ws \in Nat \cup {None} /\ c.connecting \in BOOLEAN
           /\ c.closedByUser \in BOOLEAN
           /\ c.reconnectAttempts \in 0..maxReconnectAttempts /\ c.timers \in Nat
           /\ c.lastSeenCounter \in Counters \cup {None} /\ c.threw \in BOOLEAN
  BY DEF ClientState

(* Which socket is live depends on `sockets` only.                          *)
LEMMA SameSocketsSameLive ==
    ASSUME NEW c, NEW d, d.sockets = c.sockets
    PROVE  LiveIn(d) = LiveIn(c)
  BY DEF LiveIn

(* A new socket is the only one when no other was live.                     *)
LEMMA Created ==
    ASSUME NEW c, WellFormed(c), NEW d, d = createWebSocket(c)
    PROVE  /\ WellFormed(d) /\ LiveIn(d) # {}
           /\ d.sockets = Append(c.sockets, "connecting") /\ d.auths = Append(c.auths, << >>)
           /\ d.timers = c.timers /\ d.reconnectAttempts = c.reconnectAttempts
           /\ LiveIn(c) = {} /\ Authenticated(c) => Single(d) /\ Authenticated(d)
<1> DEFINE n == Len(c.sockets) + 1
<1>1. /\ c.sockets \in Seq(SocketState) /\ c.auths \in Seq(Seq(Counters \cup {None}))
      /\ c \in ClientState /\ DOMAIN c.auths = DOMAIN c.sockets
  BY FieldTypes DEF WellFormed
<1>2. Len(c.auths) = Len(c.sockets) /\ Len(c.sockets) \in Nat /\ n \in Nat
  BY <1>1
<1>3. /\ d.sockets = Append(c.sockets, "connecting") /\ d.auths = Append(c.auths, << >>)
      /\ d.ws = n /\ d.timers = c.timers /\ d.reconnectAttempts = c.reconnectAttempts
  BY <1>1 DEF createWebSocket, ClientState
<1>4. d.sockets \in Seq(SocketState) /\ d.auths \in Seq(Seq(Counters \cup {None}))
  BY <1>1, <1>3 DEF SocketState
<1>5. d \in ClientState
  BY <1>1, <1>2, <1>3, <1>4 DEF createWebSocket, ClientState
<1>6. /\ DOMAIN d.sockets = 1..n /\ DOMAIN d.auths = 1..n /\ DOMAIN c.sockets = 1..Len(c.sockets)
      /\ d.sockets[n] = "connecting" /\ d.auths[n] = << >> /\ n \in DOMAIN d.sockets
      /\ \A s \in DOMAIN d.sockets : s \in DOMAIN c.sockets \/ s = n
      /\ \A s \in DOMAIN c.sockets : d.sockets[s] = c.sockets[s] /\ d.auths[s] = c.auths[s]
  BY <1>1, <1>2, <1>3
<1>7. WellFormed(d)
  BY <1>3, <1>5, <1>6 DEF WellFormed
<1>8. n \in LiveIn(d)
  BY <1>6 DEF LiveIn
<1>9. ASSUME LiveIn(c) = {}, Authenticated(c) PROVE Single(d) /\ Authenticated(d)
  <2>1. \A s \in LiveIn(d) : s = n
    BY <1>6, <1>9 DEF LiveIn
  <2>2. Single(d)
    BY <1>3, <2>1 DEF Single
  <2>3. Authenticated(d)
    BY <1>6, <1>9 DEF Authenticated
  <2> QED
    BY <2>2, <2>3
<1> QED
  BY <1>3, <1>7, <1>8, <1>9

(* connect() either does nothing, creates a socket, or fails to.            *)
LEMMA ConnectKeeps ==
    ASSUME NEW c, WellFormed(c), NEW d \in connect(c)
    PROVE  /\ WellFormed(d)
           /\ Tidied(c) /\ c.timers = 0 /\ (\A s \in DOMAIN c.sockets : c.sockets[s] # "closing")
                => Tidied(d) /\ ~d.closedByUser /\ (LiveIn(d) # {} \/ d.threw)
<1>1. c \in ClientState
  BY DEF WellFormed
<1>2. CASE c.connecting \/ isConnected(c)
  <2>1. d = c
    BY <1>2 DEF connect
  <2>2. ASSUME Tidied(c), \A s \in DOMAIN c.sockets : c.sockets[s] # "closing"
        PROVE  LiveIn(c) # {} /\ ~c.closedByUser
    <3>1. CASE isConnected(c)
      BY <2>2, <3>1 DEF isConnected, WellFormed, LiveIn, Tidied
    <3>2. CASE c.connecting
      <4>1. PICK s \in LiveIn(c) : TRUE
        BY <2>2, <3>2 DEF Tidied, Attempting
      <4>2. s \in DOMAIN c.sockets /\ c.ws = s
        BY <2>2, <4>1 DEF LiveIn, Tidied, Single
      <4>3. s # None
        BY <4>2, ClientAssumption, FieldTypes, <1>1
      <4> QED
        BY <2>2, <4>1, <4>2, <4>3 DEF Tidied
    <3> QED
      BY <1>2, <3>1, <3>2
  <2> QED
    BY <2>1, <2>2
<1>3. CASE ~(c.connecting \/ isConnected(c))
  <2> DEFINE e == createWebSocket(c)
  <2>1. \/ d = [e EXCEPT !.connecting = TRUE, !.closedByUser = FALSE, !.threw = FALSE]
        \/ d = [c EXCEPT !.connecting = FALSE, !.closedByUser = FALSE, !.threw = TRUE]
    BY <1>3 DEF connect
  <2>2. ASSUME Tidied(c), \A s \in DOMAIN c.sockets : c.sockets[s] # "closing"
        PROVE  LiveIn(c) = {}
    <3> SUFFICES ASSUME NEW s \in LiveIn(c) PROVE FALSE
      OBVIOUS
    <3>1. s \in DOMAIN c.sockets /\ c.sockets[s] \in SocketState /\ c.sockets[s] # "closed"
      BY <1>1, FieldTypes DEF LiveIn
    <3>2. c.sockets[s] = "open" /\ c.ws = s
      BY <1>3, <2>2, <3>1 DEF SocketState, Tidied, Attempting, Single
    <3>3. s # None
      BY <1>1, <3>1, FieldTypes, ClientAssumption
    <3> QED
      BY <1>3, <3>2, <3>3 DEF isConnected
  <2>3. /\ WellFormed(e) /\ LiveIn(e) # {} /\ e.timers = c.timers
        /\ LiveIn(c) = {} /\ Authenticated(c) => Single(e) /\ Authenticated(e)
    BY Created
  <2>4. CASE d = [e EXCEPT !.connecting = TRUE, !.closedByUser = FALSE, !.threw = FALSE]
    <3> HIDE DEF e
    <3>1. /\ d.sockets = e.sockets /\ d.auths = e.auths /\ d.ws = e.ws /\ d.timers = e.timers
          /\ d.connecting = TRUE /\ d.closedByUser = FALSE
          /\ d \in ClientState
      BY <2>3, <2>4 DEF WellFormed, ClientState
    <3>2. WellFormed(d)
      BY <2>3, <3>1 DEF WellFormed
    <3>3. LiveIn(d) = LiveIn(e)
      BY <3>1, SameSocketsSameLive
    <3>4. Single(e) /\ Authenticated(e) => Single(d) /\ Authenticated(d)
      BY <3>1, <3>3 DEF Single, Authenticated
    <3>5. Attempting(d) /\ (c.timers = 0 => Timed(d))
      BY <2>3, <3>1, <3>3 DEF Attempting, Timed
    <3> QED
      BY <2>2, <2>3, <3>1, <3>2, <3>3, <3>4, <3>5 DEF Tidied
  <2>5. CASE d = [c EXCEPT !.connecting = FALSE, !.closedByUser = FALSE, !.threw = TRUE]
    <3>1. /\ d.sockets = c.sockets /\ d.auths = c.auths /\ d.ws = c.ws /\ d.timers = c.timers
          /\ d.connecting = FALSE /\ d.closedByUser = FALSE /\ d.threw = TRUE
          /\ d \in ClientState
      BY <1>1, <2>5 DEF ClientState
    <3>2. WellFormed(d)
      BY <3>1 DEF WellFormed
    <3>3. LiveIn(d) = LiveIn(c)
      BY <3>1, SameSocketsSameLive
    <3>4. ASSUME Tidied(c), LiveIn(c) = {} PROVE Tidied(d)
      <4>1. Single(d) /\ Timed(d) /\ Authenticated(d)
        BY <3>1, <3>3, <3>4 DEF Tidied, Single, Timed, Authenticated
      <4>2. Attempting(d)
        BY <3>1, <3>3, <3>4 DEF Attempting, LiveIn
      <4> QED
        BY <3>1, <4>1, <4>2 DEF Tidied
    <3> QED
      BY <2>2, <3>1, <3>2, <3>4
  <2> QED
    BY <2>1, <2>4, <2>5
<1> QED
  BY <1>2, <1>3
(* One socket changes its state.                                            *)
LEMMA Moved ==
    ASSUME NEW c, WellFormed(c), NEW s \in DOMAIN c.sockets, NEW st \in SocketState,
           NEW d, d = [c EXCEPT !.sockets[s] = st]
    PROVE  /\ WellFormed(d) /\ DOMAIN d.sockets = DOMAIN c.sockets
           /\ d.sockets[s] = st /\ \A t \in DOMAIN c.sockets : t # s => d.sockets[t] = c.sockets[t]
           /\ d.auths = c.auths /\ d.ws = c.ws /\ d.connecting = c.connecting
           /\ d.closedByUser = c.closedByUser /\ d.timers = c.timers /\ d.threw = c.threw
           /\ d.reconnectAttempts = c.reconnectAttempts
<1>1. c \in ClientState /\ c.sockets \in Seq(SocketState)
  BY FieldTypes DEF WellFormed
<1> DEFINE m == [c.sockets EXCEPT ![s] = st]
<1>2. m \in Seq(SocketState) /\ DOMAIN m = DOMAIN c.sockets
      /\ m[s] = st /\ \A t \in DOMAIN c.sockets : t # s => m[t] = c.sockets[t]
  BY <1>1
<1>3. d = [c EXCEPT !.sockets = m]
  BY <1>1 DEF ClientState
<1> HIDE DEF m
<1>4. /\ d \in ClientState /\ d.sockets = m
      /\ d.auths = c.auths /\ d.ws = c.ws /\ d.connecting = c.connecting
      /\ d.closedByUser = c.closedByUser /\ d.timers = c.timers /\ d.threw = c.threw
      /\ d.reconnectAttempts = c.reconnectAttempts
  BY <1>1, <1>2, <1>3 DEF ClientState
<1>5. WellFormed(d)
  BY <1>2, <1>4 DEF WellFormed
<1> QED
  BY <1>2, <1>4, <1>5

(* A socket that begins to close is still live.                             *)
LEMMA ClosingKeeps ==
    ASSUME NEW c, WellFormed(c), NEW s \in DOMAIN c.sockets, NEW d, d = Closing(c, s)
    PROVE  /\ WellFormed(d) /\ LiveIn(d) = LiveIn(c) /\ (Tidied(c) => Tidied(d))
           /\ DOMAIN d.sockets = DOMAIN c.sockets /\ d.sockets[s] \in {"closing", "closed"}
           /\ \A t \in DOMAIN c.sockets : t # s => d.sockets[t] = c.sockets[t]
           /\ d.auths = c.auths /\ d.ws = c.ws /\ d.connecting = c.connecting
           /\ d.closedByUser = c.closedByUser /\ d.timers = c.timers /\ d.threw = c.threw
           /\ d.reconnectAttempts = c.reconnectAttempts
<1>1. c.sockets[s] \in SocketState
  BY FieldTypes DEF WellFormed
<1>2. CASE c.sockets[s] \in {"connecting", "open"}
  <2>1. d = [c EXCEPT !.sockets[s] = "closing"] /\ "closing" \in SocketState
    BY <1>2 DEF Closing, SocketState
  <2>2. /\ WellFormed(d) /\ DOMAIN d.sockets = DOMAIN c.sockets
        /\ d.sockets[s] = "closing"
        /\ \A t \in DOMAIN c.sockets : t # s => d.sockets[t] = c.sockets[t]
        /\ d.auths = c.auths /\ d.ws = c.ws /\ d.connecting = c.connecting
        /\ d.closedByUser = c.closedByUser /\ d.timers = c.timers /\ d.threw = c.threw
        /\ d.reconnectAttempts = c.reconnectAttempts
    BY <2>1, Moved
  <2>3. LiveIn(d) = LiveIn(c)
    BY <1>2, <2>2 DEF LiveIn
  <2>4. ASSUME Tidied(c) PROVE Tidied(d)
    <3>1. Single(d)
      BY <2>2, <2>3, <2>4 DEF Tidied, Single, LiveIn
    <3>2. Attempting(d)
      BY <2>2, <2>3, <2>4 DEF Tidied, Attempting
    <3>3. Timed(d)
      BY <2>2, <2>3, <2>4 DEF Tidied, Timed
    <3>4. Authenticated(d)
      BY <2>2, <2>4 DEF Tidied, Authenticated
    <3> QED
      BY <2>2, <2>4, <3>1, <3>2, <3>3, <3>4 DEF Tidied
  <2> QED
    BY <2>2, <2>3, <2>4
<1>3. CASE c.sockets[s] \in {"closing", "closed"}
  BY <1>3 DEF Closing
<1> QED
  BY <1>1, <1>2, <1>3 DEF SocketState

(* disconnect() lets go of the socket; what was true before stays so.       *)
LEMMA DisconnectKeeps ==
    ASSUME NEW c, WellFormed(c), NEW d, d = disconnect(c)
    PROVE  /\ WellFormed(d) /\ LiveIn(d) = LiveIn(c) /\ (Tidied(c) => Tidied(d))
           /\ (Authenticated(c) => Authenticated(d))
           /\ DOMAIN d.sockets = DOMAIN c.sockets
           /\ \A t \in DOMAIN c.sockets :
                 c.sockets[t] \in {"closing", "closed"} => d.sockets[t] = c.sockets[t]
           /\ \A t \in LiveIn(c) : c.ws = t => d.sockets[t] = "closing"
           /\ \A t \in DOMAIN c.sockets : c.ws # t => d.sockets[t] = c.sockets[t]
           /\ d.ws = None /\ d.closedByUser /\ d.auths = c.auths /\ d.timers = c.timers
<1> DEFINE b == [c EXCEPT !.closedByUser = TRUE]
<1>1. c \in ClientState /\ c.sockets \in Seq(SocketState)
  BY FieldTypes DEF WellFormed
<1>2. /\ b \in ClientState /\ b.sockets = c.sockets /\ b.auths = c.auths /\ b.ws = c.ws
      /\ b.connecting = c.connecting /\ b.closedByUser = TRUE /\ b.timers = c.timers
  BY <1>1 DEF ClientState
<1>3. /\ WellFormed(b) /\ LiveIn(b) = LiveIn(c)
      /\ (Attempting(c) => Attempting(b)) /\ (Timed(c) => Timed(b))
      /\ (Authenticated(c) => Authenticated(b)) /\ (Single(c) => Single(b))
  BY <1>2, SameSocketsSameLive DEF WellFormed, Attempting, Timed, Authenticated, Single
<1>4. d = IF b.ws = None THEN b ELSE [Closing(b, b.ws) EXCEPT !.ws = None]
  BY DEF disconnect
<1> HIDE DEF b
<1>5. CASE c.ws = None
  <2>1. d = b
    BY <1>2, <1>4, <1>5
  <2>2. \A t \in LiveIn(c) : c.ws # t
    BY <1>1, <1>5, ClientAssumption DEF LiveIn
  <2>3. Tidied(c) => Tidied(b)
    BY <1>2, <1>3, <1>5 DEF Tidied
  <2> QED
    BY <1>2, <1>3, <1>5, <2>1, <2>2, <2>3
<1>6. CASE c.ws # None
  <2> DEFINE e == Closing(b, b.ws)
             s == c.ws
  <2>1. d = [e EXCEPT !.ws = None] /\ s \in DOMAIN b.sockets
    BY <1>2, <1>4, <1>6 DEF WellFormed
  <2>2. /\ WellFormed(e) /\ LiveIn(e) = LiveIn(c)
        /\ DOMAIN e.sockets = DOMAIN c.sockets /\ e.sockets[s] \in {"closing", "closed"}
        /\ \A t \in DOMAIN c.sockets : t # s => e.sockets[t] = c.sockets[t]
        /\ e.auths = c.auths /\ e.ws = s /\ e.connecting = c.connecting
        /\ e.closedByUser = TRUE /\ e.timers = c.timers
    BY <1>2, <1>3, <2>1, ClosingKeeps
  <2>3. \A t \in DOMAIN c.sockets :
           c.sockets[t] \in {"closing", "closed"} => e.sockets[t] = c.sockets[t]
    BY <1>2, <2>1, <2>2 DEF Closing
  <2> HIDE DEF e
  <2>4. /\ d \in ClientState /\ d.sockets = e.sockets /\ d.auths = c.auths /\ d.ws = None
        /\ d.connecting = c.connecting /\ d.closedByUser = TRUE /\ d.timers = c.timers
    BY <2>1, <2>2 DEF WellFormed, ClientState
  <2>5. WellFormed(d) /\ LiveIn(d) = LiveIn(c)
    BY <2>2, <2>4, SameSocketsSameLive DEF WellFormed
  <2>6. \A t \in LiveIn(c) : c.ws = t => d.sockets[t] = "closing"
    BY <2>2, <2>4, <2>5 DEF LiveIn
  <2>7. Authenticated(c) => Authenticated(d)
    BY <2>2, <2>4 DEF Authenticated
  <2>8. ASSUME Tidied(c) PROVE Tidied(d)
    <3>1. Single(d)
      <4> SUFFICES ASSUME NEW t \in LiveIn(c)
                   PROVE  (\A u \in LiveIn(c) : t = u) /\ d.sockets[t] = "closing"
        BY <2>5 DEF Single
      <4>1. \A u \in LiveIn(c) : t = u
        BY <2>8 DEF Tidied, Single
      <4>2. CASE c.sockets[t] = "closing"
        BY <2>3, <2>4, <4>1, <4>2 DEF LiveIn
      <4>3. CASE c.ws = t
        BY <2>6, <4>1, <4>3
      <4> QED
        BY <2>8, <4>1, <4>2, <4>3 DEF Tidied, Single
    <3>2. Attempting(d)
      BY <2>2, <2>4, <2>5, <2>8 DEF Tidied, Attempting
    <3>3. Timed(d)
      BY <2>4, <2>5, <2>8 DEF Tidied, Timed
    <3>4. Authenticated(d)
      BY <2>8, <2>7 DEF Tidied
    <3> QED
      BY <2>4, <3>1, <3>2, <3>3, <3>4 DEF Tidied
  <2> QED
    BY <2>2, <2>3, <2>4, <2>5, <2>6, <2>8, <2>7
<1> QED
  BY <1>5, <1>6
(* The end of a reconnection attempt or of a connection: the socket is      *)
(* forgotten and a timer may be started, if attempts are left.              *)
LEMMA OnCloseKeeps ==
    ASSUME NEW c, WellFormed(c), NEW d, d = onClose(c)
    PROVE  /\ WellFormed(d) /\ LiveIn(d) = LiveIn(c)
           /\ c.timers = 0 /\ LiveIn(c) = {} /\ Authenticated(c) => Tidied(d)
           /\ d.closedByUser = c.closedByUser
           /\ ~c.closedByUser /\ autoReconnect =>
                 d.timers > 0 \/ d.reconnectAttempts = maxReconnectAttempts
<1> DEFINE b == [c EXCEPT !.ws = None, !.connecting = FALSE]
<1>1. c \in ClientState /\ maxReconnectAttempts \in Nat
  BY ClientAssumption DEF WellFormed
<1>2. /\ b \in ClientState /\ b.sockets = c.sockets /\ b.auths = c.auths /\ b.ws = None
      /\ b.connecting = FALSE /\ b.closedByUser = c.closedByUser /\ b.timers = c.timers
  BY <1>1 DEF ClientState
<1>3. d = IF ~b.closedByUser /\ autoReconnect THEN scheduleReconnect(b) ELSE b
  BY DEF onClose
<1> HIDE DEF b
<1>4. /\ d \in ClientState /\ d.sockets = c.sockets /\ d.auths = c.auths /\ d.ws = None
      /\ d.connecting = FALSE /\ d.closedByUser = c.closedByUser
      /\ d.timers = c.timers \/ d.timers = c.timers + 1
      /\ ~c.closedByUser /\ autoReconnect =>
            d.timers > 0 \/ d.reconnectAttempts = maxReconnectAttempts
  <2>1. b.reconnectAttempts \in 0..maxReconnectAttempts /\ b.timers \in Nat
    BY <1>2, FieldTypes
  <2>2. CASE d = b /\ (~c.closedByUser /\ autoReconnect =>
                            b.reconnectAttempts >= maxReconnectAttempts)
    <3>1. ~c.closedByUser /\ autoReconnect => d.reconnectAttempts = maxReconnectAttempts
      BY <1>1, <2>1, <2>2
    <3> QED
      BY <1>2, <2>2, <3>1
  <2>3. CASE d = [b EXCEPT !.reconnectAttempts = @ + 1, !.timers = @ + 1]
             /\ b.reconnectAttempts < maxReconnectAttempts
    <3>1. b.reconnectAttempts + 1 \in 0..maxReconnectAttempts /\ b.timers + 1 \in Nat
      BY <1>1, <2>1, <2>3
    <3>2. /\ d \in ClientState /\ d.sockets = b.sockets /\ d.auths = b.auths /\ d.ws = b.ws
          /\ d.connecting = b.connecting /\ d.closedByUser = b.closedByUser
          /\ d.timers = b.timers + 1
      BY <1>2, <2>3, <3>1 DEF ClientState
    <3> QED
      BY <1>2, <2>1, <3>2
  <2>4. CASE b.reconnectAttempts >= maxReconnectAttempts
    <3>1. d = b
      BY <1>3, <2>4 DEF scheduleReconnect
    <3> QED
      BY <2>2, <2>4, <3>1
  <2>5. CASE ~(b.reconnectAttempts >= maxReconnectAttempts)
    <3>1. b.reconnectAttempts < maxReconnectAttempts
      BY <1>1, <2>1, <2>5
    <3>2. CASE ~c.closedByUser /\ autoReconnect
      <4>1. d = [b EXCEPT !.reconnectAttempts = @ + 1, !.timers = @ + 1]
        BY <1>2, <1>3, <2>5, <3>2 DEF scheduleReconnect
      <4> QED
        BY <2>3, <3>1, <4>1
    <3>3. CASE ~(~c.closedByUser /\ autoReconnect)
      BY <1>2, <1>3, <2>2, <3>3
    <3> QED
      BY <3>2, <3>3
  <2> QED
    BY <2>4, <2>5
<1>5. WellFormed(d) /\ LiveIn(d) = LiveIn(c)
  BY <1>4, SameSocketsSameLive DEF WellFormed
<1>6. ASSUME c.timers = 0, LiveIn(c) = {}, Authenticated(c) PROVE Tidied(d)
  <2>1. Single(d) /\ Timed(d)
    BY <1>4, <1>5, <1>6 DEF Single, Timed
  <2>2. Attempting(d)
    BY <1>4, <1>5, <1>6 DEF Attempting, LiveIn
  <2>3. Authenticated(d)
    BY <1>4, <1>6 DEF Authenticated
  <2> QED
    BY <1>4, <2>1, <2>2, <2>3 DEF Tidied
<1> QED
  BY <1>4, <1>5, <1>6

(* The open handler authenticates: the socket that opened is this.ws.       *)
LEMMA OnOpenKeeps ==
    ASSUME NEW c, WellFormed(c), NEW s \in DOMAIN c.sockets, c.sockets[s] = "connecting",
           NEW d, d = onOpen(c, s)
    PROVE  /\ WellFormed(d) /\ LiveIn(d) = LiveIn(c)
           /\ d.closedByUser = c.closedByUser
           /\ Tidied(c) => Tidied(d)
<1> DEFINE b == [c EXCEPT !.sockets[s] = "open"]
           e == [b EXCEPT !.connecting = FALSE, !.reconnectAttempts = 0]
<1>1. c \in ClientState /\ 0 \in 0..maxReconnectAttempts /\ "open" \in SocketState
  BY ClientAssumption DEF WellFormed, SocketState
<1>2. /\ WellFormed(b) /\ DOMAIN b.sockets = DOMAIN c.sockets
      /\ b.sockets[s] = "open" /\ \A t \in DOMAIN c.sockets : t # s => b.sockets[t] = c.sockets[t]
      /\ b.auths = c.auths /\ b.ws = c.ws
      /\ b.closedByUser = c.closedByUser /\ b.timers = c.timers
  BY <1>1, Moved
<1>3. e = [c EXCEPT !.sockets[s] = "open", !.connecting = FALSE, !.reconnectAttempts = 0]
  BY <1>1 DEF ClientState
<1>4. d = sendAuth(e)
  BY <1>3 DEF onOpen
<1> HIDE DEF b
<1>5. /\ e \in ClientState /\ e.sockets = b.sockets /\ e.auths = c.auths /\ e.ws = c.ws
      /\ e.connecting = FALSE /\ e.closedByUser = c.closedByUser /\ e.timers = c.timers
  BY <1>1, <1>2 DEF WellFormed, ClientState
<1> HIDE DEF e
<1>6. d = IF isConnected(e) THEN [e EXCEPT !.auths[e.ws] = Append(@, e.lastSeenCounter)] ELSE e
  BY <1>4 DEF sendAuth
<1> DEFINE a == [e.auths EXCEPT ![e.ws] = Append(@, e.lastSeenCounter)]
<1>7. CASE ~isConnected(e)
  <2>1. d = e
    BY <1>6, <1>7
  <2>2. WellFormed(d)
    BY <1>2, <1>5, <2>1 DEF WellFormed
  <2>3. LiveIn(d) = LiveIn(c)
    BY <1>2, <1>5, <2>1 DEF LiveIn
  <2>4. ~Tidied(c)
    <3> SUFFICES ASSUME Tidied(c) PROVE FALSE
      OBVIOUS
    <3>1. s \in LiveIn(c) /\ c.ws = s
      BY DEF LiveIn, Tidied, Single
    <3>2. s # None
      BY <1>1, FieldTypes, ClientAssumption
    <3> QED
      BY <1>2, <1>5, <1>7, <3>1, <3>2 DEF isConnected
  <2> QED
    BY <1>5, <2>1, <2>2, <2>3, <2>4
<1>8. CASE isConnected(e)
  <2>1. e.ws \in DOMAIN e.auths /\ e.auths \in Seq(Seq(Counters \cup {None}))
        /\ e.lastSeenCounter \in Counters \cup {None}
    BY <1>2, <1>5, <1>8, FieldTypes DEF isConnected, WellFormed
  <2>2. e.auths[e.ws] \in Seq(Counters \cup {None})
    BY <2>1
  <2>3. Append(e.auths[e.ws], e.lastSeenCounter) \in Seq(Counters \cup {None})
    BY <2>1, <2>2
  <2>4. /\ a \in Seq(Seq(Counters \cup {None})) /\ DOMAIN a = DOMAIN e.auths
        /\ a[e.ws] = Append(e.auths[e.ws], e.lastSeenCounter)
        /\ \A t \in DOMAIN e.auths : t # e.ws => a[t] = e.auths[t]
    BY <2>1, <2>3
  <2>5. d = [e EXCEPT !.auths = a]
    BY <1>5, <1>6, <1>8 DEF ClientState
  <2> HIDE DEF a
  <2>6. /\ d \in ClientState /\ d.sockets = b.sockets /\ d.auths = a /\ d.ws = c.ws
        /\ d.connecting = FALSE /\ d.closedByUser = c.closedByUser /\ d.timers = c.timers
    BY <1>5, <2>4, <2>5 DEF ClientState
  <2>7. WellFormed(d)
    BY <1>2, <1>5, <2>4, <2>6 DEF WellFormed
  <2>8. LiveIn(d) = LiveIn(c)
    BY <1>2, <2>6 DEF LiveIn
  <2>9. ASSUME Tidied(c) PROVE Tidied(d)
    <3>1. s \in LiveIn(c) /\ c.ws = s /\ c.auths[s] = << >>
      BY <2>9 DEF LiveIn, Tidied, Single, Authenticated
    <3>2. Single(d)
      BY <1>2, <2>6, <2>8, <2>9, <3>1 DEF Tidied, Single
    <3>3. Attempting(d)
      <4>1. \A t \in DOMAIN c.sockets : t # s => c.sockets[t] = "closed"
        BY <2>9, <3>1 DEF Tidied, Single, LiveIn
      <4> QED
        BY <1>2, <2>6, <4>1 DEF Attempting
    <3>4. Timed(d)
      BY <2>6, <2>8, <2>9 DEF Tidied, Timed
    <3>5. Authenticated(d)
      <4>1. a[s] = Append(<< >>, e.lastSeenCounter)
        BY <1>5, <2>4, <3>1
      <4>2. Len(a[s]) = 1
        BY <4>1
      <4>3. \A t \in DOMAIN c.sockets : t # s => a[t] = c.auths[t]
        BY <1>2, <1>5, <2>4, <3>1 DEF WellFormed
      <4> QED
        BY <1>2, <2>6, <2>9, <4>2, <4>3 DEF Tidied, Authenticated
    <3> QED
      BY <2>6, <2>9, <3>2, <3>3, <3>4, <3>5 DEF Tidied
  <2> QED
    BY <2>6, <2>7, <2>8, <2>9
<1> QED
  BY <1>7, <1>8
-----------------------------------------------------------------------------
(* One lemma per action.                                                    *)

LEMMA LiveIsLiveIn == Live = LiveIn(client)
  BY DEF Live, LiveIn

LEMMA CallConnectKeeps == CInv /\ CallConnect => CInv'
<1> SUFFICES ASSUME CInv, CallConnect PROVE CInv'
  OBVIOUS
<1>1. client' \in connect(client) /\ wanted' = TRUE /\ tidy' = (tidy /\ Calm)
  BY DEF CallConnect
<1>2. WellFormed(client')
  BY <1>1, ConnectKeeps DEF CInv
<1>3. ASSUME tidy' PROVE Tidied(client') /\ ~client'.closedByUser /\ NotStranded'
  <2>1. /\ Tidied(client) /\ client.timers = 0
        /\ \A s \in DOMAIN client.sockets : client.sockets[s] # "closing"
    BY <1>1, <1>3 DEF CInv, Calm
  <2>2. Tidied(client') /\ ~client'.closedByUser /\ (LiveIn(client') # {} \/ client'.threw)
    BY <1>1, <2>1, ConnectKeeps DEF CInv
  <2> QED
    BY <2>2 DEF NotStranded, Live, LiveIn
<1> QED
  BY <1>1, <1>2, <1>3 DEF CInv

LEMMA CallDisconnectKeeps == CInv /\ CallDisconnect => CInv'
<1> SUFFICES ASSUME CInv, CallDisconnect PROVE CInv'
  OBVIOUS
<1>1. client' = disconnect(client) /\ wanted' = FALSE /\ tidy' = tidy
  BY DEF CallDisconnect
<1>2. WellFormed(client') /\ (Tidied(client) => Tidied(client'))
  BY <1>1, DisconnectKeeps DEF CInv
<1> QED
  BY <1>1, <1>2 DEF CInv, NotStranded

LEMMA TimerFiresKeeps == CInv /\ TimerFires => CInv'
<1> SUFFICES ASSUME CInv, TimerFires PROVE CInv'
  OBVIOUS
<1> DEFINE c == [client EXCEPT !.timers = @ - 1]
<1>1. /\ client.timers > 0 /\ wanted' = wanted /\ tidy' = tidy
      /\ IF c.closedByUser THEN client' = c ELSE client' \in connect(c)
  BY DEF TimerFires
<1>2. client \in ClientState /\ client.timers \in Nat
  BY FieldTypes DEF CInv, WellFormed
<1>3. client.timers - 1 \in Nat
  BY <1>1, <1>2
<1>4. /\ c \in ClientState /\ c.timers = client.timers - 1
      /\ c.sockets = client.sockets /\ c.auths = client.auths /\ c.ws = client.ws
      /\ c.connecting = client.connecting /\ c.closedByUser = client.closedByUser
      /\ c.reconnectAttempts = client.reconnectAttempts /\ c.threw = client.threw
  BY <1>2, <1>3 DEF ClientState
<1> HIDE DEF c
<1>5. WellFormed(c) /\ LiveIn(c) = LiveIn(client)
  BY <1>4, SameSocketsSameLive DEF CInv, WellFormed
<1>6. ASSUME tidy
      PROVE  /\ Tidied(c) /\ c.timers = 0 /\ LiveIn(c) = {}
             /\ \A s \in DOMAIN c.sockets : c.sockets[s] # "closing"
  <2>1. Tidied(client)
    BY <1>6 DEF CInv
  <2>2. client.timers <= 1 /\ LiveIn(client) = {}
    BY <1>1, <2>1 DEF Tidied, Timed
  <2>3. c.timers = 0
    BY <1>1, <1>2, <1>4, <2>2
  <2>4. Single(c) /\ Timed(c)
    BY <1>5, <2>2, <2>3 DEF Single, Timed
  <2>5. Attempting(c) /\ Authenticated(c) /\ (c.closedByUser => c.ws = None)
    BY <1>4, <1>5, <2>1 DEF Tidied, Attempting, Authenticated
  <2> QED
    BY <1>5, <2>2, <2>3, <2>4, <2>5 DEF Tidied, LiveIn
<1>7. CASE c.closedByUser
  <2>1. client' = c
    BY <1>1, <1>7
  <2>2. tidy => ~wanted
    BY <1>4, <1>7 DEF CInv
  <2> QED
    BY <1>1, <1>5, <1>6, <2>1, <2>2 DEF CInv, NotStranded
<1>8. CASE ~c.closedByUser
  <2>1. client' \in connect(c)
    BY <1>1, <1>8
  <2>2. WellFormed(client')
    BY <1>5, <2>1, ConnectKeeps
  <2>3. ASSUME tidy
        PROVE  Tidied(client') /\ ~client'.closedByUser /\ (LiveIn(client') # {} \/ client'.threw)
    BY <1>5, <1>6, <2>1, <2>3, ConnectKeeps
  <2> QED
    BY <1>1, <2>2, <2>3 DEF CInv, NotStranded, Live, LiveIn
<1> QED
  BY <1>7, <1>8

LEMMA OpenEventKeeps ==
    ASSUME CInv, NEW s \in DOMAIN client.sockets, OpenEvent(s)
    PROVE  CInv'
<1>1. /\ client.sockets[s] = "connecting" /\ client' = onOpen(client, s)
      /\ wanted' = wanted /\ tidy' = tidy
  BY DEF OpenEvent
<1>2. /\ WellFormed(client') /\ LiveIn(client') = LiveIn(client)
      /\ client'.closedByUser = client.closedByUser
      /\ Tidied(client) => Tidied(client')
  BY <1>1, OnOpenKeeps DEF CInv
<1>3. s \in LiveIn(client')
  BY <1>1, <1>2 DEF LiveIn
<1>4. NotStranded'
  BY <1>3 DEF NotStranded, Live, LiveIn
<1> QED
  BY <1>1, <1>2, <1>4 DEF CInv

LEMMA LoseKeeps ==
    ASSUME CInv, NEW s \in DOMAIN client.sockets, Lose(s)
    PROVE  CInv'
<1>1. /\ client' = Closing(client, s) /\ wanted' = wanted /\ tidy' = tidy
      /\ client.sockets[s] \in {"connecting", "open"}
  BY DEF Lose
<1>2. /\ WellFormed(client') /\ LiveIn(client') = LiveIn(client)
      /\ client'.closedByUser = client.closedByUser
      /\ Tidied(client) => Tidied(client')
  BY <1>1, ClosingKeeps DEF CInv
<1>3. s \in LiveIn(client')
  BY <1>1, <1>2 DEF LiveIn
<1>4. NotStranded'
  BY <1>3 DEF NotStranded, Live, LiveIn
<1> QED
  BY <1>1, <1>2, <1>4 DEF CInv

LEMMA MessageEventKeeps ==
    ASSUME CInv, NEW s \in DOMAIN client.sockets, NEW n \in Counters, MessageEvent(s, n)
    PROVE  CInv'
<1>1. /\ client' = [client EXCEPT !.lastSeenCounter = n] /\ wanted' = wanted /\ tidy' = tidy
      /\ client \in ClientState
  BY DEF MessageEvent, CInv, WellFormed
<1>2. /\ client' \in ClientState
      /\ client'.sockets = client.sockets /\ client'.auths = client.auths
      /\ client'.ws = client.ws /\ client'.connecting = client.connecting
      /\ client'.closedByUser = client.closedByUser /\ client'.timers = client.timers
      /\ client'.reconnectAttempts = client.reconnectAttempts /\ client'.threw = client.threw
  BY <1>1 DEF ClientState
<1>3. WellFormed(client') /\ LiveIn(client') = LiveIn(client)
  BY <1>2, SameSocketsSameLive DEF CInv, WellFormed
<1>4. Tidied(client) => Tidied(client')
  BY <1>2, <1>3 DEF Tidied, Single, Attempting, Timed, Authenticated
<1>5. NotStranded => NotStranded'
  BY <1>1, <1>2 DEF NotStranded, Live
<1> QED
  BY <1>1, <1>2, <1>3, <1>4, <1>5 DEF CInv

LEMMA CloseEventKeeps ==
    ASSUME CInv, NEW s \in DOMAIN client.sockets, CloseEvent(s)
    PROVE  CInv'
<1> DEFINE c == [client EXCEPT !.sockets[s] = "closed"]
<1>1. /\ client.sockets[s] = "closing"
      /\ \/ client' = onClose(c) /\ wanted' = wanted /\ tidy' = tidy
         \/ client' = onClose(disconnect(c)) /\ wanted' = FALSE /\ tidy' = tidy
         \/ /\ client' \in {onClose(d) : d \in connect(c)}
            /\ wanted' = TRUE /\ tidy' = FALSE
  BY DEF CloseEvent
<1>2. /\ WellFormed(c) /\ DOMAIN c.sockets = DOMAIN client.sockets
      /\ c.sockets[s] = "closed"
      /\ \A t \in DOMAIN client.sockets : t # s => c.sockets[t] = client.sockets[t]
      /\ c.auths = client.auths /\ c.closedByUser = client.closedByUser
      /\ c.timers = client.timers
  BY Moved DEF CInv, SocketState
<1> HIDE DEF c
<1>3. ASSUME tidy PROVE c.timers = 0 /\ LiveIn(c) = {} /\ Authenticated(c)
  <2>1. Tidied(client) /\ s \in LiveIn(client)
    BY <1>1, <1>3 DEF CInv, LiveIn
  <2>2. c.timers = 0
    BY <1>2, <2>1, FieldTypes DEF Tidied, Timed, CInv, WellFormed
  <2>3. LiveIn(c) = {}
    BY <1>2, <2>1 DEF Tidied, Single, LiveIn
  <2>4. Authenticated(c)
    BY <1>2, <2>1 DEF Tidied, Authenticated
  <2> QED
    BY <2>2, <2>3, <2>4
<1>4. CASE client' = onClose(c) /\ wanted' = wanted /\ tidy' = tidy
  <2>1. /\ WellFormed(client') /\ client'.closedByUser = c.closedByUser
        /\ tidy => Tidied(client')
        /\ ~c.closedByUser /\ autoReconnect =>
              client'.timers > 0 \/ client'.reconnectAttempts = maxReconnectAttempts
    BY <1>2, <1>3, <1>4, OnCloseKeeps
  <2>2. tidy /\ wanted => ~c.closedByUser
    BY <1>2 DEF CInv
  <2> QED
    BY <1>2, <1>4, <2>1, <2>2 DEF CInv, NotStranded
<1>5. CASE client' = onClose(disconnect(c)) /\ wanted' = FALSE /\ tidy' = tidy
  <2> DEFINE d == disconnect(c)
  <2>1. /\ WellFormed(d) /\ LiveIn(d) = LiveIn(c) /\ d.timers = c.timers
        /\ Authenticated(c) => Authenticated(d)
    BY <1>2, DisconnectKeeps
  <2> HIDE DEF d
  <2>2. WellFormed(client') /\ (tidy => Tidied(client'))
    <3>1. client' = onClose(d)
      BY <1>5 DEF d
    <3> QED
      BY <1>3, <2>1, <3>1, OnCloseKeeps
  <2> QED
    BY <1>5, <2>2 DEF CInv, NotStranded
<1>6. CASE /\ client' \in {onClose(d) : d \in connect(c)}
           /\ wanted' = TRUE /\ tidy' = FALSE
  <2>1. PICK d \in connect(c) : client' = onClose(d)
    BY <1>6
  <2>2. WellFormed(client')
    BY <1>2, <2>1, ConnectKeeps, OnCloseKeeps
  <2> QED
    BY <1>6, <2>2 DEF CInv
<1> QED
  BY <1>1, <1>4, <1>5, <1>6

-----------------------------------------------------------------------------
LEMMA InitCInv == ClientInit => CInv
<1> SUFFICES ASSUME ClientInit PROVE CInv
  OBVIOUS
<1>1. client \in ClientState /\ client.sockets = << >> /\ client.auths = << >>
      /\ client.ws = None /\ client.connecting = FALSE /\ client.timers = 0
      /\ wanted = FALSE /\ tidy = TRUE
  BY ClientAssumption DEF ClientInit, ClientState
<1>2. WellFormed(client) /\ LiveIn(client) = {}
  BY <1>1 DEF WellFormed, LiveIn
<1>3. Tidied(client)
  BY <1>1, <1>2 DEF Tidied, Single, Attempting, Timed, Authenticated
<1> QED
  BY <1>1, <1>2, <1>3 DEF CInv, NotStranded

LEMMA NextKeepsCInv == CInv /\ [ClientNext]_clientVars => CInv'
<1>1. CInv /\ UNCHANGED clientVars => CInv'
  BY DEF clientVars, CInv, NotStranded, Live
<1>2. ASSUME CInv, NEW s \in DOMAIN client.sockets, SocketEvent(s) PROVE CInv'
  BY <1>2, OpenEventKeeps, LoseKeeps, CloseEventKeeps, MessageEventKeeps DEF SocketEvent
<1> QED
  BY <1>1, <1>2, CallConnectKeeps, CallDisconnectKeeps, TimerFiresKeeps DEF ClientNext

LEMMA CInvAlways == ClientSpec => []CInv
  BY InitCInv, NextKeepsCInv, PTL DEF ClientSpec

(* The client's fields always fit its sockets: this.ws, when set, is one of *)
(* them, and no more attempts are counted than configured.                  *)
THEOREM ClientTypeCorrect == ClientSpec => []ClientTypeOK
<1>1. CInv => ClientTypeOK
  BY DEF CInv, WellFormed, ClientTypeOK
<1> QED
  BY <1>1, CInvAlways, PTL

(* An application that waits for quiet before it connects again never has   *)
(* two connections, and the client holds the one it has until it closes.    *)
THEOREM OneSocketOnly == ClientSpec => []OneSocket
<1>1. CInv => OneSocket
  <2> SUFFICES ASSUME CInv, tidy
               PROVE  /\ Cardinality(Live) <= 1
                      /\ \A s \in Live : client.sockets[s] # "closing" => client.ws = s
    BY DEF OneSocket
  <2>1. Single(client)
    BY DEF CInv, Tidied
  <2>2. CASE Live = {}
    BY <2>2, FS_EmptySet
  <2>3. CASE Live # {}
    <3>1. PICK s \in Live : TRUE
      BY <2>3
    <3>2. Live = {s}
      BY <2>1, <3>1, LiveIsLiveIn DEF Single
    <3>3. Cardinality(Live) = 1
      BY <3>2, FS_Singleton
    <3> QED
      BY <2>1, <3>3, LiveIsLiveIn DEF Single
  <2> QED
    BY <2>2, <2>3
<1> QED
  BY <1>1, CInvAlways, PTL

(* The open handler, which sends to this.ws, authenticates every connection *)
(* of such an application exactly once.                                     *)
THEOREM AuthenticatesOnce == ClientSpec => []AuthenticatedOnce
<1>1. CInv => AuthenticatedOnce
  BY DEF CInv, Tidied, Authenticated, AuthenticatedOnce
<1> QED
  BY <1>1, CInvAlways, PTL

(* Such an application is never left without a connection, an attempt or a  *)
(* timer while attempts are left.                                           *)
THEOREM NeverStranded == ClientSpec => []NotStranded
<1>1. CInv => NotStranded
  BY DEF CInv, NotStranded
<1> QED
  BY <1>1, CInvAlways, PTL

-----------------------------------------------------------------------------
(* After disconnect().                                                      *)

\* A client that is not wanted knows it, or has not been used yet.
ToldToStop ==
    wanted \/ client.closedByUser \/ (client.timers = 0 /\ client.sockets = << >>)

\* What d may not have that c has not: sockets, timers, a fresh start.
NothingNew(c, d) ==
    DOMAIN d.sockets = DOMAIN c.sockets /\ d.timers <= c.timers /\ d.closedByUser

LEMMA OpensNothingNew ==
    ASSUME CInv, NEW s \in DOMAIN client.sockets, client.closedByUser, OpenEvent(s)
    PROVE  NothingNew(client, client')
<1> DEFINE b == [client EXCEPT !.sockets[s] = "open"]
           e == [client EXCEPT !.sockets[s] = "open", !.connecting = FALSE, !.reconnectAttempts = 0]
<1>1. client \in ClientState /\ client' = sendAuth(e) /\ client.timers \in Nat
  BY FieldTypes DEF CInv, WellFormed, OpenEvent, onOpen
<1>2. DOMAIN e.sockets = DOMAIN client.sockets /\ e.timers = client.timers
      /\ e.closedByUser = client.closedByUser /\ DOMAIN e = DOMAIN client
  BY <1>1 DEF ClientState
<1>3. /\ "auths" \in DOMAIN e
      /\ \A x : LET d == [e EXCEPT !.auths = x]
                IN  d.sockets = e.sockets /\ d.timers = e.timers /\ d.closedByUser = e.closedByUser
  BY <1>1 DEF ClientState
<1> HIDE DEF e
<1>4. /\ client'.sockets = e.sockets /\ client'.timers = e.timers
      /\ client'.closedByUser = e.closedByUser
  BY <1>1, <1>3 DEF sendAuth
<1> QED
  BY <1>1, <1>2, <1>4 DEF NothingNew

LEMMA ClosesNothingNew ==
    ASSUME NEW c, WellFormed(c), c.closedByUser
    PROVE  NothingNew(c, onClose(c))
<1> DEFINE b == [c EXCEPT !.ws = None, !.connecting = FALSE]
<1>1. c \in ClientState /\ c.timers \in Nat
  BY FieldTypes DEF WellFormed
<1>2. b.sockets = c.sockets /\ b.timers = c.timers /\ b.closedByUser = c.closedByUser
  BY <1>1 DEF ClientState
<1>3. onClose(c) = IF ~b.closedByUser /\ autoReconnect THEN scheduleReconnect(b) ELSE b
  BY DEF onClose
<1> HIDE DEF b
<1>4. onClose(c) = b
  BY <1>2, <1>3, Zenon
<1>5. NothingNew(c, b)
  <2>1. b.timers <= c.timers
    BY <1>1, <1>2
  <2> QED
    BY <1>2, <2>1 DEF NothingNew
<1> QED
  BY <1>4, <1>5

LEMMA StaysToldToStop ==
    ASSUME CInv, ToldToStop, [ClientNext]_clientVars, ~wanted'
    PROVE  ToldToStop' /\ (~wanted => DOMAIN client'.sockets = DOMAIN client.sockets
                                      /\ client'.timers <= client.timers)
<1>0. /\ WellFormed(client) /\ client \in ClientState /\ client.timers \in Nat
      /\ client.sockets \in Seq(SocketState)
  BY FieldTypes DEF CInv, WellFormed
<1>1. CASE NothingNew(client, client')
  BY <1>1 DEF NothingNew, ToldToStop
<1>2. CASE CallDisconnect
  <2>1. NothingNew(client, client')
    BY <1>0, <1>2, DisconnectKeeps DEF CallDisconnect, NothingNew
  <2> QED
    BY <1>1, <2>1
<1>3. CASE CallConnect
  BY <1>3 DEF CallConnect
<1>4. CASE TimerFires
  <2> DEFINE c == [client EXCEPT !.timers = @ - 1]
  <2>1. ~wanted /\ client.timers > 0
    BY <1>4 DEF TimerFires
  <2>2. client.closedByUser
    BY <1>0, <2>1 DEF ToldToStop
  <2>3. c.sockets = client.sockets /\ c.timers = client.timers - 1 /\ c.closedByUser
    BY <1>0, <2>2 DEF ClientState
  <2>4. client' = c
    BY <1>4, <2>3 DEF TimerFires
  <2> HIDE DEF c
  <2>5. NothingNew(client, client')
    BY <1>0, <2>3, <2>4 DEF NothingNew
  <2> QED
    BY <1>1, <2>5
<1>5. ASSUME NEW s \in DOMAIN client.sockets, SocketEvent(s)
      PROVE  \/ NothingNew(client, client')
             \/ wanted
  <2> SUFFICES ASSUME ~wanted PROVE NothingNew(client, client')
    OBVIOUS
  <2>1. client.closedByUser
    BY <1>0 DEF ToldToStop
  <2>2. CASE OpenEvent(s)
    BY <2>1, <2>2, OpensNothingNew
  <2>3. CASE Lose(s)
    BY <1>0, <2>1, <2>3, ClosingKeeps DEF Lose, NothingNew
  <2>4. CASE CloseEvent(s)
    <3> DEFINE c == [client EXCEPT !.sockets[s] = "closed"]
    <3>1. client' = onClose(c) \/ client' = onClose(disconnect(c))
      BY <2>4 DEF CloseEvent
    <3>2. WellFormed(c) /\ NothingNew(client, c)
      BY <1>0, <2>1, Moved DEF SocketState, NothingNew
    <3> HIDE DEF c
    <3>3. WellFormed(disconnect(c)) /\ NothingNew(client, disconnect(c))
      BY <3>2, DisconnectKeeps DEF NothingNew
    <3>4. NothingNew(c, onClose(c)) /\ NothingNew(disconnect(c), onClose(disconnect(c)))
      BY <3>2, <3>3, ClosesNothingNew DEF NothingNew
    <3>5. \A d, e : NothingNew(client, d) /\ WellFormed(d) /\ WellFormed(e) /\ NothingNew(d, e)
                      => NothingNew(client, e)
      <4> SUFFICES ASSUME NEW d, NEW e, WellFormed(d), WellFormed(e),
                          NothingNew(client, d), NothingNew(d, e)
                   PROVE  NothingNew(client, e)
        OBVIOUS
      <4>1. client.timers \in Nat /\ d.timers \in Nat /\ e.timers \in Nat
        BY <1>0, FieldTypes DEF WellFormed
      <4> QED
        BY <4>1 DEF NothingNew
    <3>6. WellFormed(onClose(c)) /\ WellFormed(onClose(disconnect(c)))
      BY <3>2, <3>3, OnCloseKeeps
    <3> QED
      BY <3>1, <3>2, <3>3, <3>4, <3>5, <3>6
  <2>5. ASSUME NEW n \in Counters, MessageEvent(s, n) PROVE NothingNew(client, client')
    BY <1>0, <2>1, <2>5 DEF MessageEvent, ClientState, NothingNew
  <2> QED
    BY <1>5, <2>2, <2>3, <2>4, <2>5 DEF SocketEvent
<1>6. ASSUME NEW s \in DOMAIN client.sockets, SocketEvent(s), wanted PROVE ToldToStop'
  <2>1. CloseEvent(s)
    BY <1>6 DEF SocketEvent, OpenEvent, Lose, MessageEvent
  <2> DEFINE c == [client EXCEPT !.sockets[s] = "closed"]
  <2>2. client' = onClose(disconnect(c))
    BY <1>6, <2>1 DEF CloseEvent
  <2>3. WellFormed(c)
    BY <1>0, Moved DEF SocketState
  <2> HIDE DEF c
  <2>4. WellFormed(disconnect(c)) /\ disconnect(c).closedByUser
    BY <2>3, DisconnectKeeps
  <2>5. NothingNew(disconnect(c), client')
    BY <2>2, <2>4, ClosesNothingNew
  <2> QED
    BY <2>5 DEF NothingNew, ToldToStop
<1>7. CASE UNCHANGED clientVars
  BY <1>0, <1>7 DEF clientVars, ToldToStop
<1> QED
  BY <1>1, <1>2, <1>3, <1>4, <1>5, <1>6, <1>7 DEF ClientNext

LEMMA ToldToStopAlways == ClientSpec => []ToldToStop
<1>1. ClientInit => ToldToStop
  BY DEF ClientInit, ToldToStop
<1>2. CInv /\ ToldToStop /\ [ClientNext]_clientVars => ToldToStop'
  BY StaysToldToStop DEF ToldToStop
<1> QED
  BY <1>1, <1>2, CInvAlways, PTL DEF ClientSpec

(***************************************************************************)
(* The safety half of DisconnectIsFinal, for every application, however    *)
(* hasty: until connect() is called again no socket is created and no      *)
(* timer is started, by whatever handler or timer is still to run (the     *)
(* close handler and the timer of index.ts both test closedByUser).        *)
(***************************************************************************)
StaysDisconnected ==
    [][~wanted /\ ~wanted' => /\ DOMAIN client'.sockets = DOMAIN client.sockets
                              /\ client'.timers <= client.timers]_clientVars

THEOREM DisconnectStartsNothing == ClientSpec => StaysDisconnected
<1>1. CInv /\ ToldToStop /\ [ClientNext]_clientVars =>
         [~wanted /\ ~wanted' => /\ DOMAIN client'.sockets = DOMAIN client.sockets
                                 /\ client'.timers <= client.timers]_clientVars
  BY StaysToldToStop
<1> QED
  BY <1>1, CInvAlways, ToldToStopAlways, PTL DEF ClientSpec, StaysDisconnected

(***************************************************************************)
(* And if it was tidy, every socket it still has is already closing: none  *)
(* was left behind open or connecting.                                     *)
(***************************************************************************)
ClosesItsSocket == ~wanted /\ tidy => \A s \in Live : client.sockets[s] = "closing"

THEOREM DisconnectLeavesNoSocket == ClientSpec => []ClosesItsSocket
<1>1. CInv /\ ToldToStop => ClosesItsSocket
  <2> SUFFICES ASSUME CInv, ToldToStop, ~wanted, tidy, NEW s \in Live,
                      client.sockets[s] # "closing"
               PROVE  FALSE
    BY DEF ClosesItsSocket
  <2>1. s \in Nat /\ client.closedByUser
    BY FieldTypes DEF CInv, WellFormed, ToldToStop, Live
  <2>2. client.ws = None /\ client.ws = s
    BY <2>1, LiveIsLiveIn DEF CInv, Tidied, Single
  <2> QED
    BY <2>1, <2>2, ClientAssumption
<1> QED
  BY <1>1, CInvAlways, ToldToStopAlways, PTL
=============================================================================
