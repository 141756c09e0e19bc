------------------------------- MODULE Client -------------------------------
(***************************************************************************)
(* SyncpondClient, the TypeScript websocket client (client/src/index.ts),  *)
(* and the sockets it has created.  The program is single-threaded: a step *)
(* is one call of the application or one event.  Events of a socket arrive *)
(* whenever they like, also after the client has let go of it: handlers    *)
(* stay attached and work on this.ws, whatever it is by then.              *)
(*                                                                         *)
(* Listeners of "close" run before the handler's own statements and may    *)
(* call back into the client; those of the other events run last, which is *)
(* the same as a call after the event.  Promises are left out.             *)
(*                                                                         *)
(* The handlers are operators from one state of the client to the next.    *)
(***************************************************************************)
EXTENDS Naturals, Sequences, FiniteSets

CONSTANTS
    autoReconnect,
    maxReconnectAttempts,
    Counters,     \* room counters that updates carry
    None,         \* undefined
    MaxSockets    \* bound: sockets created

ASSUME ClientAssumption ==
    /\ autoReconnect \in BOOLEAN
    /\ maxReconnectAttempts \in Nat
    /\ MaxSockets \in Nat
    /\ None \notin Counters \cup Nat

VARIABLES
    client,    \* the client's fields, its sockets and timers
    wanted,    \* the application's last call was connect()
    tidy       \* the application has only called connect() when all was quiet

clientVars == <<client, wanted, tidy>>

SocketState == {"connecting", "open", "closing", "closed"}

ClientState ==
    [sockets           : Seq(SocketState),   \* in the order of their creation
     auths             : Seq(Seq(Counters \cup {None})),  \* what was sent on each
     ws                : Nat \cup {None},
     connecting        : BOOLEAN,
     closedByUser      : BOOLEAN,
     reconnectAttempts : 0..maxReconnectAttempts,
     timers            : Nat,                \* reconnect timers that are running
     lastSeenCounter   : Counters \cup {None},
     threw             : BOOLEAN]            \* the last createWebSocket failed

ClientInit ==
    /\ client = [sockets |-> << >>, auths |-> << >>, ws |-> None, connecting |-> FALSE,
                 closedByUser |-> FALSE, reconnectAttempts |-> 0, timers |-> 0,
                 lastSeenCounter |-> None, threw |-> FALSE]
    /\ wanted = FALSE
    /\ tidy = TRUE

-----------------------------------------------------------------------------
(* The methods of the class.                                                *)

isConnected(c) == c.ws # None /\ c.sockets[c.ws] = "open"

createWebSocket(c) ==
    [c EXCEPT !.sockets = Append(@, "connecting"),
              !.auths = Append(@, << >>),
              !.ws = Len(c.sockets) + 1]

connect_Slip(c) ==   \* a connection being made is forgotten
    IF isConnected(c) THEN {c}
    ELSE {[createWebSocket(c) EXCEPT !.connecting = TRUE, !.closedByUser = FALSE,
                                     !.threw = FALSE],
          [c EXCEPT !.connecting = FALSE, !.closedByUser = FALSE, !.threw = TRUE]}
\* Either a socket is created or createWebSocket throws.
connect(c) ==
    IF c.connecting \/ isConnected(c) THEN {c}
    ELSE {[createWebSocket(c) EXCEPT !.connecting = TRUE, !.closedByUser = FALSE,
                                     !.threw = FALSE],
          [c EXCEPT !.connecting = FALSE, !.closedByUser = FALSE, !.threw = TRUE]}

\* WebSocket.close(): the close event comes later.
Closing(c, s) ==
    IF c.sockets[s] \in {"connecting", "open"} THEN [c EXCEPT !.sockets[s] = "closing"]
    ELSE c

\* `connecting` stays as it is, and so do running timers.
disconnect(c) ==
    LET d == [c EXCEPT !.closedByUser = TRUE]
    IN  IF d.ws = None THEN d ELSE [Closing(d, d.ws) EXCEPT !.ws = None]

sendAuth_Slip(c) == c   \* called before the socket is ready
sendAuth(c) ==
    IF isConnected(c) THEN [c EXCEPT !.auths[c.ws] = Append(@, c.lastSeenCounter)] ELSE c

scheduleReconnect_Slip(c) ==   \* one attempt too many
    IF c.reconnectAttempts > maxReconnectAttempts THEN c
    ELSE [c EXCEPT !.reconnectAttempts = @ + 1, !.timers = @ + 1]
scheduleReconnect(c) ==
    IF c.reconnectAttempts >= maxReconnectAttempts THEN c
    ELSE [c EXCEPT !.reconnectAttempts = @ + 1, !.timers = @ + 1]

-----------------------------------------------------------------------------
(* The listeners connect() attaches to a socket.                            *)

onOpen(c, s) ==
    sendAuth([c EXCEPT !.sockets[s] = "open", !.connecting = FALSE,
                       !.reconnectAttempts = 0])

onClose_Slip(c) ==   \* `connecting` is not cleared
    LET d == [c EXCEPT !.ws = None]
    IN  IF ~d.closedByUser /\ autoReconnect THEN scheduleReconnect(d) ELSE d
\* What follows emit("close").
onClose(c) ==
    LET d == [c EXCEPT !.ws = None, !.connecting = FALSE]
    IN  IF ~d.closedByUser /\ autoReconnect THEN scheduleReconnect(d) ELSE d

-----------------------------------------------------------------------------
MayCreate == Len(client.sockets) < MaxSockets

\* No socket is on its way out and no timer is running.
Calm ==
    /\ \A s \in DOMAIN client.sockets : client.sockets[s] # "closing"
    /\ client.timers = 0

CallConnect ==
    /\ MayCreate
    /\ client' \in connect(client)
    /\ wanted' = TRUE
    /\ tidy' = (tidy /\ Calm)

CallDisconnect ==
    /\ client' = disconnect(client)
    /\ wanted' = FALSE
    /\ UNCHANGED tidy

TimerFires_Slip ==   \* does not ask whether the application disconnected
    /\ client.timers > 0
    /\ MayCreate
    /\ client' \in connect([client EXCEPT !.timers = @ - 1])
    /\ UNCHANGED <<wanted, tidy>>
TimerFires ==
    /\ client.timers > 0
    /\ LET c == [client EXCEPT !.timers = @ - 1]
       IN  IF c.closedByUser THEN client' = c ELSE MayCreate /\ client' \in connect(c)
    /\ UNCHANGED <<wanted, tidy>>

OpenEvent(s) ==
    /\ client.sockets[s] = "connecting"
    /\ client' = onOpen(client, s)
    /\ UNCHANGED <<wanted, tidy>>

\* The connection fails, or the other side closes it; for some time the socket
\* is neither open nor has its close event come.
Lose(s) ==
    /\ client.sockets[s] \in {"connecting", "open"}
    /\ client' = Closing(client, s)
    /\ UNCHANGED <<wanted, tidy>>

\* An application may react to "close" by connecting again or by giving up.
CloseEvent(s) ==
    /\ client.sockets[s] = "closing"
    /\ LET c == [client EXCEPT !.sockets[s] = "closed"]
       IN  \/ client' = onClose(c) /\ UNCHANGED <<wanted, tidy>>
           \/ client' = onClose(disconnect(c)) /\ wanted' = FALSE /\ UNCHANGED tidy
           \/ /\ MayCreate
              /\ client' \in {onClose(d) : d \in connect(c)}
              /\ wanted' = TRUE /\ tidy' = FALSE

\* An "update" or "room_update" message; the others change nothing.
MessageEvent(s, n) ==
    /\ client.sockets[s] = "open"
    /\ client' = [client EXCEPT !.lastSeenCounter = n]
    /\ UNCHANGED <<wanted, tidy>>

SocketEvent(s) ==
    \/ OpenEvent(s)
    \/ Lose(s)
    \/ CloseEvent(s)
    \/ \E n \in Counters : MessageEvent(s, n)

ClientNext ==
    \/ CallConnect
    \/ CallDisconnect
    \/ TimerFires
    \/ \E s \in DOMAIN client.sockets : SocketEvent(s)

\* Timers fire, a close that has begun ends, an attempt to connect has an outcome.
Attempted(s) == client.sockets[s] = "connecting" /\ (OpenEvent(s) \/ Lose(s))
ClientFairness ==
    /\ WF_clientVars(TimerFires)
    /\ \A s \in 1..MaxSockets :
          /\ WF_clientVars(s \in DOMAIN client.sockets /\ CloseEvent(s))
          /\ WF_clientVars(s \in DOMAIN client.sockets /\ Attempted(s))

ClientSpec == ClientInit /\ [][ClientNext]_clientVars /\ ClientFairness

-----------------------------------------------------------------------------
Live == {s \in DOMAIN client.sockets : client.sockets[s] # "closed"}

ClientTypeOK ==
    /\ client \in ClientState
    /\ DOMAIN client.auths = DOMAIN client.sockets
    /\ client.ws # None => client.ws \in DOMAIN client.sockets
    /\ wanted \in BOOLEAN /\ tidy \in BOOLEAN

(***************************************************************************)
(* An application that waits for the close event and for running timers    *)
(* before it calls connect() again never has two connections: a socket     *)
(* that has not closed is the only one, and unless it is closing the       *)
(* client still holds it.  (One that does not wait can orphan a socket:    *)
(* the old socket's close handler clears this.ws.)                         *)
(***************************************************************************)
OneSocket ==
    tidy => /\ Cardinality(Live) <= 1
            /\ \A s \in Live : client.sockets[s] # "closing" => client.ws = s

(***************************************************************************)
(* Every connection is authenticated once, although the open handler sends *)
(* to this.ws and not to the socket that opened; and a socket that never   *)
(* opened was sent nothing.                                                *)
(***************************************************************************)
AuthenticatedOnce ==
    tidy => \A s \in DOMAIN client.sockets :
        /\ client.sockets[s] = "open" => Len(client.auths[s]) = 1
        /\ client.sockets[s] = "connecting" => client.auths[s] = << >>

(***************************************************************************)
(* A client that is meant to be connected is never stranded: it has a      *)
(* connection, is making or losing one, or will try again, unless its      *)
(* attempts are used up or the last socket could not even be created.      *)
(***************************************************************************)
NotStranded ==
    autoReconnect /\ tidy /\ wanted =>
        \/ Live # {}
        \/ client.timers > 0
        \/ client.reconnectAttempts = maxReconnectAttempts
        \/ client.threw

(***************************************************************************)
(* A planned reconnection takes place, unless the application disconnects  *)
(* or is hasty first, or the socket cannot be created.                     *)
(***************************************************************************)
LostIsRetried ==
    \A n \in 1..(MaxSockets - 1) :
        client.timers > 0 /\ Len(client.sockets) = n /\ tidy /\ wanted
          ~> Len(client.sockets) > n \/ ~wanted \/ ~tidy \/ client.threw

(***************************************************************************)
(* disconnect() is final: if connect() is not called again, all sockets    *)
(* close and no timer is left that could bring one back.                   *)
(***************************************************************************)
DisconnectIsFinal ==
    ~wanted /\ tidy ~> wanted \/ (Live = {} /\ client.timers = 0)
=============================================================================
