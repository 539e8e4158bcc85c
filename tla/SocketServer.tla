---------------------------- MODULE SocketServer ----------------------------
(***************************************************************************)
(* The connections of the socket server: the thread that accepts a client  *)
(* and runs its commands (socket_run), the stop of the server from another *)
(* thread or from the signal handler (socket_finish), and the feedback     *)
(* thread that sends on the second connection of the client.               *)
(***************************************************************************)
EXTENDS Naturals, FiniteSets

CONSTANTS
  WithFeedback,   \* feedback_port # 0
  ConnectMax      \* a bound on the connections that are ever made

ASSUME SocketServerAssumption == WithFeedback \in BOOLEAN /\ ConnectMax \in Nat

VARIABLES
  serving,      \* the program's flag "running"
  serverfd,     \* g_serverfd and g_fbserverfd are valid
  listening,    \* the servers whose sockets are open
  client,       \* g_clientfd, 0 for INVALID_SOCKET
  fbclient,     \* g_fbclientfd
  connected,    \* the connections that neither side has shut down or closed
  connects,     \* how many there have been
  server,       \* the thread in socket_run
  stopper,      \* the thread in socket_finish
  feedback      \* the thread in socket_send_feedback

socketVars == <<serving, serverfd, listening, client, fbclient, connected, connects, server,
                stopper, feedback>>

Servers == {"commands"} \union (IF WithFeedback THEN {"feedback"} ELSE {})

(* socket_start has succeeded, and main sets running.                      *)
SocketInit ==
  /\ serving = TRUE /\ serverfd = Servers /\ listening = Servers
  /\ client = 0 /\ fbclient = 0 /\ connected = {} /\ connects = 0
  /\ server = [at |-> "start", c |-> 0, f |-> 0]
  /\ stopper = "idle" /\ feedback = "idle"

GoTo(place) == server' = [server EXCEPT !.at = place]
ServerOnly == UNCHANGED <<serving, serverfd, listening, client, fbclient, connected, connects,
                          stopper, feedback>>

-----------------------------------------------------------------------------
(* intclient_socket_run, main and socket_run.                              *)

ServerStart ==
  /\ server.at = "start" /\ GoTo(IF serving THEN "accept" ELSE "ended") /\ ServerOnly

(* The socket's number is read before accept waits on it.                  *)
LookForServer ==
  /\ server.at = "accept" /\ GoTo(IF "commands" \in serverfd THEN "await" ELSE "start")
  /\ ServerOnly

(* accept fails when the socket is gone, and waits for a client otherwise. *)
AcceptFails ==
  /\ server.at = "await" /\ "commands" \notin listening /\ GoTo("start") /\ ServerOnly

Connected(field, place) ==
  /\ connects < ConnectMax /\ connects' = connects + 1
  /\ connected' = connected \union {connects'}
  /\ server' = [server EXCEPT !.at = place, ![field] = connects']
  /\ UNCHANGED <<serving, serverfd, listening, client, fbclient, stopper, feedback>>

Accept ==
  /\ server.at = "await" /\ "commands" \in listening /\ Connected("c", "accept_fb")

(* No second connection is made when the server has no feedback port or    *)
(* has just been stopped.                                                  *)
LookForFeedback ==
  /\ server.at = "accept_fb" /\ GoTo(IF "feedback" \in serverfd THEN "await_fb" ELSE "publish")
  /\ ServerOnly

AcceptFeedback ==
  /\ server.at = "await_fb" /\ "feedback" \in listening /\ Connected("f", "publish")

AcceptFeedbackFails ==
  /\ server.at = "await_fb" /\ "feedback" \notin listening
  /\ server' = [at |-> "start", c |-> 0, f |-> 0] /\ connected' = connected \ {server.c}
  /\ UNCHANGED <<serving, serverfd, listening, client, fbclient, connects, stopper, feedback>>

Publish ==
  /\ server.at = "publish" /\ client' = server.c /\ fbclient' = server.f /\ GoTo("loop")
  /\ UNCHANGED <<serving, serverfd, listening, connected, connects, stopper, feedback>>

(* Wrong: the loop does not look at the server's socket.                   *)
ServerLoopBlind == server.at = "loop" /\ GoTo("recv") /\ ServerOnly

ServerLoop ==
  /\ server.at = "loop" /\ GoTo(IF "commands" \in serverfd THEN "recv" ELSE "close_fb")
  /\ ServerOnly

(* A command comes and is run, or recv returns 0 or an error.              *)
RecvCommand ==
  /\ server.at = "recv"
  /\ \/ server.c \in connected /\ GoTo("loop")
     \/ server.c \notin connected /\ GoTo("close_fb")
  /\ ServerOnly

CloseFeedback ==
  /\ server.at = "close_fb" /\ GoTo("close")
  /\ fbclient' = 0 /\ connected' = connected \ {server.f}
  /\ UNCHANGED <<serving, serverfd, listening, client, connects, stopper, feedback>>

CloseClient ==
  /\ server.at = "close" /\ client' = 0 /\ connected' = connected \ {server.c}
  /\ server' = [at |-> "start", c |-> 0, f |-> 0]
  /\ UNCHANGED <<serving, serverfd, listening, fbclient, connects, stopper, feedback>>

(* External: the client closes a connection.                               *)
ClientCloses(c) ==
  /\ c \in connected /\ connected' = connected \ {c}
  /\ UNCHANGED <<serving, serverfd, listening, client, fbclient, connects, server, stopper,
                 feedback>>

-----------------------------------------------------------------------------
(* jack_finish and term_signal: running is cleared, then socket_finish.    *)

StopRunning ==
  /\ stopper = "idle" /\ stopper' = "finish" /\ serving' = FALSE
  /\ UNCHANGED <<serverfd, listening, client, fbclient, connected, connects, server, feedback>>

ForgetServers ==
  /\ stopper = "finish" /\ serverfd' = {} /\ stopper' = "clients"
  /\ UNCHANGED <<serving, listening, client, fbclient, connected, connects, server, feedback>>

ShutdownClients ==
  /\ stopper = "clients" /\ connected' = connected \ {client, fbclient} /\ stopper' = "servers"
  /\ UNCHANGED <<serving, serverfd, listening, client, fbclient, connects, server, feedback>>

CloseServers ==
  /\ stopper = "servers" /\ listening' = {} /\ stopper' = "done"
  /\ UNCHANGED <<serving, serverfd, client, fbclient, connected, connects, server, feedback>>

(* jack_finish joins the thread and the program goes on to effects_finish. *)
Stopped ==
  /\ stopper = "done" /\ server.at = "ended" /\ UNCHANGED socketVars

-----------------------------------------------------------------------------
(* socket_send_feedback: g_fbclientfd is tested and read again.  A send    *)
(* that fails is repeated, with one byte more, for ever.                   *)
FeedbackTest ==
  /\ feedback = "idle" /\ fbclient # 0 /\ feedback' = "send"
  /\ UNCHANGED <<serving, serverfd, listening, client, fbclient, connected, connects, server,
                 stopper>>

FeedbackSend ==
  /\ feedback = "send" /\ feedback' = IF fbclient \in connected THEN "idle" ELSE "spinning"
  /\ UNCHANGED <<serving, serverfd, listening, client, fbclient, connected, connects, server,
                 stopper>>

SocketNext ==
  \/ ServerStart \/ LookForServer \/ AcceptFails
  \/ Accept \/ LookForFeedback \/ AcceptFeedback \/ AcceptFeedbackFails
  \/ Publish \/ ServerLoop \/ RecvCommand \/ CloseFeedback \/ CloseClient
  \/ \E c \in connected : ClientCloses(c)
  \/ StopRunning \/ ForgetServers \/ ShutdownClients \/ CloseServers \/ Stopped
  \/ FeedbackTest \/ FeedbackSend

-----------------------------------------------------------------------------
(* Once socket_finish has returned, the thread that is joined next does    *)
(* not read from a connection that is still up; a round ends with every    *)
(* connection closed and forgotten; and while a client is served the       *)
(* published connections are its own (socket.c:206-236, 304-340, 451).     *)
ServerStops ==
  /\ stopper = "done" /\ server.at = "recv" => server.c \notin connected
  /\ server.at \in {"start", "ended"} => connected = {} /\ client = 0 /\ fbclient = 0
  /\ server.at \in {"loop", "recv"} => client = server.c /\ fbclient = server.f
=============================================================================
