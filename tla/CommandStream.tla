--------------------------- MODULE CommandStream ----------------------------
(***************************************************************************)
(* How socket_run cuts the bytes of the command socket into commands.  TCP *)
(* keeps no boundaries: a recv returns any prefix of what has arrived, up  *)
(* to the size of the buffer.  A byte is the number of the command it is   *)
(* of, or the NUL that may end it; mod-ui sends the NUL, the clients under *)
(* tests/ do not and wait for the answer instead.                          *)
(***************************************************************************)
EXTENDS Naturals, SequencesExt

CONSTANTS
  RecvSize,    \* g_buffer_size
  CommandMax,  \* a bound on the number of commands
  LengthMax    \* a bound on the length of a command

ASSUME CommandStreamAssumption == RecvSize \in Nat \ {0} /\ {CommandMax, LengthMax} \subseteq Nat

VARIABLES
  terminates,  \* whether the client ends its commands with a NUL
  pipe,        \* the bytes the client has sent and recv has not returned
  commands,    \* ghost: the commands the client has sent
  received,    \* msgbuffer, up to count
  growing,     \* the inner loop waits for the rest of a large message
  delivered,   \* what g_receive_cb was called with
  severed      \* ghost: a recv ended inside of a command

streamVars == <<terminates, pipe, commands, received, growing, delivered, severed>>

Nul == 0

StreamInit ==
  /\ terminates \in BOOLEAN /\ pipe = <<>> /\ commands = <<>>
  /\ received = <<>> /\ growing = FALSE
  /\ delivered = <<>> /\ severed = FALSE

-----------------------------------------------------------------------------
(* The client.  Without a NUL it sends only when nothing is outstanding.   *)
Answered == Len(delivered) = Len(commands)

SendCommand(length) ==
  LET n == Len(commands) + 1
      text == [i \in 1..length |-> n]
  IN /\ n <= CommandMax
     /\ terminates \/ Answered
     /\ pipe' = pipe \o text \o (IF terminates THEN <<Nul>> ELSE <<>>)
     /\ commands' = Append(commands, text)
     /\ UNCHANGED <<terminates, received, growing, delivered, severed>>

-----------------------------------------------------------------------------
(* Trailing NULs are not counted, but for one that is the first byte.      *)
Trimmed(bytes) ==
  SubSeq(bytes, 1, Max({1} \union {i \in 1..Len(bytes) : bytes[i] # Nul}))

(* strlen: where the text that starts at i ends.                           *)
NextNul(bytes, i) ==
  CHOOSE j \in i..Len(bytes) : bytes[j] = Nul /\ \A k \in i..(j - 1) : bytes[k] # Nul

(* The commands in a buffer whose end is a NUL: further NULs are skipped,  *)
(* the text up to the next one is a command.                               *)
SplitCommands(bytes) ==
  LET from[i \in 1..(Len(bytes) + 1)] ==
        IF i > Len(bytes) THEN <<>>
        ELSE IF bytes[i] = Nul THEN from[i + 1]
        ELSE <<SubSeq(bytes, i, NextNul(bytes, i) - 1)>> \o from[NextNul(bytes, i) + 1]
  IN from[1]

CommandsIn(bytes) == SplitCommands(Append(Trimmed(bytes), Nul))

(* The recv ended inside of a command: more of it is to come.              *)
Cuts(chunk, rest) ==
  rest # <<>> /\ Last(chunk) # Nul /\ Head(rest) = Last(chunk)

Process(bytes) ==
  /\ delivered' = delivered \o CommandsIn(bytes)
  /\ received' = <<>> /\ growing' = FALSE

(* Wrong: a message longer than the buffer is read once more only.         *)
RecvOnceMore(n) ==
  LET chunk == SubSeq(pipe, 1, n)
      bytes == received \o chunk
  IN /\ n <= Len(pipe)
     /\ pipe' = SubSeq(pipe, n + 1, Len(pipe))
     /\ IF n = RecvSize /\ Last(chunk) # Nul /\ ~growing
        THEN received' = bytes /\ growing' = TRUE /\ UNCHANGED <<delivered, severed>>
        ELSE /\ Process(bytes)
             /\ severed' = (severed \/ (n < RecvSize /\ Cuts(chunk, pipe')))
     /\ UNCHANGED <<terminates, commands>>

(* recv of n bytes.  A full buffer that does not end with a NUL makes the  *)
(* inner loop read on until a recv is shorter or ends with one.            *)
Recv(n) ==
  LET chunk == SubSeq(pipe, 1, n)
      bytes == received \o chunk
  IN /\ n <= Len(pipe)
     /\ pipe' = SubSeq(pipe, n + 1, Len(pipe))
     /\ IF n = RecvSize /\ Last(chunk) # Nul
        THEN received' = bytes /\ growing' = TRUE /\ UNCHANGED <<delivered, severed>>
        ELSE Process(bytes) /\ severed' = (severed \/ Cuts(chunk, pipe'))
     /\ UNCHANGED <<terminates, commands>>

(* The client has closed the connection: recv returns 0, what the inner    *)
(* loop has read so far is dropped, and the next client is accepted.       *)
Disconnected ==
  /\ pipe = <<>> /\ commands # <<>>
  /\ terminates' \in BOOLEAN /\ UNCHANGED pipe
  /\ commands' = <<>> /\ received' = <<>> /\ growing' = FALSE
  /\ delivered' = <<>> /\ severed' = FALSE

StreamNext ==
  \/ \E length \in 1..LengthMax : SendCommand(length)
  \/ \E n \in 1..RecvSize : Recv(n)
  \/ Disconnected

StreamSpec == StreamInit /\ [][StreamNext]_streamVars

-----------------------------------------------------------------------------
(* Unless a recv ended inside of a command, the callback gets every        *)
(* command once, whole and in the order it was sent, however many of them  *)
(* share a buffer or however many buffers one of them fills; and what has  *)
(* arrived waits in the inner loop only when it fills the buffer to the    *)
(* last byte without a NUL (socket.c:337-410).                             *)
CommandsArrive ==
  ~severed =>
    /\ IsPrefix(delivered, commands)
    /\ pipe = <<>> /\ ~growing => delivered = commands
    /\ pipe = <<>> /\ growing => Len(received) % RecvSize = 0 /\ Last(received) # Nul

=============================================================================
