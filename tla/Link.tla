-------------------------------- MODULE Link --------------------------------
(***************************************************************************)
(* The client side of the server: server-parser/tcp_server.c (the one      *)
(* client, the packets it is sent), the command line assembled from its    *)
(* bytes and executed (handle_client_data and _handle_client_command of    *)
(* serial.c), and the order in which main.c's loop serves the listener,    *)
(* the client and the serial ports after each poll.  One thread does all   *)
(* of it; a received chunk is worked off a byte per step, while clients    *)
(* type, connect and hang up.  A command goes to the CLI port in as many   *)
(* writes as the port makes of it, and the port may refuse any of them.    *)
(* How fast the port drains is left open: a flush drops any end of what it *)
(* has taken since the last one.                                           *)
(***************************************************************************)
EXTENDS Integers, Sequences, Functions

CONSTANTS
  Clients,     \* connections a client may make
  NoClient,    \* g_client_fd < 0
  Char,        \* what a client types, without the line end
  Eol,         \* \n or \r
  Nul,         \* the byte g_cmd_line_buf holds at first
  Reset,       \* "RESET"
  CmdBufSize,  \* CMD_LINE_BUF_SIZE
  ReadMax,     \* BUFFER_SIZE: what one recv returns at most
  MaxTyped     \* bound: bytes typed by all clients

ASSUME LinkAssumption ==
  /\ NoClient \notin Clients /\ Eol \notin Char /\ Nul \notin Char \cup {Eol}
  /\ Reset \in Seq(Char) /\ Reset # <<>>
  /\ CmdBufSize \in Nat /\ Len(Reset) < CmdBufSize
  /\ ReadMax \in Nat \ {0} /\ MaxTyped \in Nat

VARIABLES
  pc,        \* where the loop stands
  revents,   \* what this round's poll reported, of {"listen", "client"}
  client,    \* g_client_fd
  cmdBuf,    \* g_cmd_line_buf
  cmdLen,    \* g_cmd_line_len
  chunk,     \* rx_buffer: what is left to work off, with its sender (history)
  unsent     \* cmd_buf from total on; empty outside of the loop that writes it

(* The clients *)
VARIABLES
  session,   \* client -> new, backlog, open, closed
  inbox,     \* client -> bytes typed and not yet received
  hungUp     \* clients that have closed their end

(* History *)
VARIABLES
  eaten,     \* client -> bytes of its worked off so far
  lineBy,    \* whose bytes are in the command line
  done       \* the command lines executed, by whom, and whether as RESET

(* The radar's end of the CLI port (history) *)
VARIABLES
  heard,     \* lines it reads: of which command, behind what, and the line
  open,      \* bytes of the line it has not seen the end of
  before,    \* open, as it was when the command under way began
  lost,      \* commands, as places in done, that were refused or flushed
  gone       \* lines, and bytes of the next, that were out at the last flush

loopVars == <<pc, revents, client, cmdBuf, cmdLen, chunk, unsent>>
peerVars == <<session, inbox, hungUp>>
radarVars == <<heard, open, before, lost, gone>>
histVars == <<eaten, lineBy, done, radarVars>>
vars == <<loopVars, peerVars, histVars>>

Steps == {"poll", "accept", "client", "rx", "serial"}

-----------------------------------------------------------------------------
Init ==
  /\ pc = "poll" /\ revents = {} /\ client = NoClient
  /\ cmdBuf = [i \in 0 .. CmdBufSize - 1 |-> Nul] /\ cmdLen = 0
  /\ chunk = <<>> /\ unsent = <<>>
  /\ session = [c \in Clients |-> "new"]
  /\ inbox = [c \in Clients |-> <<>>] /\ hungUp = {}
  /\ eaten = [c \in Clients |-> <<>>] /\ lineBy = {} /\ done = <<>>
  /\ heard = <<>> /\ open = <<>> /\ before = <<>> /\ lost = {}
  /\ gone = [lines |-> 0, bytes |-> 0]

-----------------------------------------------------------------------------
(* The clients, in their own time *)

Typed == FoldFunction(LAMBDA q, n : Len(q) + n, 0, inbox)
           + FoldFunction(LAMBDA q, n : Len(q) + n, 0, eaten) + Len(chunk)

Connect(c) ==
  /\ session[c] = "new"
  /\ session' = [session EXCEPT ![c] = "backlog"]
  /\ UNCHANGED <<loopVars, inbox, hungUp, histVars>>

Type(c, b) ==
  /\ session[c] \in {"backlog", "open"} /\ c \notin hungUp
  /\ Typed < MaxTyped
  /\ inbox' = [inbox EXCEPT ![c] = Append(@, b)]
  /\ UNCHANGED <<loopVars, session, hungUp, histVars>>

HangUp(c) ==
  /\ session[c] \in {"backlog", "open"} /\ c \notin hungUp
  /\ hungUp' = hungUp \cup {c}
  /\ UNCHANGED <<loopVars, session, inbox, histVars>>

-----------------------------------------------------------------------------
(* close_client *)
Closed(ses) == IF client = NoClient THEN ses ELSE [ses EXCEPT ![client] = "closed"]

(* send_async_packet: nothing without a client.  A packet that is sent, or *)
(* dropped because the socket takes no more, in the middle of it as well,  *)
(* changes nothing here; any other error closes the client.                *)
SendPacket(fails) ==
  IF client = NoClient \/ ~fails
  THEN UNCHANGED <<client, session>>
  ELSE client' = NoClient /\ session' = Closed(session)

-----------------------------------------------------------------------------
(* The loop of main *)

ClientReady == client # NoClient /\ (inbox[client] # <<>> \/ client \in hungUp)

(* poll: level triggered, and back after 100 ms at the latest *)
Poll ==
  /\ pc = "poll"
  /\ revents' = {e \in {"listen", "client"} :
                   \/ e = "listen" /\ \E c \in Clients : session[c] = "backlog"
                   \/ e = "client" /\ ClientReady}
  /\ pc' = "accept"
  /\ UNCHANGED <<client, cmdBuf, cmdLen, chunk, unsent, peerVars, histVars>>

(* The client a new one displaces *)
Displaced(ses) == Closed(ses)

(* Mutant: the line is cleared by close_client alone *)
LineKept == IF client = NoClient THEN cmdLen ELSE 0

(* g_cmd_line_len after accept_new_client *)
LineAfterAccept == 0

(* accept_new_client, when the listener was ready; accept may fail *)
Accept ==
  /\ pc = "accept"
  /\ pc' = "client"
  /\ \/ /\ "listen" \in revents
        /\ \E c \in Clients :
             /\ session[c] = "backlog"
             /\ session' = [Displaced(session) EXCEPT ![c] = "open"]
             /\ client' = c
             /\ cmdLen' = LineAfterAccept
     \/ UNCHANGED <<session, client, cmdLen>>
  /\ UNCHANGED <<revents, cmdBuf, chunk, unsent, inbox, hungUp,
                 eaten, lineBy, done, radarVars>>

(* recv returns 0 *)
Eof == inbox[client] = <<>> /\ client \in hungUp

(* handle_client_data up to its loop.  The client served is the one of     *)
(* now, which Accept may have put in the place of the one polled.  A recv  *)
(* that returns 0 closes the client, and so does one that fails, which it  *)
(* may do at any time; one that would block does nothing.                  *)
Receive ==
  /\ pc = "client"
  /\ \/ /\ "client" \in revents /\ inbox[client] # <<>>
        /\ LET n == IF Len(inbox[client]) < ReadMax THEN Len(inbox[client]) ELSE ReadMax
           IN /\ chunk' = [i \in 1 .. n |-> [by |-> client, ch |-> inbox[client][i]]]
              /\ inbox' = [inbox EXCEPT ![client] = SubSeq(@, n + 1, Len(@))]
        /\ pc' = "rx"
        /\ UNCHANGED <<client, cmdLen, session>>
     \/ /\ "client" \in revents     \* recv returns 0, or fails
        /\ session' = Closed(session) /\ client' = NoClient /\ cmdLen' = 0
        /\ pc' = "serial"
        /\ UNCHANGED <<chunk, inbox>>
     \/ /\ "client" \in revents => inbox[client] = <<>> /\ ~Eof
        /\ pc' = "serial"
        /\ UNCHANGED <<chunk, inbox, client, cmdLen, session>>
  /\ UNCHANGED <<revents, cmdBuf, unsent, hungUp, eaten, lineBy, done, radarVars>>

-----------------------------------------------------------------------------
(* handle_client_data's loop, a byte of the chunk per step *)

Text == [i \in 1 .. cmdLen |-> cmdBuf[i - 1]]

(* Mutant: strcmp *)
ExactlyReset == Text = Reset

(* strncmp(line, "RESET", 5): of the buffer, whatever the line's length is *)
IsReset == \A i \in 1 .. Len(Reset) : cmdBuf[i - 1] = Reset[i]

Eat ==
  /\ eaten' = [eaten EXCEPT ![chunk[1].by] = Append(@, chunk[1].ch)]
  /\ chunk' = Tail(chunk)
  /\ pc' = IF chunk' = <<>> THEN "serial" ELSE "rx"
  /\ UNCHANGED <<revents, inbox, hungUp>>

RoomInLine == cmdLen < CmdBufSize - 1

(* A byte of a line: appended, or, when the line is too long, the line so  *)
(* far is discarded and the byte with it.                                  *)
RxChar ==
  /\ pc = "rx" /\ chunk[1].ch # Eol
  /\ IF RoomInLine
     THEN /\ cmdBuf' = [cmdBuf EXCEPT ![cmdLen] = chunk[1].ch]
          /\ cmdLen' = cmdLen + 1
          /\ lineBy' = {chunk[1].by} \cup IF cmdLen = 0 THEN {} ELSE lineBy
     ELSE cmdLen' = 0 /\ UNCHANGED <<cmdBuf, lineBy>>
  /\ Eat
  /\ UNCHANGED <<client, session, done, unsent, radarVars>>

EmptyLine ==
  /\ pc = "rx" /\ chunk[1].ch = Eol /\ cmdLen = 0
  /\ Eat
  /\ UNCHANGED <<client, session, cmdBuf, cmdLen, lineBy, done,
                 unsent, radarVars>>

Executed(reset) == Append(done, [by |-> lineBy \cup {chunk[1].by}, reset |-> reset, text |-> Text])

(* tcflush: the end of what the port took and had not sent is dropped;     *)
(* what was out at the last flush is out.                                  *)
Flush ==
  \E k \in gone.lines .. Len(heard) :
    LET line == IF k = Len(heard) THEN open ELSE heard[k + 1].line
    IN \E j \in (IF k = gone.lines THEN gone.bytes ELSE 0) .. Len(line) :
         /\ heard' = SubSeq(heard, 1, k)
         /\ open' = SubSeq(line, 1, j)
         /\ lost' = lost \cup {heard[i].of : i \in k + 1 .. Len(heard)}
         /\ gone' = [lines |-> k, bytes |-> j]
         /\ UNCHANGED before

(* A RESET line: both directions of both ports are flushed, then the       *)
(* client is told.                                                         *)
ResetLine ==
  /\ pc = "rx" /\ chunk[1].ch = Eol /\ cmdLen > 0 /\ IsReset
  /\ \E fails \in BOOLEAN : SendPacket(fails)
  /\ Flush
  /\ done' = Executed(TRUE)
  /\ cmdLen' = 0
  /\ Eat
  /\ UNCHANGED <<cmdBuf, lineBy, unsent>>

(* cmd_buf *)
Command(text) == Append(text, Eol)

(* Any other line is copied into cmd_buf, with an end, and written to the  *)
(* CLI port.                                                               *)
CommandLine ==
  /\ pc = "rx" /\ chunk[1].ch = Eol /\ cmdLen > 0 /\ ~IsReset /\ unsent = <<>>
  /\ unsent' = Command(Text)
  /\ before' = open
  /\ UNCHANGED <<pc, revents, client, cmdBuf, cmdLen, chunk, peerVars,
                 eaten, lineBy, done, heard, open, lost, gone>>

(* Mutant: write is given cmd_buf, not cmd_buf + total *)
FromTheStart(n) == SubSeq(Command(Text), 1, Len(unsent) - n)

(* What is left to write when n more bytes are out *)
Unwritten(n) == SubSeq(unsent, n + 1, Len(unsent))

(* A write that takes a part of what it was given *)
WritePart ==
  /\ pc = "rx"
  /\ \E n \in 1 .. Len(unsent) - 1 :
       /\ open' = open \o SubSeq(unsent, 1, n)
       /\ unsent' = Unwritten(n)
  /\ UNCHANGED <<pc, revents, client, cmdBuf, cmdLen, chunk, peerVars,
                 eaten, lineBy, done, heard, before, lost, gone>>

(* The write that takes the rest, the end of the line with it              *)
Taken ==
  /\ heard' = Append(heard, [of |-> Len(done) + 1, before |-> before,
                              line |-> open \o SubSeq(unsent, 1, Len(unsent) - 1)])
  /\ open' = <<>>
  /\ UNCHANGED lost

(* A write that would block, or fails: the rest is given up.  A write that *)
(* is interrupted is made again.                                           *)
GivenUp == lost' = lost \cup {Len(done) + 1} /\ UNCHANGED <<heard, open>>

(* The last write of a command, and the return to the loop over the chunk  *)
LastWrite ==
  /\ pc = "rx" /\ unsent # <<>>
  /\ Taken \/ GivenUp
  /\ unsent' = <<>> /\ before' = <<>>
  /\ done' = Executed(FALSE)
  /\ cmdLen' = 0
  /\ Eat
  /\ UNCHANGED <<client, session, cmdBuf, lineBy, gone>>

-----------------------------------------------------------------------------
(* The CLI port, then the radar port: what was read is sent on, if there   *)
(* was any.  A packet of the second port changes nothing the packet of the *)
(* first could not have changed, so they are one step.                     *)
Serial ==
  /\ pc = "serial"
  /\ pc' = "poll" /\ revents' = {}
  /\ \/ /\ client # NoClient
        /\ \E fails \in BOOLEAN :
             SendPacket(fails) /\ cmdLen' = IF fails THEN 0 ELSE cmdLen
     \/ UNCHANGED <<client, session, cmdLen>>
  /\ UNCHANGED <<cmdBuf, chunk, unsent, inbox, hungUp,
                 eaten, lineBy, done, radarVars>>

Loop == Poll \/ Accept \/ Receive \/ RxChar \/ EmptyLine \/ ResetLine
          \/ CommandLine \/ WritePart \/ LastWrite \/ Serial

Environment ==
  \E c \in Clients : Connect(c) \/ HangUp(c) \/ \E b \in Char \cup {Eol} : Type(c, b)

Next == Loop \/ Environment

Spec == Init /\ [][Next]_vars

-----------------------------------------------------------------------------
LoopTypeOK ==
  /\ pc \in Steps /\ revents \subseteq {"listen", "client"}
  /\ client \in Clients \cup {NoClient}
  /\ cmdBuf \in [0 .. CmdBufSize - 1 -> Char \cup {Nul}]
  /\ cmdLen \in 0 .. CmdBufSize - 1
  /\ chunk \in Seq([by : Clients, ch : Char \cup {Eol}])
  /\ session \in [Clients -> {"new", "backlog", "open", "closed"}]
  /\ inbox \in [Clients -> Seq(Char \cup {Eol})] /\ hungUp \subseteq Clients
  /\ eaten \in [Clients -> Seq(Char \cup {Eol})] /\ lineBy \subseteq Clients
  /\ done \in Seq([by : SUBSET Clients, reset : BOOLEAN, text : Seq(Char)])

RadarTypeOK ==
  /\ unsent \in Seq(Char \cup {Eol})
  /\ heard \in Seq([of : Nat, before : Seq(Char \cup {Eol}), line : Seq(Char \cup {Eol})])
  /\ open \in Seq(Char \cup {Eol}) /\ before \in Seq(Char \cup {Eol})
  /\ lost \subseteq Nat /\ gone \in [lines : Nat, bytes : Nat]

TypeOK == LoopTypeOK /\ RadarTypeOK

(* A client that was displaced, lost or hung up never leaves a piece of a  *)
(* line to the next one: every executed line was typed by one client.      *)
SoleAuthor == \A i \in DOMAIN done : \E c \in Clients : done[i].by = {c}

(* One connection is open at most, and it is the one the server serves:    *)
(* no descriptor is forgotten when clients displace each other.  And recv  *)
(* is only called while there is one.                                      *)
OneSession ==
  /\ {c \in Clients : session[c] = "open"} = {client} \ {NoClient}
  /\ pc = "client" /\ "client" \in revents => client # NoClient

Commands == {k \in DOMAIN done : ~done[k].reset}

(* A command before k did not get through, and none between the two did    *)
LostJustBefore(k) ==
  \E j \in lost : j < k /\ \A i \in Commands : j < i /\ i < k => i \in lost

(* Whatever part of a command each write takes, and whatever the port      *)
(* refuses or a RESET flushes: the radar reads every other command, once,  *)
(* in the order executed, and each as a line of its own - unless the       *)
(* command before it did not get through, whose piece is then read as its  *)
(* beginning.  A command that is given up spoils no more than the next.    *)
RadarReadsCommands ==
  /\ \A i \in DOMAIN heard :
       /\ heard[i].of \in Commands \ lost
       /\ heard[i].line = heard[i].before \o done[heard[i].of].text
       /\ heard[i].before # <<>> => LostJustBefore(heard[i].of)
       /\ \A j \in 1 .. i - 1 : heard[j].of < heard[i].of
  /\ Commands = lost \cup {heard[i].of : i \in DOMAIN heard}
=============================================================================
