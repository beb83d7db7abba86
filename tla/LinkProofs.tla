----------------------------- MODULE LinkProofs -----------------------------
(***************************************************************************)
(* The safety properties of module Link for any number of clients, any     *)
(* alphabet, any size of the command buffer and of a read: who is          *)
(* connected, whose bytes a command line holds, that the lines executed    *)
(* are the lines typed, and which of them the radar reads.                 *)
(***************************************************************************)
EXTENDS MCLink, SequenceTheorems, WellFoundedInduction, TLAPS

Byte == Char \cup {Eol}
ChunkByte == [by : Clients, ch : Byte]
ExecutedLine == [by : SUBSET Clients, reset : BOOLEAN, text : Seq(Char)]

(* A chunk is worked off from the state "rx" alone; all of it is from one  *)
(* client, which is the one served unless it was lost meanwhile.           *)
OneSender ==
  /\ pc = "rx" <=> chunk # <<>>
  /\ chunk # <<>> => client \in {chunk[1].by, NoClient}
  /\ \A i \in 1 .. Len(chunk) : chunk[i].by = chunk[1].by

(* A piece of a line is of one client: the one served, or the one lost in  *)
(* its own chunk; the rest of that chunk goes on the same line.            *)
OneWriter ==
  cmdLen > 0 => \E c \in Clients :
    /\ lineBy = {c}
    /\ client \in {c, NoClient}
    /\ pc = "rx" => chunk[1].by = c

(* The bytes of the line are bytes that were typed. *)
LineTyped == \A i \in 0 .. cmdLen - 1 : cmdBuf[i] \in Char

(* A client that poll reported is served, or another in its place. *)
PolledServed == pc \in {"accept", "client"} /\ "client" \in revents => client # NoClient

(* A command is written at the end of a line that is no RESET. *)
Writing ==
  unsent # <<>> => pc = "rx" /\ chunk[1].ch = Eol /\ cmdLen > 0 /\ ~IsReset

LinkCore == LoopTypeOK /\ SoleAuthor /\ OneSession
              /\ OneSender /\ OneWriter /\ LineTyped /\ PolledServed

LinkInv == LinkCore /\ Writing

-----------------------------------------------------------------------------
(* Sequences *)

(* What recv leaves in the socket is a sequence again. *)
LEMMA RestOfSeq ==
  ASSUME NEW S, NEW s \in Seq(S), NEW n \in 0 .. Len(s)
  PROVE  SubSeq(s, n + 1, Len(s)) \in Seq(S)
<1>1. Len(s) \in Nat /\ \A i \in 1 .. Len(s) : s[i] \in S
  BY LenProperties, ElementOfSeq
<1>2. n + 1 \in Int /\ Len(s) \in Int /\ \A i \in n + 1 .. Len(s) : s[i] \in S
  BY <1>1
<1> QED
  BY <1>2, SubSeqProperties

(* A function on 1 .. n is a sequence of length n. *)
LEMMA FunctionIsSeq ==
  ASSUME NEW S, NEW n \in Nat, NEW f \in [1 .. n -> S]
  PROVE  f \in Seq(S) /\ Len(f) = n
<1>1. f \in Seq(S)
  BY SeqDef
<1>2. DOMAIN f = 1 .. Len(f) /\ Len(f) \in Nat
  BY <1>1, LenProperties
<1> QED
  BY <1>1, <1>2

(* The first byte of a chunk, and the chunk behind it. *)
LEMMA ChunkHead ==
  ASSUME LoopTypeOK, OneSender, pc = "rx"
  PROVE  /\ chunk # <<>> /\ chunk[1].by \in Clients /\ chunk[1].ch \in Byte
         /\ Tail(chunk) \in Seq(ChunkByte)
         /\ \A i \in 1 .. Len(Tail(chunk)) : Tail(chunk)[i].by = chunk[1].by
         /\ Tail(chunk) # <<>> => Len(Tail(chunk)) \in Nat \ {0}
<1>1. chunk \in Seq(ChunkByte) /\ chunk # <<>>
  BY DEF LoopTypeOK, OneSender, ChunkByte, Byte
<1>2. Len(chunk) \in Nat \ {0}
  BY <1>1, EmptySeq
<1>3. chunk[1] \in ChunkByte
  BY <1>1, <1>2, ElementOfSeq
<1>4. /\ Tail(chunk) \in Seq(ChunkByte) /\ Len(Tail(chunk)) = Len(chunk) - 1
      /\ \A i \in 1 .. Len(Tail(chunk)) : Tail(chunk)[i] = chunk[i + 1]
  BY <1>1, HeadTailProperties
<1>5. \A i \in 1 .. Len(Tail(chunk)) : Tail(chunk)[i].by = chunk[1].by
  BY <1>2, <1>4 DEF OneSender
<1>6. Tail(chunk) # <<>> => Len(Tail(chunk)) \in Nat \ {0}
  BY <1>4, EmptySeq
<1> QED
  BY <1>1, <1>3, <1>4, <1>5, <1>6 DEF ChunkByte

(* The text of the line is a sequence of typed characters. *)
LEMMA TextTyped ==
  ASSUME LoopTypeOK, LineTyped
  PROVE  Text \in Seq(Char)
<1>1. cmdLen \in Nat
  BY LinkAssumption DEF LoopTypeOK
<1>2. Text \in [1 .. cmdLen -> Char]
  BY <1>1 DEF Text, LineTyped
<1> QED
  BY <1>1, <1>2, FunctionIsSeq

-----------------------------------------------------------------------------
(* Steps shared by several actions *)

(* close_client, and a send that fails, leave no connection open. *)
LEMMA ClosedIsClosed ==
  ASSUME LoopTypeOK, OneSession
  PROVE  /\ Closed(session) \in [Clients -> {"new", "backlog", "open", "closed"}]
         /\ \A c \in Clients : Closed(session)[c] # "open"
         /\ \A c \in Clients : session[c] = "backlog" => Closed(session)[c] = "backlog"
BY DEF LoopTypeOK, OneSession, Closed

(* send_async_packet keeps the client and its session, or gives both up.   *)
LEMMA SendKeepsSession ==
  ASSUME LoopTypeOK, OneSession, NEW fails \in BOOLEAN, SendPacket(fails)
  PROVE  /\ client' \in {client, NoClient}
         /\ session' \in [Clients -> {"new", "backlog", "open", "closed"}]
         /\ {c \in Clients : session'[c] = "open"} = {client'} \ {NoClient}
         /\ ~fails => client' = client
<1>1. CASE client = NoClient \/ ~fails
  BY <1>1 DEF SendPacket, LoopTypeOK, OneSession
<1>2. CASE client # NoClient /\ fails
  <2>1. client' = NoClient /\ session' = Closed(session)
    BY <1>2 DEF SendPacket
  <2> QED
    BY <1>2, <2>1, ClosedIsClosed
<1> QED
  BY <1>1, <1>2

(* A byte worked off leaves the rest of the chunk of the same client. *)
LEMMA EatKeeps ==
  ASSUME LoopTypeOK, OneSender, pc = "rx", Eat, client' \in {client, NoClient}
  PROVE  /\ pc' \in {"rx", "serial"} /\ chunk' \in Seq(ChunkByte)
         /\ eaten' \in [Clients -> Seq(Byte)]
         /\ OneSender'
         /\ pc' = "rx" => chunk'[1].by = chunk[1].by
<1>1. /\ chunk[1].by \in Clients /\ chunk[1].ch \in Byte /\ chunk # <<>>
      /\ Tail(chunk) \in Seq(ChunkByte)
      /\ \A i \in 1 .. Len(Tail(chunk)) : Tail(chunk)[i].by = chunk[1].by
      /\ Tail(chunk) # <<>> => Len(Tail(chunk)) \in Nat \ {0}
  BY ChunkHead
<1>2. /\ chunk' = Tail(chunk)
      /\ pc' = IF Tail(chunk) = <<>> THEN "serial" ELSE "rx"
      /\ eaten' = [eaten EXCEPT ![chunk[1].by] = Append(@, chunk[1].ch)]
  BY DEF Eat
<1>3. Append(eaten[chunk[1].by], chunk[1].ch) \in Seq(Byte)
  BY <1>1, AppendProperties DEF LoopTypeOK, Byte
<1>4. eaten' \in [Clients -> Seq(Byte)]
  BY <1>2, <1>3 DEF LoopTypeOK, Byte
<1>5. chunk' # <<>> => chunk'[1].by = chunk[1].by
  <2> SUFFICES ASSUME Tail(chunk) # <<>>
               PROVE  Tail(chunk)[1].by = chunk[1].by
    BY <1>2
  <2>1. 1 \in 1 .. Len(Tail(chunk))
    BY <1>1
  <2> QED
    BY <1>1, <2>1
<1>6. OneSender'
  BY <1>1, <1>2, <1>5 DEF OneSender
<1> QED
  BY <1>1, <1>2, <1>4, <1>5, <1>6

(* A line is executed for the one client that typed it. *)
LEMMA ExecutedBySole ==
  ASSUME LinkInv, pc = "rx", cmdLen > 0, NEW reset \in BOOLEAN,
         done' = Executed(reset)
  PROVE  done' \in Seq(ExecutedLine) /\ SoleAuthor'
<1>1. chunk[1].by \in Clients
  BY ChunkHead DEF LinkInv, LinkCore
<1>2. lineBy \cup {chunk[1].by} = {chunk[1].by}
  BY DEF LinkInv, LinkCore, OneWriter
<1> DEFINE line == [by |-> lineBy \cup {chunk[1].by}, reset |-> reset, text |-> Text]
<1>3. Text \in Seq(Char)
  BY TextTyped DEF LinkInv, LinkCore
<1>4. line \in ExecutedLine /\ line.by = {chunk[1].by}
  BY <1>1, <1>2, <1>3 DEF ExecutedLine
<1>5. done \in Seq(ExecutedLine) /\ done' = Append(done, line)
  BY DEF LinkInv, LinkCore, LoopTypeOK, ExecutedLine, Executed
<1> HIDE DEF line
<1>6. /\ done' \in Seq(ExecutedLine) /\ Len(done') = Len(done) + 1
      /\ \A i \in 1 .. Len(done) : done'[i] = done[i]
      /\ done'[Len(done) + 1] = line
  BY <1>4, <1>5, AppendProperties
<1>7. /\ Len(done) \in Nat /\ DOMAIN done = 1 .. Len(done)
      /\ DOMAIN done' = 1 .. Len(done')
  BY <1>5, <1>6, LenProperties
<1>8. SoleAuthor'
  <2> SUFFICES ASSUME NEW i \in DOMAIN done'
               PROVE  \E c \in Clients : done'[i].by = {c}
    BY DEF SoleAuthor
  <2>1. CASE i \in 1 .. Len(done)
    BY <1>6, <1>7, <2>1 DEF LinkInv, LinkCore, SoleAuthor
  <2>2. CASE i = Len(done) + 1
    BY <1>1, <1>4, <1>6, <2>2
  <2> QED
    BY <1>6, <1>7, <2>1, <2>2
<1> QED
  BY <1>6, <1>8

-----------------------------------------------------------------------------
(* The invariant *)

LEMMA LinkInit == Init => LinkInv
<1> SUFFICES ASSUME Init
             PROVE  LinkInv
  OBVIOUS
<1>1. CmdBufSize \in Nat \ {0} /\ 0 \in 0 .. CmdBufSize - 1
  BY LinkAssumption, EmptySeq
<1>2. /\ <<>> \in Seq(ChunkByte) /\ <<>> \in Seq(Byte)
      /\ <<>> \in Seq(ExecutedLine)
  BY EmptySeq
<1>3. LoopTypeOK
  BY <1>1, <1>2 DEF Init, LoopTypeOK, Steps, ChunkByte, Byte, ExecutedLine
<1>4. SoleAuthor /\ OneSession
  BY DEF Init, SoleAuthor, OneSession
<1>5. OneSender /\ OneWriter /\ LineTyped /\ PolledServed /\ Writing
  BY EmptySeq DEF Init, OneSender, OneWriter, LineTyped, PolledServed, Writing
<1> QED
  BY <1>3, <1>4, <1>5 DEF LinkInv, LinkCore

(* What the clients do in their own time touches none of the server's own  *)
(* state, and opens no session.                                            *)
LEMMA LinkEnvironment ==
  ASSUME LinkInv, Environment
  PROVE  LinkCore'
<1> USE DEF LinkInv, LinkCore
<1>1. PICK d \in Clients : Connect(d) \/ HangUp(d) \/ \E b \in Byte : Type(d, b)
  BY DEF Environment, Byte
<1>2. UNCHANGED <<loopVars, histVars>>
  BY <1>1 DEF Connect, HangUp, Type
<1>3. /\ session' \in [Clients -> {"new", "backlog", "open", "closed"}]
      /\ {c \in Clients : session'[c] = "open"} = {c \in Clients : session[c] = "open"}
  BY <1>1 DEF Connect, HangUp, Type, LoopTypeOK
<1>4. inbox' \in [Clients -> Seq(Byte)]
  <2>1. CASE inbox' = inbox
    BY <2>1 DEF LoopTypeOK, Byte
  <2>2. ASSUME NEW b \in Byte, Type(d, b)
        PROVE  inbox' \in [Clients -> Seq(Byte)]
    <3>1. Append(inbox[d], b) \in Seq(Byte)
      BY AppendProperties DEF LoopTypeOK, Byte
    <3> QED
      BY <2>2, <3>1 DEF Type, LoopTypeOK, Byte
  <2> QED
    BY <1>1, <2>1, <2>2 DEF Connect, HangUp
<1>5. hungUp' \subseteq Clients
  BY <1>1 DEF Connect, HangUp, Type, LoopTypeOK
<1>6. LoopTypeOK'
  BY <1>2, <1>3, <1>4, <1>5 DEF LoopTypeOK, loopVars, histVars, Byte
<1>7. SoleAuthor' /\ OneSession'
  BY <1>2, <1>3 DEF SoleAuthor, OneSession, loopVars, histVars
<1>8. OneSender' /\ OneWriter' /\ LineTyped' /\ PolledServed'
  BY <1>2 DEF OneSender, OneWriter, LineTyped, PolledServed, loopVars, histVars
<1> QED
  BY <1>6, <1>7, <1>8

(* A new client takes the place of the old one, and no line with it. *)
LEMMA LinkAccept ==
  ASSUME LinkInv, Accept
  PROVE  LinkCore'
<1> USE DEF LinkInv, LinkCore
<1>1. /\ pc = "accept" /\ pc' = "client"
      /\ UNCHANGED <<revents, cmdBuf, chunk, inbox, hungUp,
                     eaten, unsent, lineBy, done>>
  BY DEF Accept
<1> DEFINE Served ==
      /\ session' \in [Clients -> {"new", "backlog", "open", "closed"}]
      /\ client' \in Clients \cup {NoClient}
      /\ {c \in Clients : session'[c] = "open"} = {client'} \ {NoClient}
      /\ client' = NoClient => client = NoClient
      /\ cmdLen' = 0 \/ (cmdLen' = cmdLen /\ client' = client)
<1>2. Served
  <2>1. CASE UNCHANGED <<session, client, cmdLen>>
    BY <2>1 DEF LoopTypeOK, OneSession
  <2>2. ASSUME NEW d \in Clients,
               session' = [Displaced(session) EXCEPT ![d] = "open"],
               client' = d, cmdLen' = LineAfterAccept
        PROVE  Served
    BY <2>2, ClosedIsClosed, LinkAssumption DEF Displaced, LineAfterAccept
  <2> QED
    BY <2>1, <2>2 DEF Accept
<1>3. 0 \in 0 .. CmdBufSize - 1
  BY LinkAssumption, EmptySeq DEF LoopTypeOK
<1>4. LoopTypeOK'
  BY <1>1, <1>2, <1>3 DEF LoopTypeOK, Steps
<1>5. SoleAuthor' /\ OneSession' /\ PolledServed'
  BY <1>1, <1>2 DEF SoleAuthor, OneSession, PolledServed
<1>6. OneSender' /\ OneWriter' /\ LineTyped'
  BY <1>1, <1>2 DEF OneSender, OneWriter, LineTyped
<1> QED
  BY <1>4, <1>5, <1>6

(* A chunk received is of the client served, whose line a line begun is.   *)
LEMMA LinkReceive ==
  ASSUME LinkInv, Receive
  PROVE  LinkCore'
<1> USE DEF LinkInv, LinkCore
<1>1. /\ pc = "client" /\ chunk = <<>>
      /\ UNCHANGED <<revents, cmdBuf, hungUp, eaten, unsent, lineBy, done>>
  BY DEF Receive, OneSender
<1>2. SoleAuthor'
  BY <1>1 DEF SoleAuthor
<1>3. ASSUME "client" \in revents, inbox[client] # <<>>, pc' = "rx",
             UNCHANGED <<client, cmdLen, session>>,
             NEW n, n = IF Len(inbox[client]) < ReadMax THEN Len(inbox[client]) ELSE ReadMax,
             chunk' = [i \in 1 .. n |-> [by |-> client, ch |-> inbox[client][i]]],
             inbox' = [inbox EXCEPT ![client] = SubSeq(@, n + 1, Len(@))]
      PROVE  LinkCore'
  <2>1. client \in Clients /\ inbox[client] \in Seq(Byte)
    BY <1>1, <1>3 DEF PolledServed, LoopTypeOK, Byte
  <2>2. n \in 1 .. Len(inbox[client])
    <3>1. Len(inbox[client]) \in Nat \ {0}
      BY <1>3, <2>1, EmptySeq, LenProperties
    <3> QED
      BY <1>3, <3>1, LinkAssumption
  <2>3. [i \in 1 .. n |-> [by |-> client, ch |-> inbox[client][i]]] \in [1 .. n -> ChunkByte]
    BY <2>1, <2>2, ElementOfSeq DEF ChunkByte
  <2>4. n \in Nat /\ Len(inbox[client]) \in Nat
    BY <2>1, <2>2, LenProperties
  <2>5. chunk' \in Seq(ChunkByte) /\ Len(chunk') = n
    BY <1>3, <2>3, <2>4, FunctionIsSeq
  <2>6. \A i \in 1 .. n : chunk'[i].by = client
    BY <1>3
  <2>7. n \in 0 .. Len(inbox[client])
    BY <2>2, <2>4
  <2>8. SubSeq(inbox[client], n + 1, Len(inbox[client])) \in Seq(Byte)
    BY <2>1, <2>7, RestOfSeq
  <2>9. inbox' \in [Clients -> Seq(Byte)]
    BY <1>3, <2>8 DEF LoopTypeOK, Byte
  <2>10. LoopTypeOK'
    BY <1>1, <1>3, <2>5, <2>9 DEF LoopTypeOK, Steps, ChunkByte, Byte
  <2>11. OneSession' /\ PolledServed' /\ LineTyped'
    BY <1>1, <1>3 DEF OneSession, PolledServed, LineTyped
  <2>12. chunk' # <<>> /\ chunk'[1].by = client
    BY <2>2, <2>4, <2>5, <2>6, EmptySeq
  <2>13. OneSender'
    BY <1>3, <2>5, <2>6, <2>12 DEF OneSender
  <2>14. OneWriter'
    <3> SUFFICES ASSUME cmdLen > 0
                 PROVE  lineBy = {client}
      BY <1>1, <1>3, <2>1, <2>12 DEF OneWriter
    <3> QED
      BY <2>1, LinkAssumption DEF OneWriter
  <2> QED
    BY <1>2, <2>10, <2>11, <2>13, <2>14
<1>4. ASSUME session' = Closed(session), client' = NoClient, cmdLen' = 0,
             pc' = "serial", UNCHANGED <<chunk, inbox>>
      PROVE  LinkCore'
  <2>1. 0 \in 0 .. CmdBufSize - 1
    BY LinkAssumption DEF LoopTypeOK
  <2>2. LoopTypeOK'
    BY <1>1, <1>4, <2>1, ClosedIsClosed DEF LoopTypeOK, Steps
  <2>3. OneSession' /\ PolledServed' /\ LineTyped'
    BY <1>1, <1>4, ClosedIsClosed DEF OneSession, PolledServed, LineTyped
  <2>4. OneSender' /\ OneWriter'
    BY <1>1, <1>4 DEF OneSender, OneWriter
  <2> QED
    BY <1>2, <2>2, <2>3, <2>4
<1>5. ASSUME pc' = "serial", UNCHANGED <<chunk, inbox, client, cmdLen, session>>
      PROVE  LinkCore'
  <2>1. LoopTypeOK'
    BY <1>1, <1>5 DEF LoopTypeOK, Steps
  <2>2. OneSession' /\ PolledServed' /\ LineTyped'
    BY <1>1, <1>5 DEF OneSession, PolledServed, LineTyped
  <2>3. OneSender' /\ OneWriter'
    BY <1>1, <1>5 DEF OneSender, OneWriter
  <2> QED
    BY <1>2, <2>1, <2>2, <2>3
<1> QED
  BY <1>3, <1>4, <1>5 DEF Receive

(* What a packet to the client may change, and where the loop goes on. *)
LEMMA LinkSerial ==
  ASSUME LinkInv, Serial
  PROVE  LinkCore'
<1> USE DEF LinkInv, LinkCore
<1>1. /\ pc = "serial" /\ pc' = "poll" /\ revents' = {} /\ chunk = <<>>
      /\ UNCHANGED <<cmdBuf, chunk, inbox, hungUp, eaten, unsent, lineBy, done>>
  BY DEF Serial, OneSender
<1>2. /\ client' \in {client, NoClient}
      /\ session' \in [Clients -> {"new", "backlog", "open", "closed"}]
      /\ {c \in Clients : session'[c] = "open"} = {client'} \ {NoClient}
      /\ cmdLen' \in {cmdLen, 0}
  <2>1. CASE UNCHANGED <<client, session, cmdLen>>
    BY <2>1 DEF LoopTypeOK, OneSession
  <2>2. ASSUME NEW fails \in BOOLEAN, SendPacket(fails),
               cmdLen' = IF fails THEN 0 ELSE cmdLen
        PROVE  cmdLen' \in {cmdLen, 0}
    BY <2>2
  <2> QED
    BY <2>1, <2>2, SendKeepsSession DEF Serial
<1>3. 0 \in 0 .. CmdBufSize - 1
  BY LinkAssumption DEF LoopTypeOK
<1>4. LoopTypeOK'
  BY <1>1, <1>2, <1>3 DEF LoopTypeOK, Steps
<1>5. SoleAuthor' /\ OneSession' /\ PolledServed'
  BY <1>1, <1>2 DEF SoleAuthor, OneSession, PolledServed
<1>6. OneSender' /\ OneWriter' /\ LineTyped'
  BY <1>1, <1>2 DEF OneSender, OneWriter, LineTyped
<1> QED
  BY <1>4, <1>5, <1>6

(* poll reports the client only while there is one. *)
LEMMA LinkPoll ==
  ASSUME LinkInv, Poll
  PROVE  LinkCore'
<1> USE DEF LinkInv, LinkCore
<1>1. /\ pc = "poll" /\ pc' = "accept" /\ revents' \subseteq {"listen", "client"}
      /\ "client" \in revents' => client # NoClient
      /\ UNCHANGED <<client, cmdBuf, cmdLen, chunk, peerVars, histVars>>
  BY DEF Poll, ClientReady
<1>2. LoopTypeOK'
  BY <1>1 DEF LoopTypeOK, Steps, peerVars, histVars
<1>3. SoleAuthor' /\ OneSession' /\ PolledServed'
  BY <1>1 DEF SoleAuthor, OneSession, PolledServed, peerVars, histVars
<1>4. OneSender' /\ OneWriter' /\ LineTyped'
  BY <1>1 DEF OneSender, OneWriter, LineTyped, peerVars, histVars
<1> QED
  BY <1>2, <1>3, <1>4

(* A byte appended to the line is of the client whose line it is; a line   *)
(* that is too long is discarded.                                          *)
LEMMA LinkRxChar ==
  ASSUME LinkInv, RxChar
  PROVE  LinkCore'
<1> USE DEF LinkInv, LinkCore
<1>1. /\ pc = "rx" /\ Eat /\ chunk[1].ch # Eol
      /\ UNCHANGED <<client, session, done, unsent, revents, inbox, hungUp>>
  BY DEF RxChar, Eat
<1>2. /\ pc' \in {"rx", "serial"} /\ chunk' \in Seq(ChunkByte)
      /\ eaten' \in [Clients -> Seq(Byte)] /\ OneSender'
      /\ pc' = "rx" => chunk'[1].by = chunk[1].by
  BY <1>1, EatKeeps
<1>3. /\ chunk[1].by \in Clients /\ chunk[1].ch \in Char
      /\ client \in {chunk[1].by, NoClient}
  BY <1>1, ChunkHead DEF Byte, OneSender
<1>4. cmdLen \in Nat /\ CmdBufSize \in Nat /\ cmdLen <= CmdBufSize - 1
  BY LinkAssumption DEF LoopTypeOK
<1>5. SoleAuthor' /\ OneSession' /\ PolledServed'
  BY <1>1, <1>2 DEF SoleAuthor, OneSession, PolledServed
<1>6. CASE RoomInLine
  <2>1. /\ cmdBuf' = [cmdBuf EXCEPT ![cmdLen] = chunk[1].ch]
        /\ cmdLen' = cmdLen + 1
        /\ lineBy' = {chunk[1].by} \cup IF cmdLen = 0 THEN {} ELSE lineBy
    BY <1>6 DEF RxChar
  <2>2. lineBy' = {chunk[1].by}
    BY <1>1, <1>4, <2>1 DEF OneWriter
  <2>3. cmdLen' \in 0 .. CmdBufSize - 1
    BY <1>4, <1>6, <2>1 DEF RoomInLine
  <2>4. cmdBuf' \in [0 .. CmdBufSize - 1 -> Char \cup {Nul}]
    BY <1>3, <2>1 DEF LoopTypeOK
  <2>5. LoopTypeOK'
    BY <1>1, <1>2, <1>3, <2>2, <2>3, <2>4 DEF LoopTypeOK, Steps, ChunkByte, Byte
  <2>6. OneWriter'
    BY <1>1, <1>2, <1>3, <2>2 DEF OneWriter
  <2>7. LineTyped'
    <3> SUFFICES ASSUME NEW i \in 0 .. cmdLen
                 PROVE  cmdBuf'[i] \in Char
      BY <1>4, <2>1 DEF LineTyped
    <3>1. cmdBuf'[cmdLen] = chunk[1].ch /\ \A j \in 0 .. cmdLen - 1 : cmdBuf'[j] = cmdBuf[j]
      BY <1>4, <2>1 DEF LoopTypeOK
    <3>2. CASE i = cmdLen
      BY <1>3, <3>1, <3>2
    <3>3. CASE i \in 0 .. cmdLen - 1
      BY <3>1, <3>3 DEF LineTyped
    <3> QED
      BY <1>4, <3>2, <3>3
  <2> QED
    BY <1>2, <1>5, <2>5, <2>6, <2>7
<1>7. CASE ~RoomInLine
  <2>1. cmdLen' = 0 /\ UNCHANGED <<cmdBuf, lineBy>> /\ 0 \in 0 .. CmdBufSize - 1
    BY <1>4, <1>7 DEF RxChar
  <2>2. LoopTypeOK'
    BY <1>1, <1>2, <2>1 DEF LoopTypeOK, Steps, ChunkByte, Byte
  <2>3. OneWriter' /\ LineTyped'
    BY <2>1 DEF OneWriter, LineTyped
  <2> QED
    BY <1>2, <1>5, <2>2, <2>3
<1> QED
  BY <1>6, <1>7

(* The end of a line leaves an empty line. *)
LEMMA LinkLineEnd ==
  ASSUME LinkInv, pc = "rx", Eat, UNCHANGED <<cmdBuf, lineBy>>, cmdLen' = 0,
         client' \in {client, NoClient},
         session' \in [Clients -> {"new", "backlog", "open", "closed"}],
         {c \in Clients : session'[c] = "open"} = {client'} \ {NoClient},
         done' \in Seq(ExecutedLine), SoleAuthor'
  PROVE  LinkCore'
<1> USE DEF LinkInv, LinkCore
<1>1. /\ pc' \in {"rx", "serial"} /\ chunk' \in Seq(ChunkByte)
      /\ eaten' \in [Clients -> Seq(Byte)] /\ OneSender'
  BY EatKeeps
<1>2. UNCHANGED <<revents, inbox, hungUp>>
  BY DEF Eat
<1>3. 0 \in 0 .. CmdBufSize - 1
  BY LinkAssumption DEF LoopTypeOK
<1>4. LoopTypeOK'
  BY <1>1, <1>2, <1>3 DEF LoopTypeOK, Steps, ChunkByte, Byte, ExecutedLine
<1>5. OneSession' /\ PolledServed' /\ OneWriter' /\ LineTyped'
  BY <1>1 DEF OneSession, PolledServed, OneWriter, LineTyped
<1> QED
  BY <1>1, <1>4, <1>5

LEMMA LinkEmptyLine ==
  ASSUME LinkInv, EmptyLine
  PROVE  LinkCore'
<1>1. /\ pc = "rx" /\ cmdLen = 0 /\ Eat
      /\ UNCHANGED <<client, session, cmdBuf, cmdLen, lineBy, done, unsent>>
  BY DEF EmptyLine
<1>2. SoleAuthor'
  BY <1>1 DEF LinkInv, LinkCore, SoleAuthor
<1>3. /\ session' \in [Clients -> {"new", "backlog", "open", "closed"}]
      /\ {c \in Clients : session'[c] = "open"} = {client'} \ {NoClient}
      /\ done' \in Seq(ExecutedLine)
  BY <1>1 DEF LinkInv, LinkCore, LoopTypeOK, OneSession, ExecutedLine, Byte
<1> QED
  BY <1>1, <1>2, <1>3, LinkLineEnd

LEMMA LinkResetLine ==
  ASSUME LinkInv, ResetLine
  PROVE  LinkCore'
<1>1. /\ pc = "rx" /\ cmdLen > 0 /\ Eat /\ done' = Executed(TRUE) /\ cmdLen' = 0
      /\ UNCHANGED <<cmdBuf, lineBy>>
  BY DEF ResetLine
<1>2. done' \in Seq(ExecutedLine) /\ SoleAuthor'
  BY <1>1, ExecutedBySole
<1>3. PICK fails \in BOOLEAN : SendPacket(fails)
  BY DEF ResetLine
<1>4. /\ client' \in {client, NoClient}
      /\ session' \in [Clients -> {"new", "backlog", "open", "closed"}]
      /\ {c \in Clients : session'[c] = "open"} = {client'} \ {NoClient}
  BY <1>3, SendKeepsSession DEF LinkInv, LinkCore
<1> QED
  BY <1>1, <1>2, <1>4, LinkLineEnd

LEMMA LinkLastWrite ==
  ASSUME LinkInv, LastWrite
  PROVE  LinkCore'
<1>1. /\ pc = "rx" /\ cmdLen > 0 /\ Eat /\ done' = Executed(FALSE) /\ cmdLen' = 0
      /\ UNCHANGED <<client, session, cmdBuf, lineBy>>
  BY DEF LastWrite, LinkInv, Writing
<1>2. done' \in Seq(ExecutedLine) /\ SoleAuthor'
  BY <1>1, ExecutedBySole
<1>3. /\ session' \in [Clients -> {"new", "backlog", "open", "closed"}]
      /\ {c \in Clients : session'[c] = "open"} = {client'} \ {NoClient}
      /\ client' \in {client, NoClient}
  BY <1>1 DEF LinkInv, LinkCore, LoopTypeOK, OneSession
<1> QED
  BY <1>1, <1>2, <1>3, LinkLineEnd

(* The steps that write touch nothing of the loop's but what is unsent. *)
LEMMA LinkWrites ==
  ASSUME LinkInv, CommandLine \/ WritePart \/ UNCHANGED vars
  PROVE  LinkCore'
<1>1. UNCHANGED <<pc, revents, client, cmdBuf, cmdLen, chunk, session, inbox, hungUp,
                  eaten, lineBy, done>>
  BY DEF CommandLine, WritePart, vars, loopVars, peerVars, histVars
<1>2. LoopTypeOK' /\ SoleAuthor' /\ OneSession'
  BY <1>1 DEF LinkInv, LinkCore, LoopTypeOK, SoleAuthor, OneSession
<1>3. OneSender' /\ OneWriter' /\ LineTyped' /\ PolledServed'
  BY <1>1 DEF LinkInv, LinkCore, OneSender, OneWriter, LineTyped, PolledServed
<1> QED
  BY <1>2, <1>3 DEF LinkCore

(* A command is written from its own line end on, and nothing else happens *)
(* in the loop until it is out or given up.                                *)
LEMMA LinkWriting ==
  ASSUME LinkInv, [Next]_vars
  PROVE  Writing'
<1>1. CASE CommandLine \/ WritePart
  BY <1>1 DEF CommandLine, WritePart, LinkInv, Writing, IsReset
<1>2. CASE LastWrite
  BY <1>2 DEF LastWrite, Writing
<1>3. CASE Poll \/ Accept \/ Receive \/ Serial
  <2>1. pc # "rx" /\ unsent' = unsent
    BY <1>3 DEF Poll, Accept, Receive, Serial
  <2> QED BY <2>1 DEF LinkInv, Writing
<1>4. CASE RxChar \/ EmptyLine \/ ResetLine
  <2>1. unsent' = unsent
    BY <1>4 DEF RxChar, EmptyLine, ResetLine
  <2>2. chunk[1].ch # Eol \/ cmdLen = 0 \/ IsReset
    BY <1>4 DEF RxChar, EmptyLine, ResetLine
  <2>3. unsent = <<>>
    BY <2>2 DEF LinkInv, Writing
  <2> QED BY <2>1, <2>3 DEF Writing
<1>5. CASE Environment \/ UNCHANGED vars
  <2>1. UNCHANGED <<pc, chunk, cmdLen, cmdBuf, unsent>>
    BY <1>5 DEF Environment, Connect, HangUp, Type, vars, loopVars
  <2> QED BY <2>1 DEF LinkInv, Writing, IsReset
<1> QED
  BY <1>1, <1>2, <1>3, <1>4, <1>5 DEF Next, Loop

LEMMA LinkNext == LinkInv /\ [Next]_vars => LinkInv'
<1> SUFFICES ASSUME LinkInv, [Next]_vars
             PROVE  LinkInv'
  OBVIOUS
<1>0. LinkCore' => LinkInv'
  BY LinkWriting DEF LinkInv
<1>1. CASE Poll \/ Accept \/ Receive \/ Serial
  BY <1>0, <1>1, LinkPoll, LinkAccept, LinkReceive, LinkSerial
<1>2. CASE RxChar \/ EmptyLine \/ ResetLine \/ LastWrite
  BY <1>0, <1>2, LinkRxChar, LinkEmptyLine, LinkResetLine, LinkLastWrite
<1>3. CASE Environment
  BY <1>0, <1>3, LinkEnvironment
<1>4. CASE CommandLine \/ WritePart \/ UNCHANGED vars
  BY <1>0, <1>4, LinkWrites
<1> QED
  BY <1>1, <1>2, <1>3, <1>4 DEF Next, Loop

LEMMA LinkInvariant == Spec => []LinkInv
BY LinkInit, LinkNext, PTL DEF Spec

-----------------------------------------------------------------------------
(* However many clients displace each other, and at whatever step, one     *)
(* connection at most is open and it is g_client_fd: accept_new_client     *)
(* and close_client forget no descriptor, and recv has a client.           *)
THEOREM LinkOneSession == Spec => []OneSession
<1>1. LinkInv => OneSession
  BY DEF LinkInv, LinkCore
<1> QED
  BY LinkInvariant, <1>1, PTL

(* Every line _handle_client_command executes was typed by one client, for *)
(* any number of clients, line lengths and sizes of a read.                *)
THEOREM LinkSoleAuthor == Spec => []SoleAuthor
<1>1. LinkInv => SoleAuthor
  BY DEF LinkInv, LinkCore
<1> QED
  BY LinkInvariant, <1>1, PTL

-----------------------------------------------------------------------------
(* Induction, for sets of numbers *)

LEMMA NatMin ==
  ASSUME NEW T, T \subseteq Nat, T # {}
  PROVE  \E x \in T : \A y \in T : x =< y
<1> DEFINE R == OpToRel(<, Nat)
<1>1. IsWellFoundedOn(R, Nat)
  BY NatLessThanWellFounded
<1>2. R = {ss \in Nat \X Nat : ss[1] < ss[2]}
  BY DEF OpToRel
<1> HIDE DEF R
<1>3. PICK x \in T : \A y \in T : ~ (<<y, x>> \in R)
  BY <1>1, WFMin
<1>4. ASSUME NEW y \in T PROVE x =< y
  <2>1. x \in Nat /\ y \in Nat /\ <<y, x>> \notin R
    BY <1>3
  <2>2. ~ (y < x)
    BY <1>2, <2>1
  <2> QED BY <2>1, <2>2
<1> QED BY <1>4

LEMMA SetInduction ==
  ASSUME NEW T, 0 \in T, \A k \in Nat : k \in T => k + 1 \in T
  PROVE  Nat \subseteq T
<1> SUFFICES ASSUME Nat \ T # {} PROVE FALSE
  OBVIOUS
<1>1. PICK x \in Nat \ T : \A y \in Nat \ T : x =< y
  BY NatMin
<1>2. x # 0 /\ x - 1 \in Nat /\ (x - 1) + 1 = x
  BY <1>1
<1>3. x - 1 \notin T
  BY <1>2
<1>4. ~ (x =< x - 1)
  BY <1>2
<1> QED BY <1>1, <1>2, <1>3, <1>4

-----------------------------------------------------------------------------
(* What Folded makes of a sequence: its steps exist, those of a sequence   *)
(* are the first of those of a longer one.                                 *)
FoldSteps(w, step, start, s, n) ==
  w = [k \in 0 .. n |-> IF k = 0 THEN start ELSE step[s[k]][w[k - 1]]]

LEMMA FoldStepsExist ==
  ASSUME NEW step, NEW start, NEW s, NEW n \in Nat
  PROVE  \E w : FoldSteps(w, step, start, s, n)
<1> DEFINE T == {m \in Nat : \E w : FoldSteps(w, step, start, s, m)}
<1>1. 0 \in T
  <2> DEFINE w == [k \in 0 .. 0 |-> start]
  <2>1. w = [k \in 0 .. 0 |-> IF k = 0 THEN start ELSE step[s[k]][w[k - 1]]]
    OBVIOUS
  <2> HIDE DEF w
  <2> QED BY <2>1 DEF FoldSteps
<1>2. ASSUME NEW m \in Nat, m \in T PROVE m + 1 \in T
  <2>1. PICK w : w = [k \in 0 .. m |-> IF k = 0 THEN start ELSE step[s[k]][w[k - 1]]]
    BY <1>2 DEF FoldSteps
  <2> DEFINE v == [k \in 0 .. m + 1 |-> IF k = m + 1 THEN step[s[m + 1]][w[m]] ELSE w[k]]
  <2>2. \A k \in 0 .. m : k \in 0 .. m + 1 /\ k # m + 1
    OBVIOUS
  <2>3. \A k \in 0 .. m : v[k] = w[k]
    BY <2>2
  <2>4. ASSUME NEW k \in 0 .. m + 1 PROVE v[k] = IF k = 0 THEN start ELSE step[s[k]][v[k - 1]]
    <3>1. CASE k = m + 1
      <4>1. k # 0 /\ k - 1 = m /\ m \in 0 .. m
        BY <3>1
      <4>2. v[k] = step[s[k]][w[m]] /\ v[m] = w[m]
        BY <2>3, <3>1, <4>1
      <4> HIDE DEF v
      <4> QED BY <4>1, <4>2
    <3>2. CASE k # m + 1
      <4>1. k \in 0 .. m /\ (k # 0 => k - 1 \in 0 .. m)
        BY <3>2
      <4>2. w[k] = IF k = 0 THEN start ELSE step[s[k]][w[k - 1]]
        BY <2>1, <4>1
      <4> HIDE DEF v
      <4> QED BY <2>3, <4>1, <4>2
    <3> QED BY <3>1, <3>2
  <2>5. v = [k \in 0 .. m + 1 |-> v[k]]
    OBVIOUS
  <2> HIDE DEF v
  <2>6. v = [k \in 0 .. m + 1 |-> IF k = 0 THEN start ELSE step[s[k]][v[k - 1]]]
    BY <2>4, <2>5
  <2>7. FoldSteps(v, step, start, s, m + 1)
    BY <2>6 DEF FoldSteps
  <2> QED BY <2>7
<1> HIDE DEF T
<1>3. n \in T
  BY <1>1, <1>2, SetInduction
<1> QED BY <1>3 DEF T

LEMMA FoldStepsAgree ==
  ASSUME NEW step, NEW start, NEW s, NEW t, NEW m \in Nat, NEW n \in Nat, m =< n,
         \A k \in 1 .. m : s[k] = t[k],
         NEW w, FoldSteps(w, step, start, s, m), NEW v, FoldSteps(v, step, start, t, n)
  PROVE  v[m] = w[m]
<1> DEFINE T == {k \in Nat : k =< m => v[k] = w[k]}
<1>1. \A k \in 0 .. m : w[k] = IF k = 0 THEN start ELSE step[s[k]][w[k - 1]]
  BY DEF FoldSteps
<1>2. \A k \in 0 .. n : v[k] = IF k = 0 THEN start ELSE step[t[k]][v[k - 1]]
  BY DEF FoldSteps
<1>3. 0 \in T
  <2>1. 0 \in 0 .. m /\ 0 \in 0 .. n
    OBVIOUS
  <2> QED BY <1>1, <1>2, <2>1
<1>4. ASSUME NEW k \in Nat, k \in T PROVE k + 1 \in T
  <2> SUFFICES ASSUME k + 1 =< m PROVE v[k + 1] = w[k + 1]
    OBVIOUS
  <2>1. k + 1 \in 0 .. m /\ k + 1 \in 0 .. n /\ k + 1 # 0 /\ (k + 1) - 1 = k /\ k + 1 \in 1 .. m /\ k =< m
    OBVIOUS
  <2>2. v[k] = w[k] /\ s[k + 1] = t[k + 1]
    BY <1>4, <2>1
  <2>3. v[k + 1] = step[t[k + 1]][v[k]]
    BY <1>2, <2>1
  <2>4. w[k + 1] = step[s[k + 1]][w[k]]
    BY <1>1, <2>1
  <2> QED BY <2>2, <2>3, <2>4
<1> HIDE DEF T
<1>5. m \in T
  BY <1>3, <1>4, SetInduction
<1> QED BY <1>5 DEF T

(* One element more is one step more *)
LEMMA FoldedSteps ==
  ASSUME NEW step, NEW start, NEW s, Len(s) \in Nat
  PROVE  \E w : FoldSteps(w, step, start, s, Len(s)) /\ Folded(step, start, s) = w[Len(s)]
<1> DEFINE w == CHOOSE f : FoldSteps(f, step, start, s, Len(s))
<1>1. Folded(step, start, s) = w[Len(s)]
  BY DEF Folded, FoldSteps
<1>2. FoldSteps(w, step, start, s, Len(s))
  BY FoldStepsExist
<1> HIDE DEF w
<1> QED BY <1>1, <1>2

LEMMA FoldedEmpty ==
  ASSUME NEW step, NEW start
  PROVE  Folded(step, start, <<>>) = start
<1>1. Len(<<>>) = 0
  OBVIOUS
<1>2. PICK w : FoldSteps(w, step, start, <<>>, 0) /\ Folded(step, start, <<>>) = w[0]
  BY <1>1, FoldedSteps
<1>3. w[0] = start
  BY <1>2 DEF FoldSteps
<1> QED BY <1>2, <1>3

LEMMA FoldedAppend ==
  ASSUME NEW step, NEW start, NEW S, NEW s \in Seq(S), NEW x \in S
  PROVE  Folded(step, start, Append(s, x)) = step[x][Folded(step, start, s)]
<1> DEFINE n == Len(s)
           t == Append(s, x)
<1>1. n \in Nat /\ t \in Seq(S) /\ Len(t) = n + 1 /\ t[n + 1] = x /\ \A k \in 1 .. n : s[k] = t[k]
  BY AppendProperties
<1>2. n + 1 \in Nat /\ n =< n + 1 /\ n + 1 \in 0 .. n + 1 /\ n + 1 # 0 /\ (n + 1) - 1 = n
  BY <1>1
<1> HIDE DEF t
<1>3. PICK w : FoldSteps(w, step, start, s, n) /\ Folded(step, start, s) = w[n]
  BY <1>1, FoldedSteps
<1> HIDE DEF n
<1>4. PICK v : FoldSteps(v, step, start, t, n + 1) /\ Folded(step, start, t) = v[n + 1]
  BY <1>1, <1>2, FoldedSteps
<1>5. v[n] = w[n]
  BY <1>1, <1>2, <1>3, <1>4, FoldStepsAgree
<1>6. v[n + 1] = step[t[n + 1]][v[n]]
  <2>1. \A k \in 0 .. n + 1 : v[k] = IF k = 0 THEN start ELSE step[t[k]][v[k - 1]]
    BY <1>4 DEF FoldSteps
  <2> QED BY <1>2, <2>1
<1> QED BY <1>1, <1>3, <1>4, <1>5, <1>6 DEF t

-----------------------------------------------------------------------------
(* What the radar reads *)

(* A character sequence is a byte sequence *)
LEMMA CharsAreBytes == ASSUME NEW s \in Seq(Char) PROVE s \in Seq(Byte)
BY SeqMonotonic DEF Byte

(* The command executed last *)
LEMMA ExecutedType ==
  ASSUME LinkInv, NEW reset \in BOOLEAN, pc = "rx"
  PROVE  /\ [by |-> lineBy \cup {chunk[1].by}, reset |-> reset, text |-> Text] \in Executions
         /\ done \in Seq(Executions)
<1>1. chunk[1].by \in Clients
  BY ChunkHead DEF LinkInv, LinkCore
<1>2. Text \in Seq(Char)
  BY TextTyped DEF LinkInv, LinkCore
<1>3. lineBy \subseteq Clients /\ done \in Seq(Executions)
  BY DEF LinkInv, LinkCore, LoopTypeOK, Executions
<1> QED BY <1>1, <1>2, <1>3 DEF Executions

HeardLine == [of : Nat, before : Seq(Byte), line : Seq(Byte)]

(* Each line heard is of a command that got through, is that command       *)
(* behind what lay open when it began, and the commands come in order.     *)
HeardFits(i) ==
  /\ heard[i].of \in Commands \ lost
  /\ heard[i].line = heard[i].before \o done[heard[i].of].text
  /\ heard[i].before # <<>> => LostJustBefore(heard[i].of)
  /\ \A j \in 1 .. i - 1 : heard[j].of < heard[i].of

(* A piece lies open at the radar's end only behind a command that did not *)
(* get through; and what is out of the command under way, and what is not, *)
(* are that command behind that piece.                                     *)
PortInv ==
  /\ RadarTypeOK
  /\ \A i \in 1 .. Len(heard) : HeardFits(i)
  /\ Commands = lost \cup {heard[i].of : i \in 1 .. Len(heard)}
  /\ unsent = <<>> /\ open # <<>> => LostJustBefore(Len(done) + 1)
  /\ unsent # <<>> => /\ open \o unsent = before \o Command(Text)
                      /\ before # <<>> => LostJustBefore(Len(done) + 1)

LEMMA PortInit == Init => PortInv
<1> SUFFICES ASSUME Init PROVE PortInv
  OBVIOUS
<1>1. /\ done = <<>> /\ heard = <<>> /\ open = <<>> /\ unsent = <<>> /\ before = <<>> /\ lost = {}
      /\ gone = [lines |-> 0, bytes |-> 0]
  BY DEF Init
<1>2. <<>> \in Seq(Byte) /\ <<>> \in Seq(HeardLine) /\ Len(heard) = 0
  BY <1>1, EmptySeq
<1>3. RadarTypeOK
  BY <1>1, <1>2 DEF RadarTypeOK, Byte, HeardLine
<1>4. Commands = {} /\ {heard[i].of : i \in 1 .. Len(heard)} = {}
  BY <1>1, <1>2 DEF Commands
<1> QED BY <1>1, <1>2, <1>3, <1>4 DEF PortInv

(* An execution more *)
LEMMA DoneGrows ==
  ASSUME LinkInv, pc = "rx", NEW reset \in BOOLEAN, done' = Executed(reset)
  PROVE  /\ Len(done) \in Nat /\ DOMAIN done = 1 .. Len(done)
         /\ DOMAIN done' = 1 .. Len(done) + 1 /\ Len(done') = Len(done) + 1
         /\ \A k \in 1 .. Len(done) : done'[k] = done[k]
         /\ done'[Len(done) + 1].text = Text /\ done'[Len(done) + 1].reset = reset
         /\ Commands' = IF reset THEN Commands ELSE Commands \cup {Len(done) + 1}
         /\ Commands \subseteq 1 .. Len(done)
<1> DEFINE d == [by |-> lineBy \cup {chunk[1].by}, reset |-> reset, text |-> Text]
<1>1. d \in Executions /\ done \in Seq(Executions) /\ done' = Append(done, d)
  BY ExecutedType DEF Executed
<1>2. d.reset = reset /\ d.text = Text
  OBVIOUS
<1> HIDE DEF d
<1>3. /\ Len(done) \in Nat /\ DOMAIN done = 1 .. Len(done)
      /\ DOMAIN done' = 1 .. Len(done) + 1 /\ Len(done') = Len(done) + 1
      /\ \A k \in 1 .. Len(done) : done'[k] = done[k]
      /\ done'[Len(done) + 1] = d
  BY <1>1, AppendProperties, LenProperties
<1>4. Commands' = {k \in 1 .. Len(done) + 1 : ~done'[k].reset} /\ Commands = {k \in 1 .. Len(done) : ~done[k].reset}
  BY <1>3 DEF Commands
<1>5. Commands' = IF reset THEN Commands ELSE Commands \cup {Len(done) + 1}
  BY <1>2, <1>3, <1>4
<1> QED BY <1>2, <1>3, <1>4, <1>5

(* What was lost before a command stays so, whatever is executed later. *)
LEMMA LostStays ==
  ASSUME LinkInv, pc = "rx", NEW reset \in BOOLEAN, done' = Executed(reset),
         lost \subseteq lost', lost \subseteq Nat, NEW k \in 1 .. Len(done) + 1, LostJustBefore(k)
  PROVE  LostJustBefore(k)'
<1>1. PICK j \in lost : j < k /\ \A i \in Commands : j < i /\ i < k => i \in lost
  BY DEF LostJustBefore
<1>2. /\ Len(done) \in Nat /\ Commands' \subseteq Commands \cup {Len(done) + 1}
      /\ Commands \subseteq 1 .. Len(done)
  BY DoneGrows
<1>3. ASSUME NEW i \in Commands', j < i, i < k PROVE i \in lost'
  <2>1. i # Len(done) + 1
    BY <1>2, <1>3
  <2>2. i \in Commands
    BY <1>2, <2>1
  <2> QED BY <1>1, <1>3, <2>2
<1>4. j \in lost' /\ j < k
  BY <1>1
<1> QED BY <1>3, <1>4 DEF LostJustBefore

(* What makes a line heard fit, after a step *)
LEMMA HeardAgain ==
  ASSUME NEW i, NEW k, heard'[i].of = k,
         k \in Commands' \ lost',
         heard'[i].line = heard'[i].before \o done'[k].text,
         heard'[i].before # <<>> => LostJustBefore(k)',
         \A j \in 1 .. i - 1 : heard'[j].of < k
  PROVE  HeardFits(i)'
<1>1. LostJustBefore(heard[i].of)' <=> LostJustBefore(k)'
  BY DEF LostJustBefore
<1> QED BY <1>1 DEF HeardFits

(* The lines heard before stay what they are, as long as none of their     *)
(* commands is lost.                                                       *)
LEMMA HeardStays ==
  ASSUME LinkInv, PortInv, pc = "rx", NEW reset \in BOOLEAN, done' = Executed(reset),
         lost \subseteq lost',
         NEW i \in 1 .. Len(heard), heard'[i] = heard[i], heard[i].of \notin lost',
         \A j \in 1 .. i - 1 : heard'[j] = heard[j]
  PROVE  HeardFits(i)'
<1>1. HeardFits(i) /\ heard \in Seq(HeardLine) /\ lost \subseteq Nat
  BY DEF PortInv, RadarTypeOK, HeardLine, Byte
<1>2. /\ Len(done) \in Nat /\ Commands \subseteq 1 .. Len(done) /\ Commands \subseteq Commands'
      /\ \A k \in 1 .. Len(done) : done'[k] = done[k]
  BY DoneGrows
<1>3. PICK k : k = heard[i].of
  OBVIOUS
<1>4. k \in Commands /\ k \in 1 .. Len(done) /\ k \in 1 .. Len(done) + 1 /\ k \in Commands' \ lost'
  <2>1. k \in Commands
    BY <1>1, <1>3 DEF HeardFits
  <2>2. k \in 1 .. Len(done)
    BY <1>2, <2>1
  <2> QED BY <1>2, <1>3, <2>1, <2>2
<1>5. heard[i].line = heard[i].before \o done'[k].text
  BY <1>1, <1>2, <1>3, <1>4 DEF HeardFits
<1>6. heard[i].before # <<>> => LostJustBefore(k)'
  <2>1. heard[i].before # <<>> => LostJustBefore(k)
    BY <1>1, <1>3 DEF HeardFits
  <2> QED BY <1>1, <1>4, <2>1, LostStays
<1>7. \A j \in 1 .. i - 1 : heard'[j].of < k
  BY <1>1, <1>3 DEF HeardFits
<1> QED BY <1>3, <1>4, <1>5, <1>6, <1>7, HeardAgain

(* A command begins: nothing of it is out. *)
LEMMA PortCommandLine == LinkInv /\ PortInv /\ CommandLine => PortInv'
<1> SUFFICES ASSUME LinkInv, PortInv, CommandLine PROVE PortInv'
  OBVIOUS
<1>1. /\ unsent = <<>> /\ unsent' = Command(Text) /\ before' = open
      /\ UNCHANGED <<done, heard, open, lost, gone, cmdLen, cmdBuf>>
  BY DEF CommandLine
<1>2. Text \in Seq(Byte) /\ Eol \in Byte
  BY TextTyped, CharsAreBytes DEF LinkInv, LinkCore, Byte
<1>3. Command(Text) \in Seq(Byte)
  BY <1>2, AppendProperties DEF Command
<1>4. RadarTypeOK'
  BY <1>1, <1>3 DEF PortInv, RadarTypeOK, Byte
<1>5. Text' = Text
  BY <1>1 DEF Text
<1>6. Command(Text)' = Command(Text)
  BY <1>5 DEF Command
<1>7. (\A i \in 1 .. Len(heard) : HeardFits(i))' /\ Commands' = Commands
  BY <1>1 DEF PortInv, HeardFits, Commands, LostJustBefore
<1>8. LostJustBefore(Len(done) + 1) <=> LostJustBefore(Len(done) + 1)'
  BY <1>1 DEF LostJustBefore, Commands
<1>9. unsent' # <<>>
  BY <1>1, <1>2, AppendProperties DEF Command
<1> QED BY <1>1, <1>4, <1>6, <1>7, <1>8, <1>9 DEF PortInv

(* A part written moves from what is unsent to what lies open. *)
LEMMA PortWritePart == LinkInv /\ PortInv /\ WritePart => PortInv'
<1> SUFFICES ASSUME LinkInv, PortInv, WritePart PROVE PortInv'
  OBVIOUS
<1>1. PICK n \in 1 .. Len(unsent) - 1 : open' = open \o SubSeq(unsent, 1, n) /\ unsent' = SubSeq(unsent, n + 1, Len(unsent))
  BY DEF WritePart, Unwritten
<1>2. UNCHANGED <<done, heard, before, lost, gone, cmdLen, cmdBuf>>
  BY DEF WritePart
<1>3. unsent \in Seq(Byte) /\ open \in Seq(Byte) /\ Len(unsent) \in Nat
  BY DEF PortInv, RadarTypeOK, Byte
<1>4. /\ SubSeq(unsent, 1, n) \in Seq(Byte) /\ SubSeq(unsent, n + 1, Len(unsent)) \in Seq(Byte)
      /\ SubSeq(unsent, 1, n) \o SubSeq(unsent, n + 1, Len(unsent)) = unsent
      /\ Len(SubSeq(unsent, n + 1, Len(unsent))) = Len(unsent) - n
  BY <1>3, <1>1
<1>5. open' \o unsent' = open \o unsent
  <2>1. (open \o SubSeq(unsent, 1, n)) \o SubSeq(unsent, n + 1, Len(unsent))
          = open \o (SubSeq(unsent, 1, n) \o SubSeq(unsent, n + 1, Len(unsent)))
    BY <1>3, <1>4, ConcatAssociative
  <2> QED BY <1>1, <1>4, <2>1
<1>6. unsent # <<>> /\ unsent' # <<>>
  <2>1. Len(unsent) > 0 /\ Len(unsent') > 0
    BY <1>1, <1>3, <1>4
  <2>2. Len(<<>>) = 0
    OBVIOUS
  <2> QED BY <2>1, <2>2
<1>7. open' \in Seq(Byte)
  BY <1>1, <1>3, <1>4, ConcatProperties
<1>8. RadarTypeOK'
  BY <1>1, <1>2, <1>4, <1>7 DEF PortInv, RadarTypeOK, Byte
<1>9. Text' = Text
  BY <1>2 DEF Text
<1>10. (\A i \in 1 .. Len(heard) : HeardFits(i))' /\ Commands' = Commands
  BY <1>2 DEF PortInv, HeardFits, Commands, LostJustBefore
<1>11. LostJustBefore(Len(done) + 1) <=> LostJustBefore(Len(done) + 1)'
  BY <1>2 DEF LostJustBefore, Commands
<1>12. open' \o unsent' = before' \o Command(Text)'
  BY <1>2, <1>5, <1>6, <1>9 DEF PortInv, Command
<1> QED BY <1>2, <1>6, <1>8, <1>10, <1>11, <1>12 DEF PortInv

AllButLast(u) == SubSeq(u, 1, Len(u) - 1)

LEMMA EolIsByte == Eol \in Byte
BY DEF Byte

(* The open piece a and the unsent u are the command t behind the piece b. *)
Halfway(a, u, b, t) ==
  /\ a \in Seq(Byte) /\ u \in Seq(Byte) /\ b \in Seq(Byte) /\ t \in Seq(Byte)
  /\ u # <<>> /\ a \o u = b \o Command(t)

(* What is left when all but the end of a line is known *)
LEMMA WithoutEnd ==
  ASSUME NEW a, NEW u, NEW b, NEW t, Halfway(a, u, b, t)
  PROVE  a \o AllButLast(u) = b \o t
<1> USE DEF Halfway
<1> DEFINE w == Append(t, Eol)
           f == SubSeq(u, 1, Len(u) - 1)
<1>0. PICK n \in Nat : Len(u) = n + 1
  <2>1. Len(u) \in Nat \ {0}
    BY EmptySeq
  <2>2. Len(u) - 1 \in Nat /\ Len(u) = (Len(u) - 1) + 1
    BY <2>1
  <2> QED BY <2>2
<1>1. Len(a) \in Nat /\ Len(b) \in Nat /\ Len(t) \in Nat /\ Len(u) \in Nat \ {0}
  BY EmptySeq
<1>2. /\ w \in Seq(Byte) /\ Len(w) = Len(t) + 1 /\ \A i \in 1 .. Len(t) : w[i] = t[i]
  BY AppendProperties, EolIsByte
<1>3. /\ f \in Seq(Byte) /\ Len(f) = Len(u) - 1 /\ \A i \in 1 .. Len(u) - 1 : f[i] = u[i]
  <2>1. \A i \in 1 .. Len(u) - 1 : u[i] \in Byte
    BY <1>1, ElementOfSeq
  <2>2. 1 \in Int /\ Len(u) - 1 \in Int
    BY <1>1
  <2>3. /\ f \in Seq(Byte) /\ Len(f) = (IF 1 <= Len(u) - 1 THEN Len(u) - 1 - 1 + 1 ELSE 0)
        /\ \A i \in 1 .. Len(u) - 1 - 1 + 1 : f[i] = u[1 + i - 1]
    BY <2>1, <2>2, SubSeqProperties
  <2> HIDE DEF f
  <2>4. Len(f) = Len(u) - 1
    <3>1. Len(u) = n + 1
      BY <1>0
    <3>2. Len(f) = IF 1 <= n THEN n - 1 + 1 ELSE 0
      BY <2>3, <3>1
    <3>3. Len(f) = n
      BY <3>2
    <3> QED BY <3>1, <3>3
  <2>5. \A i \in 1 .. Len(u) - 1 : i \in 1 .. Len(u) - 1 - 1 + 1 /\ 1 + i - 1 = i
    BY <1>1
  <2>6. ASSUME NEW i \in 1 .. Len(u) - 1 PROVE f[i] = u[i]
    BY <2>3, <2>5
  <2> QED BY <2>3, <2>4, <2>6
<1> HIDE DEF w, f
<1>4. a \o u = b \o w
  BY DEF w, Command
<1>5. /\ a \o u \in Seq(Byte) /\ Len(a \o u) = Len(a) + Len(u)
      /\ \A i \in 1 .. Len(a) + Len(u) : (a \o u)[i] = IF i <= Len(a) THEN a[i] ELSE u[i - Len(a)]
  BY ConcatProperties
<1>6. /\ a \o f \in Seq(Byte) /\ Len(a \o f) = Len(a) + Len(f)
      /\ \A i \in 1 .. Len(a) + Len(f) : (a \o f)[i] = IF i <= Len(a) THEN a[i] ELSE f[i - Len(a)]
  BY <1>3, ConcatProperties
<1>7. /\ b \o w \in Seq(Byte) /\ Len(b \o w) = Len(b) + Len(w)
      /\ \A i \in 1 .. Len(b) + Len(w) : (b \o w)[i] = IF i <= Len(b) THEN b[i] ELSE w[i - Len(b)]
  BY <1>2, ConcatProperties
<1>8. /\ b \o t \in Seq(Byte) /\ Len(b \o t) = Len(b) + Len(t)
      /\ \A i \in 1 .. Len(b) + Len(t) : (b \o t)[i] = IF i <= Len(b) THEN b[i] ELSE t[i - Len(b)]
  BY ConcatProperties
<1>9. Len(a \o f) = Len(b \o t)
  BY <1>1, <1>2, <1>3, <1>4, <1>5, <1>6, <1>7, <1>8
<1>10. ASSUME NEW i \in 1 .. Len(a) + Len(f) PROVE (a \o f)[i] = (b \o t)[i]
  <2>1. i \in Nat /\ i \in 1 .. Len(a) + Len(u) /\ (i > Len(a) => i - Len(a) \in 1 .. Len(u) - 1)
    BY <1>1, <1>3
  <2>2. (a \o f)[i] = (a \o u)[i]
    <3>1. /\ (a \o f)[i] = IF i <= Len(a) THEN a[i] ELSE f[i - Len(a)]
          /\ (a \o u)[i] = IF i <= Len(a) THEN a[i] ELSE u[i - Len(a)]
      BY <1>5, <1>6, <2>1
    <3>2. ~(i <= Len(a)) => i - Len(a) \in 1 .. Len(u) - 1
      BY <1>1, <2>1
    <3>3. ~(i <= Len(a)) => f[i - Len(a)] = u[i - Len(a)]
      BY <1>3, <3>2
    <3> QED BY <3>1, <3>3
  <2>3. i \in 1 .. Len(b) + Len(t) /\ i \in 1 .. Len(b) + Len(w) /\ (i > Len(b) => i - Len(b) \in 1 .. Len(t))
    BY <1>1, <1>2, <1>6, <1>8, <1>9, <2>1
  <2>4. (b \o t)[i] = (b \o w)[i]
    <3>1. /\ (b \o t)[i] = IF i <= Len(b) THEN b[i] ELSE t[i - Len(b)]
          /\ (b \o w)[i] = IF i <= Len(b) THEN b[i] ELSE w[i - Len(b)]
      BY <1>7, <1>8, <2>3
    <3>2. ~(i <= Len(b)) => i - Len(b) \in 1 .. Len(t)
      BY <1>1, <2>1, <2>3
    <3>3. ~(i <= Len(b)) => t[i - Len(b)] = w[i - Len(b)]
      BY <1>2, <3>2
    <3> QED BY <3>1, <3>3
  <2> QED BY <1>4, <2>2, <2>4
<1>11. a \o f = b \o t
  BY <1>6, <1>8, <1>9, <1>10, SeqEqual
<1> QED BY <1>11 DEF f, AllButLast

(* The last write takes the end of the line, or the command is lost. *)
LEMMA PortLastWrite == LinkInv /\ PortInv /\ LastWrite => PortInv'
<1> SUFFICES ASSUME LinkInv, PortInv, LastWrite PROVE PortInv'
  OBVIOUS
<1>0. PICK k : k = Len(done) + 1
  OBVIOUS
<1>1. /\ pc = "rx" /\ unsent # <<>> /\ unsent' = <<>> /\ before' = <<>> /\ done' = Executed(FALSE)
      /\ gone' = gone
  BY DEF LastWrite
<1>2. /\ Len(done) \in Nat /\ Len(done') = k /\ done'[k].text = Text
      /\ DOMAIN done' = 1 .. k
      /\ Commands' = Commands \cup {k} /\ Commands \subseteq 1 .. Len(done)
  BY <1>0, <1>1, DoneGrows
<1>3. /\ heard \in Seq(HeardLine) /\ Len(heard) \in Nat /\ lost \subseteq Nat /\ open \in Seq(Byte)
      /\ unsent \in Seq(Byte) /\ before \in Seq(Byte) /\ gone \in [lines : Nat, bytes : Nat]
  BY DEF PortInv, RadarTypeOK, HeardLine, Byte
<1>4. k \in Nat /\ k \notin Commands /\ k \notin lost /\ \A i \in 1 .. Len(heard) : heard[i].of < k /\ heard[i].of # k
  <2>1. lost \subseteq Commands /\ \A i \in 1 .. Len(heard) : heard[i].of \in Commands
    BY DEF PortInv, HeardFits
  <2>2. \A c \in Commands : c < k /\ c # k
    BY <1>0, <1>2
  <2>3. k \in Nat
    BY <1>0, <1>2
  <2>4. k \notin Commands /\ k \notin lost
    BY <2>1, <2>2
  <2>5. \A i \in 1 .. Len(heard) : heard[i].of < k /\ heard[i].of # k
    BY <2>1, <2>2
  <2> QED BY <2>3, <2>4, <2>5
<1>5. <<>> \in Seq(Byte)
  BY EmptySeq
<1>6. CASE GivenUp
  <2>1. lost' = lost \cup {k} /\ heard' = heard /\ open' = open
    BY <1>0, <1>6 DEF GivenUp
  <2>2. RadarTypeOK'
    BY <1>1, <1>3, <1>4, <1>5, <2>1 DEF RadarTypeOK, HeardLine, Byte
  <2>3. \A i \in 1 .. Len(heard) : HeardFits(i)'
    <3> SUFFICES ASSUME NEW i \in 1 .. Len(heard) PROVE HeardFits(i)'
      OBVIOUS
    <3>1. heard[i].of \notin lost'
      BY <1>4, <2>1 DEF PortInv, HeardFits
    <3>2. lost \subseteq lost' /\ FALSE \in BOOLEAN
      BY <2>1
    <3> QED BY <1>1, <2>1, <3>1, <3>2, HeardStays
  <2>4. Commands' = lost' \cup {heard'[i].of : i \in 1 .. Len(heard')}
    BY <1>2, <2>1 DEF PortInv
  <2>5. LostJustBefore(Len(done) + 1)'
    <3>1. k \in lost' /\ k < k + 1
      BY <1>4, <2>1
    <3>2. \A i \in Commands' : ~(k < i /\ i < k + 1)
      <4>1. \A i \in Commands' : i =< k
        BY <1>0, <1>2
      <4> QED BY <1>0, <1>2, <4>1
    <3>3. Len(done') + 1 = k + 1
      BY <1>2
    <3> QED BY <3>1, <3>2, <3>3 DEF LostJustBefore
  <2> QED BY <1>1, <2>1, <2>2, <2>3, <2>4, <2>5 DEF PortInv
<1>7. CASE Taken
  <2> DEFINE l == [of |-> k, before |-> before, line |-> open \o SubSeq(unsent, 1, Len(unsent) - 1)]
  <2>1. heard' = Append(heard, l) /\ open' = <<>> /\ lost' = lost
    BY <1>0, <1>7 DEF Taken
  <2>2. Text \in Seq(Byte)
    BY TextTyped, CharsAreBytes DEF LinkInv, LinkCore
  <2>3. open \o unsent = before \o Command(Text)
    BY <1>1 DEF PortInv
  <2>4. open \o SubSeq(unsent, 1, Len(unsent) - 1) = before \o Text
    <3>1. open \in Seq(Byte) /\ unsent \in Seq(Byte) /\ unsent # <<>> /\ before \in Seq(Byte)
      BY <1>1, <1>3
    <3>2. open \o AllButLast(unsent) = before \o Text
      <4>1. Halfway(open, unsent, before, Text)
        BY <2>2, <2>3, <3>1 DEF Halfway
      <4> QED BY <4>1, WithoutEnd
    <3> QED BY <3>2 DEF AllButLast
  <2>5. before \o Text \in Seq(Byte)
    BY <1>3, <2>2, ConcatProperties
  <2>6. l \in HeardLine /\ l.of = k /\ l.before = before /\ l.line = before \o Text
    BY <1>3, <1>4, <2>4, <2>5 DEF HeardLine
  <2> HIDE DEF l
  <2>7. /\ heard' \in Seq(HeardLine) /\ Len(heard') = Len(heard) + 1 /\ heard'[Len(heard) + 1] = l
        /\ \A i \in 1 .. Len(heard) : heard'[i] = heard[i]
    BY <1>3, <2>1, <2>6, AppendProperties
  <2>8. RadarTypeOK'
    BY <1>1, <1>3, <1>5, <2>1, <2>7 DEF RadarTypeOK, HeardLine, Byte
  <2>9. ASSUME NEW i \in 1 .. Len(heard) PROVE HeardFits(i)'
    <3>1. heard[i].of \notin lost'
      BY <2>1 DEF PortInv, HeardFits
    <3>2. \A j \in 1 .. i - 1 : heard'[j] = heard[j]
      <4>1. \A j \in 1 .. i - 1 : j \in 1 .. Len(heard)
        BY <1>3
      <4> QED BY <2>7, <4>1
    <3>3. lost \subseteq lost' /\ FALSE \in BOOLEAN
      BY <2>1
    <3> QED BY <1>1, <2>7, <3>1, <3>2, <3>3, HeardStays
  <2> PICK m : m = Len(heard) + 1
    OBVIOUS
  <2>10. HeardFits(m)'
    <3>1. heard'[m].of = k /\ heard'[m].before = before /\ heard'[m].line = before \o Text
      BY <2>6, <2>7
    <3>2. before # <<>> => LostJustBefore(k)'
      <4>1. before # <<>> => LostJustBefore(k)
        BY <1>0, <1>1 DEF PortInv
      <4>2. k \in 1 .. Len(done) + 1
        BY <1>0, <1>2
      <4>3. lost \subseteq lost' /\ FALSE \in BOOLEAN
        BY <2>1
      <4> QED BY <1>1, <1>3, <4>1, <4>2, <4>3, LostStays
    <3>3. \A j \in 1 .. m - 1 : heard'[j].of < k
      <4>1. \A j \in 1 .. m - 1 : j \in 1 .. Len(heard)
        BY <1>3
      <4> QED BY <1>4, <2>7, <4>1
    <3>4. k \in Commands' \ lost'
      BY <1>2, <1>4, <2>1
    <3> QED BY <1>2, <3>1, <3>2, <3>3, <3>4, HeardAgain
  <2>11. \A i \in 1 .. Len(heard') : HeardFits(i)'
    BY <1>3, <2>7, <2>9, <2>10
  <2>12. {heard'[i].of : i \in 1 .. Len(heard')} = {heard[i].of : i \in 1 .. Len(heard)} \cup {k}
    <3>1. 1 .. Len(heard') = 1 .. Len(heard) \cup {m}
      BY <1>3, <2>7
    <3>2. heard'[m].of = k /\ \A i \in 1 .. Len(heard) : heard'[i].of = heard[i].of
      BY <2>6, <2>7
    <3> QED BY <3>1, <3>2
  <2>13. Commands' = lost' \cup {heard'[i].of : i \in 1 .. Len(heard')}
    BY <1>2, <2>1, <2>12 DEF PortInv
  <2> QED BY <1>1, <2>1, <2>8, <2>11, <2>13 DEF PortInv
<1> QED BY <1>6, <1>7 DEF LastWrite

(* A RESET drops the end of what was heard: the commands of it are lost,   *)
(* and a piece of one may lie open behind what is left.                    *)
LEMMA PortResetLine == LinkInv /\ PortInv /\ ResetLine => PortInv'
<1> SUFFICES ASSUME LinkInv, PortInv, ResetLine PROVE PortInv'
  OBVIOUS
<1>1. /\ pc = "rx" /\ unsent = <<>> /\ unsent' = <<>> /\ before' = before /\ done' = Executed(TRUE)
  BY DEF ResetLine, Flush, LinkInv, Writing
<1>2. /\ Len(done) \in Nat /\ Len(done') = Len(done) + 1 /\ Commands' = Commands
      /\ Commands \subseteq 1 .. Len(done)
  BY <1>1, DoneGrows
<1>3. /\ heard \in Seq(HeardLine) /\ Len(heard) \in Nat /\ lost \subseteq Nat /\ open \in Seq(Byte)
      /\ before \in Seq(Byte) /\ gone.lines \in Nat /\ gone.bytes \in Nat
  BY DEF PortInv, RadarTypeOK, HeardLine, Byte
<1> DEFINE lineAt(n) == IF n = Len(heard) THEN open ELSE heard[n + 1].line
<1>4. PICK n \in gone.lines .. Len(heard) :
        \E j \in (IF n = gone.lines THEN gone.bytes ELSE 0) .. Len(lineAt(n)) :
          /\ heard' = SubSeq(heard, 1, n) /\ open' = SubSeq(lineAt(n), 1, j)
          /\ lost' = lost \cup {heard[i].of : i \in n + 1 .. Len(heard)}
          /\ gone' = [lines |-> n, bytes |-> j]
  BY DEF ResetLine, Flush
<1>5. PICK j \in (IF n = gone.lines THEN gone.bytes ELSE 0) .. Len(lineAt(n)) :
          /\ heard' = SubSeq(heard, 1, n) /\ open' = SubSeq(lineAt(n), 1, j)
          /\ lost' = lost \cup {heard[i].of : i \in n + 1 .. Len(heard)}
          /\ gone' = [lines |-> n, bytes |-> j]
  BY <1>4
<1>6. n \in Nat /\ n =< Len(heard)
  BY <1>3
<1>7. \A i \in 1 .. Len(heard) : heard[i].of \in Nat /\ heard[i].line \in Seq(Byte)
  <2>1. \A i \in 1 .. Len(heard) : heard[i] \in HeardLine
    BY <1>3, ElementOfSeq
  <2> QED BY <2>1 DEF HeardLine
<1>8. lineAt(n) \in Seq(Byte)
  BY <1>3, <1>6, <1>7
<1> HIDE DEF lineAt
<1>9. j \in Nat /\ j =< Len(lineAt(n)) /\ Len(lineAt(n)) \in Nat
  BY <1>3, <1>8
<1>10. open' \in Seq(Byte) /\ (open' # <<>> => lineAt(n) # <<>>)
  <2>1. open' \in Seq(Byte) /\ Len(open') = j
    BY <1>5, <1>8, <1>9
  <2> QED BY <1>8, <1>9, <2>1, EmptySeq
<1>11. /\ heard' \in Seq(HeardLine) /\ Len(heard') = n
       /\ \A i \in 1 .. n : heard'[i] = heard[i]
  BY <1>3, <1>5, <1>6
<1>12. RadarTypeOK'
  <2>1. lost' \subseteq Nat
    <3>1. \A i \in n + 1 .. Len(heard) : heard[i].of \in Nat
      BY <1>3, <1>6, <1>7
    <3> QED BY <1>3, <1>5, <3>1
  <2>2. gone' \in [lines : Nat, bytes : Nat]
    BY <1>5, <1>6, <1>9
  <2>3. <<>> \in Seq(Byte)
    BY EmptySeq
  <2> QED BY <1>1, <1>3, <1>10, <1>11, <2>1, <2>2, <2>3 DEF RadarTypeOK, HeardLine, Byte
<1>13. ASSUME NEW i \in 1 .. n PROVE HeardFits(i)'
  <2>1. i \in 1 .. Len(heard) /\ \A m \in 1 .. i - 1 : m \in 1 .. n
    BY <1>6
  <2>2. heard[i].of \notin lost
    BY <2>1 DEF PortInv, HeardFits
  <2>3. \A m \in n + 1 .. Len(heard) : heard[i].of # heard[m].of
    <3> SUFFICES ASSUME NEW m \in n + 1 .. Len(heard) PROVE heard[i].of # heard[m].of
      OBVIOUS
    <3>1. m \in 1 .. Len(heard) /\ i \in 1 .. m - 1
      BY <1>3, <1>6
    <3>2. heard[i].of < heard[m].of
      BY <3>1 DEF PortInv, HeardFits
    <3> QED BY <1>7, <2>1, <3>1, <3>2
  <2>4. heard[i].of \notin lost' /\ lost \subseteq lost'
    BY <1>5, <2>2, <2>3
  <2> QED BY <1>1, <1>11, <2>1, <2>4, HeardStays
<1>14. Commands' = lost' \cup {heard'[i].of : i \in 1 .. Len(heard')}
  <2>1. {heard[i].of : i \in 1 .. Len(heard)}
          = {heard[i].of : i \in 1 .. n} \cup {heard[i].of : i \in n + 1 .. Len(heard)}
    BY <1>3, <1>6
  <2>2. {heard'[i].of : i \in 1 .. n} = {heard[i].of : i \in 1 .. n}
    BY <1>11
  <2> QED BY <1>2, <1>5, <1>11, <2>1, <2>2 DEF PortInv
<1>15. ASSUME open' # <<>> PROVE LostJustBefore(Len(done) + 1)'
  <2>1. ASSUME NEW c \in lost', c < Len(done) + 2, \A i \in Commands : c < i => i \in lost'
        PROVE  LostJustBefore(Len(done) + 1)'
    BY <1>2, <2>1 DEF LostJustBefore
  <2>2. CASE n = Len(heard)
    <3>1. open # <<>>
      BY <1>10, <1>15, <2>2 DEF lineAt
    <3>2. PICK c \in lost : c < Len(done) + 1 /\ \A i \in Commands : c < i /\ i < Len(done) + 1 => i \in lost
      BY <1>1, <3>1 DEF PortInv, LostJustBefore
    <3>3. c \in lost' /\ c < Len(done) + 2 /\ \A i \in Commands : c < i => i \in lost'
      BY <1>2, <1>3, <1>5, <3>2
    <3> QED BY <2>1, <3>3
  <2>3. CASE n < Len(heard)
    <3> DEFINE c == heard[Len(heard)].of
    <3>1. Len(heard) \in n + 1 .. Len(heard) /\ Len(heard) \in 1 .. Len(heard)
      BY <1>3, <1>6, <2>3
    <3>2. c \in lost' /\ c \in Commands
      BY <1>5, <3>1 DEF PortInv, HeardFits
    <3>3. ASSUME NEW i \in Commands, c < i PROVE i \in lost'
      <4>1. CASE i \in lost
        BY <1>5, <4>1
      <4>2. ASSUME NEW m \in 1 .. Len(heard), i = heard[m].of PROVE FALSE
        <5>1. CASE m = Len(heard)
          BY <1>7, <3>3, <4>2, <5>1
        <5>2. CASE m \in 1 .. Len(heard) - 1
          <6>1. heard[m].of < c
            BY <3>1, <5>2 DEF PortInv, HeardFits
          <6> QED BY <1>7, <3>1, <3>3, <4>2, <6>1
        <5> QED BY <1>3, <5>1, <5>2
      <4> QED BY <4>1, <4>2 DEF PortInv
    <3> HIDE DEF c
    <3> QED BY <1>2, <2>1, <3>2, <3>3
  <2> QED BY <1>3, <1>6, <2>2, <2>3
<1> QED BY <1>1, <1>11, <1>12, <1>13, <1>14, <1>15 DEF PortInv

LEMMA PortStep == LinkInv /\ PortInv /\ [Next]_vars => PortInv'
<1> SUFFICES ASSUME LinkInv, PortInv, [Next]_vars PROVE PortInv'
  OBVIOUS
<1>1. CASE UNCHANGED <<done, radarVars>> /\ unsent = <<>> /\ unsent' = <<>>
  <2>1. UNCHANGED <<done, heard, open, before, lost, gone, unsent>>
    BY <1>1 DEF radarVars
  <2>2. (\A i \in 1 .. Len(heard) : HeardFits(i))' /\ Commands' = Commands
    BY <2>1 DEF PortInv, HeardFits, Commands, LostJustBefore
  <2>3. LostJustBefore(Len(done) + 1) <=> LostJustBefore(Len(done) + 1)'
    BY <2>1 DEF LostJustBefore, Commands
  <2> QED BY <1>1, <2>1, <2>2, <2>3 DEF PortInv, RadarTypeOK
<1>2. CASE UNCHANGED <<done, radarVars, unsent, cmdBuf, cmdLen>>
  <2>1. UNCHANGED <<done, heard, open, before, lost, gone, unsent>>
    BY <1>2 DEF radarVars
  <2>2. (\A i \in 1 .. Len(heard) : HeardFits(i))' /\ Commands' = Commands
    BY <2>1 DEF PortInv, HeardFits, Commands, LostJustBefore
  <2>3. LostJustBefore(Len(done) + 1) <=> LostJustBefore(Len(done) + 1)'
    BY <2>1 DEF LostJustBefore, Commands
  <2>4. Command(Text)' = Command(Text)
    BY <1>2 DEF Command, Text
  <2> QED BY <2>1, <2>2, <2>3, <2>4 DEF PortInv, RadarTypeOK
<1>3. Poll \/ Accept \/ Receive \/ RxChar \/ EmptyLine \/ Serial
        => UNCHANGED <<done, radarVars>> /\ unsent = <<>> /\ unsent' = <<>>
  BY DEF Poll, Accept, Receive, RxChar, EmptyLine, Serial, LinkInv, Writing, histVars
<1>4. Environment \/ UNCHANGED vars => UNCHANGED <<done, radarVars, unsent, cmdBuf, cmdLen>>
  BY DEF Environment, Connect, HangUp, Type, vars, loopVars, histVars
<1> QED BY <1>1, <1>2, <1>3, <1>4, PortCommandLine, PortWritePart, PortLastWrite, PortResetLine DEF Next, Loop

LEMMA PortInvariant == Spec => []PortInv
BY LinkInvariant, PortInit, PortStep, PTL DEF Spec

(* The server's line buffer is never written out of its bounds, and every  *)
(* variable keeps its type, whatever the clients type.                     *)
THEOREM LinkTypeCorrect == Spec => []TypeOK
<1>1. LinkInv /\ PortInv => TypeOK
  BY DEF LinkInv, LinkCore, PortInv, TypeOK
<1> QED
  BY LinkInvariant, PortInvariant, <1>1, PTL

(* Through any partial writes, refusals and flushes the radar reads the    *)
(* commands that got through, each once, in order and whole, and no piece  *)
(* of another but of one lost directly before.                             *)
THEOREM LinkRadarReadsCommands == Spec => []RadarReadsCommands
<1>1. LinkInv /\ PortInv => RadarReadsCommands
  <2> SUFFICES ASSUME PortInv PROVE RadarReadsCommands
    OBVIOUS
  <2>1. DOMAIN heard = 1 .. Len(heard)
    BY DEF PortInv, RadarTypeOK
  <2> QED BY <2>1 DEF PortInv, HeardFits, RadarReadsCommands
<1> QED
  BY LinkInvariant, PortInvariant, <1>1, PTL

-----------------------------------------------------------------------------
(* Commands and lines *)

(* Cutting one byte more *)
LEMMA CutStep ==
  ASSUME NEW q \in Seq(Byte), NEW b \in Byte, Cut(q) \in Cuts
  PROVE  /\ Cut(Append(q, b)) \in Cuts
         /\ b # Eol => Cut(Append(q, b)) = [lines |-> Cut(q).lines, rest |-> Append(Cut(q).rest, b)]
         /\ b = Eol /\ Cut(q).rest = <<>> => Cut(Append(q, b)) = Cut(q)
         /\ b = Eol /\ Cut(q).rest # <<>> =>
              Cut(Append(q, b)) = [lines |-> Append(Cut(q).lines, Cut(q).rest), rest |-> <<>>]
<1> DEFINE start == [lines |-> <<>>, rest |-> <<>>]
           old == Cut(q)
           new == Cut(Append(q, b))
<1>1. Folded(AddByte, start, Append(q, b)) = AddByte[b][Folded(AddByte, start, q)]
  BY FoldedAppend
<1>2. new = AddByte[b][old]
  BY <1>1 DEF Cut
<1>3. old \in Cuts
  OBVIOUS
<1> HIDE DEF start, old, new
<1>4. new = IF b # Eol THEN [old EXCEPT !.rest = Append(old.rest, b)]
            ELSE IF old.rest = <<>> THEN old
            ELSE [lines |-> Append(old.lines, old.rest), rest |-> <<>>]
  <2>1. AddByte[b] = [cuts \in Cuts |-> IF b # Eol THEN [cuts EXCEPT !.rest = Append(cuts.rest, b)]
                                       ELSE IF cuts.rest = <<>> THEN cuts
                                       ELSE [lines |-> Append(cuts.lines, cuts.rest), rest |-> <<>>]]
    BY DEF AddByte, Byte
  <2> QED BY <1>2, <1>3, <2>1
<1>5. old.lines \in Seq(Seq(Char)) /\ old.rest \in Seq(Char) /\ old = [lines |-> old.lines, rest |-> old.rest]
  BY <1>3 DEF Cuts
<1>6. Append(old.lines, old.rest) \in Seq(Seq(Char))
  BY <1>5, AppendProperties
<1>7. b # Eol => b \in Char /\ Append(old.rest, b) \in Seq(Char)
  BY <1>5, AppendProperties DEF Byte
<1>8. <<>> \in Seq(Char)
  BY EmptySeq
<1>9. CASE b # Eol
  <2>1. new = [lines |-> old.lines, rest |-> Append(old.rest, b)]
    BY <1>4, <1>5, <1>9
  <2>2. new \in Cuts
    BY <1>5, <1>7, <1>9, <2>1 DEF Cuts
  <2> QED BY <1>9, <2>1, <2>2 DEF old, new
<1>10. CASE b = Eol /\ old.rest = <<>>
  <2>1. new = old
    BY <1>4, <1>10
  <2> QED BY <1>3, <1>10, <2>1 DEF old, new
<1>11. CASE b = Eol /\ old.rest # <<>>
  <2>1. new = [lines |-> Append(old.lines, old.rest), rest |-> <<>>]
    BY <1>4, <1>11
  <2>2. new \in Cuts
    BY <1>6, <1>8, <2>1 DEF Cuts
  <2> QED BY <1>11, <2>1, <2>2 DEF old, new
<1> QED BY <1>9, <1>10, <1>11

(* What was executed is what was typed, if none of the lines is mistakable *)
AsTyped(got, lines) ==
  (\A i \in 1 .. Len(lines) : ~Mistakable(lines[i])) =>
    /\ Len(got) = Len(lines)
    /\ \A i \in 1 .. Len(got) : got[i].text = lines[i] /\ got[i].reset = IsPrefix(Reset, lines[i])

LEMMA AsTypedAppend ==
  ASSUME NEW got \in Seq(Executions), NEW lines \in Seq(Seq(Char)), AsTyped(got, lines),
         NEW d \in Executions, NEW l \in Seq(Char),
         ~Mistakable(l) => d.text = l /\ d.reset = IsPrefix(Reset, l)
  PROVE  AsTyped(Append(got, d), Append(lines, l))
<1> DEFINE g == Append(got, d)
           t == Append(lines, l)
<1>1. /\ Len(got) \in Nat /\ Len(g) = Len(got) + 1 /\ g[Len(got) + 1] = d
      /\ \A i \in 1 .. Len(got) : g[i] = got[i]
  BY AppendProperties
<1>2. /\ Len(lines) \in Nat /\ Len(t) = Len(lines) + 1 /\ t[Len(lines) + 1] = l
      /\ \A i \in 1 .. Len(lines) : t[i] = lines[i]
  BY AppendProperties
<1> HIDE DEF g, t
<1> SUFFICES ASSUME \A i \in 1 .. Len(t) : ~Mistakable(t[i])
             PROVE  /\ Len(g) = Len(t)
                    /\ \A i \in 1 .. Len(g) : g[i].text = t[i] /\ g[i].reset = IsPrefix(Reset, t[i])
  BY DEF AsTyped, g, t
<1>3. \A i \in 1 .. Len(lines) : i \in 1 .. Len(t)
  BY <1>2
<1>4. \A i \in 1 .. Len(lines) : ~Mistakable(lines[i])
  BY <1>2, <1>3
<1>5. /\ Len(got) = Len(lines)
      /\ \A i \in 1 .. Len(got) : got[i].text = lines[i] /\ got[i].reset = IsPrefix(Reset, lines[i])
  BY <1>4 DEF AsTyped
<1>6. ~Mistakable(l)
  <2>1. Len(lines) + 1 \in 1 .. Len(t)
    BY <1>2
  <2> QED BY <1>2, <2>1
<1>7. ASSUME NEW i \in 1 .. Len(g) PROVE g[i].text = t[i] /\ g[i].reset = IsPrefix(Reset, t[i])
  <2>1. CASE i \in 1 .. Len(got)
    BY <1>1, <1>2, <1>5, <2>1
  <2>2. CASE i = Len(got) + 1
    BY <1>1, <1>2, <1>5, <1>6, <2>2
  <2> QED BY <1>1, <2>1, <2>2
<1> QED BY <1>1, <1>2, <1>5, <1>7

(* After a mistakable line nothing is said *)
LEMMA AsTypedMistakable ==
  ASSUME NEW got, NEW lines \in Seq(Seq(Char)), NEW l \in Seq(Char), Mistakable(l)
  PROVE  AsTyped(got, Append(lines, l))
<1> DEFINE t == Append(lines, l)
<1>1. Len(lines) \in Nat /\ Len(t) = Len(lines) + 1 /\ t[Len(lines) + 1] = l
  BY AppendProperties
<1> HIDE DEF t
<1>2. Len(lines) + 1 \in 1 .. Len(t)
  BY <1>1
<1>3. ~ \A i \in 1 .. Len(t) : ~Mistakable(t[i])
  BY <1>1, <1>2
<1> QED BY <1>3 DEF AsTyped, t

(* The text of the line, byte by byte *)
LEMMA TextProperties ==
  ASSUME LinkInv
  PROVE  /\ cmdLen \in Nat /\ Text \in Seq(Char) /\ Len(Text) = cmdLen
         /\ \A i \in 1 .. cmdLen : Text[i] = cmdBuf[i - 1]
<1>1. cmdLen \in Nat
  BY LinkAssumption DEF LinkInv, LinkCore, LoopTypeOK
<1>2. Text \in Seq(Char)
  BY TextTyped DEF LinkInv, LinkCore
<1>3. Text = [i \in 1 .. cmdLen |-> cmdBuf[i - 1]]
  BY DEF Text
<1>4. DOMAIN Text = 1 .. cmdLen
  BY <1>3
<1> QED BY <1>1, <1>2, <1>3, <1>4

(* The comparison of five bytes, whatever the length of the line, tells    *)
(* RESET lines from others, unless the line is a strict prefix of it.      *)
LEMMA ResetIsPrefix ==
  ASSUME LinkInv, ~Mistakable(Text)
  PROVE  IsReset = IsPrefix(Reset, Text)
<1>1. /\ cmdLen \in Nat /\ Text \in Seq(Char) /\ Len(Text) = cmdLen
      /\ \A i \in 1 .. cmdLen : Text[i] = cmdBuf[i - 1]
  BY TextProperties
<1>2. Reset \in Seq(Char) /\ Len(Reset) \in Nat
  BY LinkAssumption
<1>3. CASE Len(Reset) =< cmdLen
  <2>1. \A i \in 1 .. Len(Reset) : i \in 1 .. cmdLen
    BY <1>1, <1>2, <1>3
  <2>2. IsReset <=> \A i \in 1 .. Len(Reset) : Text[i] = Reset[i]
    BY <1>1, <2>1 DEF IsReset
  <2>3. IsPrefix(Reset, Text) <=> \A i \in 1 .. Len(Reset) : Text[i] = Reset[i]
    BY <1>1, <1>2, <1>3 DEF IsPrefix
  <2>4. IsReset \in BOOLEAN /\ IsPrefix(Reset, Text) \in BOOLEAN
    BY DEF IsReset, IsPrefix
  <2> QED BY <2>2, <2>3, <2>4
<1>4. CASE ~(Len(Reset) =< cmdLen)
  <2>1. ~IsPrefix(Reset, Text)
    BY <1>1, <1>4 DEF IsPrefix
  <2>2. ~IsPrefix(Text, Reset)
    <3>1. Text # Reset
      BY <1>1, <1>2, <1>4
    <3> QED BY <3>1 DEF Mistakable, IsStrictPrefix
  <2>3. PICK i \in 1 .. cmdLen : Text[i] # Reset[i]
    <3> SUFFICES ASSUME \A i \in 1 .. cmdLen : Text[i] = Reset[i] PROVE FALSE
      OBVIOUS
    <3>1. cmdLen =< Len(Reset)
      BY <1>1, <1>2, <1>4
    <3>2. IsPrefix(Text, Reset)
      BY <1>1, <1>2, <3>1 DEF IsPrefix
    <3> QED BY <2>2, <3>2
  <2>4. i \in 1 .. Len(Reset)
    BY <1>1, <1>2, <1>4
  <2>5. ~IsReset
    BY <1>1, <2>3, <2>4 DEF IsReset
  <2> QED BY <2>1, <2>5 DEF IsReset, IsPrefix
<1> QED BY <1>3, <1>4

(* A client that writes has in the command line what it typed since its    *)
(* last line end, unless that is too long; it writes from its first byte   *)
(* on, and no other then.                                                  *)
Writes(c) == client = c \/ (pc = "rx" /\ chunk[1].by = c)

Fits(c) == Len(Cut(eaten[c]).rest) < CmdBufSize => Text = Cut(eaten[c]).rest

LineInv ==
  /\ \A c \in Clients : /\ Cut(eaten[c]) \in Cuts /\ Mine(c) \in Seq(Executions)
                        /\ session[c] \in {"new", "backlog"} => eaten[c] = <<>>
                        /\ Writes(c) => Fits(c)
                        /\ AsTyped(Mine(c), Lines(c))
  /\ chunk # <<>> => session[chunk[1].by] \notin {"new", "backlog"}

LEMMA NothingTyped ==
  /\ Cut(<<>>) = [lines |-> <<>>, rest |-> <<>>] /\ Cut(<<>>) \in Cuts
  /\ Cut(<<>>).lines = <<>> /\ Cut(<<>>).rest = <<>>
<1>1. Cut(<<>>) = [lines |-> <<>>, rest |-> <<>>]
  BY FoldedEmpty DEF Cut
<1>2. <<>> \in Seq(Char) /\ <<>> \in Seq(Seq(Char))
  BY EmptySeq
<1>3. ASSUME NEW q, NEW a \in Seq(Seq(Char)), NEW b \in Seq(Char), q = [lines |-> a, rest |-> b]
      PROVE  q \in Cuts /\ q.lines = a /\ q.rest = b
  BY <1>3 DEF Cuts
<1> QED BY <1>1, <1>2, <1>3, Zenon

LEMMA LineInit == Init => LineInv
<1> SUFFICES ASSUME Init PROVE LineInv
  OBVIOUS
<1>1. /\ pc = "poll" /\ client = NoClient /\ chunk = <<>> /\ done = <<>>
      /\ eaten = [c \in Clients |-> <<>>]
  BY DEF Init
<1>2. ASSUME NEW c \in Clients
      PROVE  /\ Cut(eaten[c]) \in Cuts /\ Mine(c) \in Seq(Executions) /\ eaten[c] = <<>> /\ ~Writes(c)
             /\ AsTyped(Mine(c), Lines(c))
  <2>1. eaten[c] = <<>> /\ ~Writes(c)
    BY <1>1, LinkAssumption DEF Writes
  <2>2. Mine(c) = <<>> /\ Mine(c) \in Seq(Executions)
    <3>1. Mine(c) = <<>>
      BY <1>1, FoldedEmpty DEF Mine
    <3> QED BY <3>1, EmptySeq
  <2>3. Lines(c) = <<>> /\ Cut(eaten[c]) \in Cuts
    BY <2>1, NothingTyped DEF Lines
  <2>4. AsTyped(<<>>, <<>>)
    <3>1. Len(<<>>) = 0
      OBVIOUS
    <3> QED BY <3>1 DEF AsTyped
  <2> QED BY <2>1, <2>2, <2>3, <2>4
<1> QED BY <1>1, <1>2 DEF LineInv

(* Steps that eat no byte and execute nothing: a client begins to write    *)
(* with nothing typed and an empty line, or writes on.                     *)
LEMMA QuietStep ==
  ASSUME LineInv, UNCHANGED <<eaten, done>>,
         \A c \in Clients : session'[c] \in {"new", "backlog"} => session[c] \in {"new", "backlog"},
         chunk' # <<>> => session'[chunk'[1].by] \notin {"new", "backlog"},
         \A c \in Clients : Writes(c)' => \/ eaten[c] = <<>> /\ Text' = <<>>
                                          \/ Writes(c) /\ Text' = Text
  PROVE  LineInv'
<1> SUFFICES ASSUME NEW c \in Clients
             PROVE  (/\ Cut(eaten[c]) \in Cuts /\ Mine(c) \in Seq(Executions)
                     /\ session[c] \in {"new", "backlog"} => eaten[c] = <<>>
                     /\ Writes(c) => Fits(c)
                     /\ AsTyped(Mine(c), Lines(c)))'
  BY DEF LineInv
<1>1. Mine(c)' = Mine(c) /\ Lines(c)' = Lines(c)
  BY DEF Mine, Lines
<1>2. (Cut(eaten[c]) \in Cuts /\ Mine(c) \in Seq(Executions) /\ AsTyped(Mine(c), Lines(c)))'
  <2>1. Cut(eaten[c]) \in Cuts /\ Mine(c) \in Seq(Executions) /\ AsTyped(Mine(c), Lines(c))
    BY DEF LineInv
  <2>2. AsTyped(Mine(c), Lines(c))'
    BY <1>1, <2>1 DEF AsTyped
  <2> QED BY <1>1, <2>1, <2>2
<1>3. (session[c] \in {"new", "backlog"} => eaten[c] = <<>>)'
  BY DEF LineInv
<1>4. (Writes(c) => Fits(c))'
  <2> SUFFICES ASSUME Writes(c)' PROVE Fits(c)'
    OBVIOUS
  <2>1. CASE eaten[c] = <<>> /\ Text' = <<>>
    BY <2>1, NothingTyped DEF Fits
  <2>2. CASE Writes(c) /\ Text' = Text
    BY <2>2 DEF LineInv, Fits
  <2> QED BY <2>1, <2>2
<1> QED BY <1>2, <1>3, <1>4

(* The byte worked off is one byte more of the client that writes *)
LEMMA Eats ==
  ASSUME LinkInv, LineInv, pc = "rx", Eat, NEW w, w = chunk[1].by, NEW b, b = chunk[1].ch
  PROVE  /\ w \in Clients /\ b \in Byte /\ eaten[w] \in Seq(Byte) /\ Writes(w)
         /\ Cut(eaten[w]) \in Cuts /\ eaten'[w] = Append(eaten[w], b)
         /\ \A c \in Clients : c # w => eaten'[c] = eaten[c]
<1>1. w \in Clients /\ b \in Byte
  BY ChunkHead DEF LinkInv, LinkCore
<1>2. eaten \in [Clients -> Seq(Byte)]
  BY DEF LinkInv, LinkCore, LoopTypeOK, Byte
<1>3. eaten' = [eaten EXCEPT ![w] = Append(eaten[w], b)]
  BY DEF Eat
<1>4. Writes(w) /\ Cut(eaten[w]) \in Cuts
  BY <1>1 DEF Writes, LineInv
<1> QED BY <1>1, <1>2, <1>3, <1>4

(* What is to be shown of a step that eats a byte *)
LEMMA EatStep ==
  ASSUME LinkInv, LineInv, pc = "rx", Eat, NEW w, w = chunk[1].by,
         client' \in {client, NoClient}, session' \in {session, Closed(session)},
         \A c \in Clients : c # w => Mine(c)' = Mine(c),
         Cut(eaten'[w]) \in Cuts, Mine(w)' \in Seq(Executions), AsTyped(Mine(w), Lines(w))', Fits(w)'
  PROVE  LineInv'
<1> DEFINE b == chunk[1].ch
<1>1. /\ w \in Clients /\ b \in Byte /\ eaten[w] \in Seq(Byte) /\ Writes(w)
      /\ Cut(eaten[w]) \in Cuts /\ eaten'[w] = Append(eaten[w], b)
      /\ \A c \in Clients : c # w => eaten'[c] = eaten[c]
  BY Eats
<1>2. /\ pc' = "rx" => chunk'[1].by = w
      /\ OneSender'
  BY EatKeeps DEF LinkInv, LinkCore
<1>3. client \in {w, NoClient} /\ chunk # <<>>
  BY DEF LinkInv, LinkCore, OneSender
<1>4. \A c \in Clients : session'[c] \in {"new", "backlog"} => session[c] \in {"new", "backlog"}
  <2>1. session \in [Clients -> {"new", "backlog", "open", "closed"}]
    BY DEF LinkInv, LinkCore, LoopTypeOK
  <2> QED BY <2>1 DEF Closed
<1>5. session'[w] \notin {"new", "backlog"}
  BY <1>1, <1>3, <1>4 DEF LineInv
<1>6. chunk' # <<>> => session'[chunk'[1].by] \notin {"new", "backlog"}
  BY <1>2, <1>5 DEF OneSender
<1>7. ASSUME NEW c \in Clients, c # w
      PROVE  (/\ Cut(eaten[c]) \in Cuts /\ Mine(c) \in Seq(Executions)
              /\ session[c] \in {"new", "backlog"} => eaten[c] = <<>>
              /\ Writes(c) => Fits(c)
              /\ AsTyped(Mine(c), Lines(c)))'
  <2>1. eaten'[c] = eaten[c] /\ Mine(c)' = Mine(c)
    BY <1>1, <1>7
  <2>2. Lines(c)' = Lines(c)
    BY <2>1 DEF Lines
  <2>3. ~Writes(c)'
    BY <1>2, <1>3, <1>7, LinkAssumption DEF Writes
  <2>4. /\ Cut(eaten[c]) \in Cuts /\ Mine(c) \in Seq(Executions) /\ AsTyped(Mine(c), Lines(c))
        /\ session[c] \in {"new", "backlog"} => eaten[c] = <<>>
    BY DEF LineInv
  <2>5. AsTyped(Mine(c), Lines(c))'
    BY <2>1, <2>2, <2>4 DEF AsTyped
  <2>6. (session[c] \in {"new", "backlog"} => eaten[c] = <<>>)'
    BY <1>4, <2>1, <2>4
  <2> QED BY <2>1, <2>3, <2>4, <2>5, <2>6
<1>8. (/\ Cut(eaten[w]) \in Cuts /\ Mine(w) \in Seq(Executions)
       /\ session[w] \in {"new", "backlog"} => eaten[w] = <<>>
       /\ Writes(w) => Fits(w)
       /\ AsTyped(Mine(w), Lines(w)))'
  BY <1>5
<1> QED BY <1>6, <1>7, <1>8 DEF LineInv

(* A byte of a line goes on the line, or makes it too long *)
LEMMA LineRxChar == LinkInv /\ LineInv /\ RxChar => LineInv'
<1> SUFFICES ASSUME LinkInv, LineInv, RxChar PROVE LineInv'
  OBVIOUS
<1>1. pc = "rx" /\ chunk[1].ch # Eol /\ Eat /\ UNCHANGED <<client, session, done>>
  BY DEF RxChar
<1>2. PICK w, b : w = chunk[1].by /\ b = chunk[1].ch
  OBVIOUS
<1>3. /\ w \in Clients /\ b \in Byte /\ b # Eol /\ eaten[w] \in Seq(Byte) /\ Writes(w)
      /\ Cut(eaten[w]) \in Cuts /\ eaten'[w] = Append(eaten[w], b)
  BY <1>1, <1>2, Eats
<1> DEFINE old == Cut(eaten[w])
           new == Cut(eaten'[w])
<1>4. new \in Cuts /\ new = [lines |-> old.lines, rest |-> Append(old.rest, b)]
  BY <1>3, CutStep
<1>5. old.rest \in Seq(Char) /\ new.lines = old.lines /\ new.rest = Append(old.rest, b)
  BY <1>3, <1>4 DEF Cuts
<1>6. \A c \in Clients : Mine(c)' = Mine(c) /\ Mine(c) \in Seq(Executions)
  BY <1>1 DEF Mine, LineInv
<1>7. AsTyped(Mine(w), Lines(w))'
  <2>1. AsTyped(Mine(w), Lines(w))
    BY <1>3 DEF LineInv
  <2>2. Lines(w)' = Lines(w) /\ Mine(w)' = Mine(w)
    BY <1>3, <1>5, <1>6 DEF Lines
  <2> QED BY <2>1, <2>2 DEF AsTyped
<1>8. Fits(w)'
  <2> SUFFICES ASSUME Len(new.rest) < CmdBufSize PROVE Text' = new.rest
    BY DEF Fits
  <2>1. Len(old.rest) \in Nat /\ Len(new.rest) = Len(old.rest) + 1
    BY <1>5, AppendProperties
  <2>2. Text = old.rest /\ Len(old.rest) < CmdBufSize - 1
    BY <1>3, <2>1, LinkAssumption DEF LineInv, Fits
  <2>3. cmdLen \in Nat /\ Len(Text) = cmdLen /\ \A i \in 1 .. cmdLen : Text[i] = cmdBuf[i - 1]
    BY TextProperties
  <2>4. /\ cmdBuf' = [cmdBuf EXCEPT ![cmdLen] = b] /\ cmdLen' = cmdLen + 1
        /\ cmdBuf \in [0 .. CmdBufSize - 1 -> Char \cup {Nul}]
        /\ cmdLen \in 0 .. CmdBufSize - 1 /\ CmdBufSize \in Nat
    <3>1. cmdLen = Len(old.rest) /\ cmdLen < CmdBufSize - 1
      BY <2>2, <2>3
    <3>2. RoomInLine
      BY <3>1 DEF RoomInLine
    <3>3. cmdBuf' = [cmdBuf EXCEPT ![cmdLen] = b] /\ cmdLen' = cmdLen + 1
      BY <1>2, <3>2 DEF RxChar
    <3>4. /\ cmdBuf \in [0 .. CmdBufSize - 1 -> Char \cup {Nul}]
          /\ cmdLen \in 0 .. CmdBufSize - 1 /\ CmdBufSize \in Nat
      BY LinkAssumption DEF LinkInv, LinkCore, LoopTypeOK
    <3> QED BY <3>3, <3>4
  <2>5. /\ cmdBuf'[cmdLen] = b
        /\ \A i \in 1 .. cmdLen : cmdBuf'[i - 1] = cmdBuf[i - 1]
    BY <2>4
  <2>6. Text' = [i \in 1 .. cmdLen + 1 |-> cmdBuf'[i - 1]]
    BY <2>4 DEF Text
  <2>7. Append(old.rest, b) = [i \in 1 .. Len(old.rest) + 1 |-> IF i = Len(old.rest) + 1 THEN b ELSE old.rest[i]]
    BY <1>5
  <2> HIDE DEF old, new
  <2>8. \A i \in 1 .. cmdLen + 1 : cmdBuf'[i - 1] = IF i = cmdLen + 1 THEN b ELSE Text[i]
    <3> SUFFICES ASSUME NEW i \in 1 .. cmdLen + 1 PROVE cmdBuf'[i - 1] = IF i = cmdLen + 1 THEN b ELSE Text[i]
      OBVIOUS
    <3>1. CASE i = cmdLen + 1
      <4>1. i - 1 = cmdLen
        BY <2>3, <3>1
      <4> QED BY <2>5, <3>1, <4>1
    <3>2. CASE i # cmdLen + 1
      <4>1. i \in 1 .. cmdLen
        BY <2>3, <3>2
      <4> QED BY <2>3, <2>5, <3>2, <4>1
    <3> QED BY <3>1, <3>2
  <2>9. Text' = [i \in 1 .. cmdLen + 1 |-> IF i = cmdLen + 1 THEN b ELSE Text[i]]
    BY <2>6, <2>8
  <2>10. Append(old.rest, b) = [i \in 1 .. cmdLen + 1 |-> IF i = cmdLen + 1 THEN b ELSE Text[i]]
    BY <2>2, <2>3, <2>7
  <2> QED BY <1>5, <2>9, <2>10
<1> QED BY <1>1, <1>2, <1>3, <1>4, <1>6, <1>7, <1>8, EatStep

(* The end of an empty line - or of one too long, just discarded *)
LEMMA LineEmptyLine == LinkInv /\ LineInv /\ EmptyLine => LineInv'
<1> SUFFICES ASSUME LinkInv, LineInv, EmptyLine PROVE LineInv'
  OBVIOUS
<1>1. /\ pc = "rx" /\ chunk[1].ch = Eol /\ cmdLen = 0 /\ Eat
      /\ UNCHANGED <<client, session, done, cmdBuf, cmdLen>>
  BY DEF EmptyLine
<1>2. PICK w, b : w = chunk[1].by /\ b = chunk[1].ch
  OBVIOUS
<1>3. /\ w \in Clients /\ b \in Byte /\ b = Eol /\ eaten[w] \in Seq(Byte) /\ Writes(w)
      /\ Cut(eaten[w]) \in Cuts /\ eaten'[w] = Append(eaten[w], b)
  BY <1>1, <1>2, Eats
<1> DEFINE old == Cut(eaten[w])
           new == Cut(eaten'[w])
<1>4. /\ new \in Cuts
      /\ old.rest = <<>> => new = old
      /\ old.rest # <<>> => new = [lines |-> Append(old.lines, old.rest), rest |-> <<>>]
  BY <1>3, CutStep
<1>5. old.rest \in Seq(Char) /\ old.lines \in Seq(Seq(Char))
  BY <1>3 DEF Cuts
<1>6. \A c \in Clients : Mine(c)' = Mine(c) /\ Mine(c) \in Seq(Executions)
  BY <1>1 DEF Mine, LineInv
<1>7. Text = <<>> /\ Text' = <<>> /\ Len(Text) = 0
  <2>1. Len(Text) = 0 /\ Text \in Seq(Char)
    BY <1>1, TextProperties
  <2>2. Text' = Text
    BY <1>1 DEF Text
  <2>3. Text = <<>>
    BY <2>1, EmptySeq
  <2> QED BY <2>1, <2>2, <2>3
<1>8. new.rest = <<>>
  BY <1>4
<1>9. Fits(w)'
  BY <1>7, <1>8 DEF Fits
<1>10. AsTyped(Mine(w), Lines(w))'
  <2>1. AsTyped(Mine(w), old.lines)
    BY <1>3 DEF LineInv, Lines
  <2>2. CASE old.rest = <<>>
    <3>1. Lines(w)' = old.lines /\ Mine(w)' = Mine(w)
      BY <1>3, <1>4, <1>6, <2>2 DEF Lines
    <3> QED BY <2>1, <3>1 DEF AsTyped
  <2>3. CASE old.rest # <<>>
    <3>1. Lines(w)' = Append(old.lines, old.rest) /\ Mine(w)' = Mine(w)
      BY <1>3, <1>4, <1>6, <2>3 DEF Lines
    <3>2. Mistakable(old.rest)
      <4>1. ~(Len(old.rest) < CmdBufSize)
        BY <1>3, <1>7, <2>3 DEF LineInv, Fits
      <4>2. Len(old.rest) \in Nat /\ CmdBufSize \in Nat
        BY <1>5, LinkAssumption
      <4> QED BY <4>1, <4>2 DEF Mistakable
    <3>3. AsTyped(Mine(w), Append(old.lines, old.rest))
      BY <1>5, <3>2, AsTypedMistakable
    <3> QED BY <3>1, <3>3 DEF AsTyped
  <2> QED BY <2>2, <2>3
<1> QED BY <1>1, <1>2, <1>3, <1>4, <1>6, <1>9, <1>10, EatStep

(* What was executed for the one that typed the line grows by that line,   *)
(* and nothing else was executed for others.                               *)
LEMMA MineGrows ==
  ASSUME LinkInv, LineInv, pc = "rx", cmdLen > 0, NEW reset \in BOOLEAN, done' = Executed(reset),
         NEW w, w = chunk[1].by
  PROVE  /\ \E d \in Executions : d.text = Text /\ d.reset = reset /\ Mine(w)' = Append(Mine(w), d)
         /\ \A c \in Clients : c # w => Mine(c)' = Mine(c)
<1> DEFINE d == [by |-> lineBy \cup {chunk[1].by}, reset |-> reset, text |-> Text]
<1>1. d \in Executions /\ done \in Seq(Executions) /\ done' = Append(done, d)
  BY ExecutedType DEF Executed
<1>2. w \in Clients
  BY ChunkHead DEF LinkInv, LinkCore
<1>3. lineBy = {w}
  BY DEF LinkInv, LinkCore, OneWriter
<1>4. d.reset = reset /\ d.text = Text /\ d.by = {w}
  BY <1>3
<1> HIDE DEF d
<1>5. ASSUME NEW c \in Clients PROVE Mine(c)' = IF c = w THEN Append(Mine(c), d) ELSE Mine(c)
  <2>1. Folded(AddMine(c), <<>>, Append(done, d)) = AddMine(c)[d][Folded(AddMine(c), <<>>, done)]
    BY <1>1, FoldedAppend
  <2>2. Mine(c)' = AddMine(c)[d][Mine(c)]
    BY <1>1, <2>1 DEF Mine
  <2>3. Mine(c) \in Seq(Executions)
    BY DEF LineInv
  <2>4. AddMine(c)[d] = [mine \in Seq(Executions) |-> IF c \in d.by THEN Append(mine, d) ELSE mine]
    BY <1>1 DEF AddMine
  <2>5. Mine(c)' = IF c \in d.by THEN Append(Mine(c), d) ELSE Mine(c)
    BY <2>2, <2>3, <2>4
  <2> QED BY <1>4, <2>5
<1>6. d \in Executions /\ d.text = Text /\ d.reset = reset /\ Mine(w)' = Append(Mine(w), d)
  BY <1>1, <1>2, <1>4, <1>5
<1> QED BY <1>5, <1>6

(* The end of a line that holds something: it is executed *)
LEMMA LineLineEnd ==
  ASSUME LinkInv, LineInv, pc = "rx", chunk[1].ch = Eol, cmdLen > 0, Eat, cmdLen' = 0,
         NEW reset \in BOOLEAN, reset = IsReset, done' = Executed(reset),
         client' \in {client, NoClient}, session' \in {session, Closed(session)}
  PROVE  LineInv'
<1>1. PICK w, b : w = chunk[1].by /\ b = chunk[1].ch
  OBVIOUS
<1>2. /\ w \in Clients /\ b \in Byte /\ b = Eol /\ eaten[w] \in Seq(Byte) /\ Writes(w)
      /\ Cut(eaten[w]) \in Cuts /\ eaten'[w] = Append(eaten[w], b)
  BY <1>1, Eats
<1> DEFINE old == Cut(eaten[w])
           new == Cut(eaten'[w])
<1>3. /\ new \in Cuts
      /\ old.rest = <<>> => new = old
      /\ old.rest # <<>> => new = [lines |-> Append(old.lines, old.rest), rest |-> <<>>]
  BY <1>2, CutStep
<1>4. old.rest \in Seq(Char) /\ old.lines \in Seq(Seq(Char))
  BY <1>2 DEF Cuts
<1>5. PICK d \in Executions : d.text = Text /\ d.reset = reset /\ Mine(w)' = Append(Mine(w), d)
  BY <1>1, MineGrows
<1>6. \A c \in Clients : c # w => Mine(c)' = Mine(c)
  BY <1>1, MineGrows
<1>7. Mine(w) \in Seq(Executions) /\ AsTyped(Mine(w), old.lines)
  BY <1>2 DEF LineInv, Lines
<1>8. Mine(w)' \in Seq(Executions)
  BY <1>5, <1>7, AppendProperties
<1>9. Fits(w)'
  <2>1. new.rest = <<>>
    BY <1>3
  <2>2. Text' = <<>>
    BY DEF Text
  <2> QED BY <2>1, <2>2 DEF Fits
<1>10. Len(Text) = cmdLen /\ Text # <<>>
  BY TextProperties
<1>11. ~Mistakable(old.rest) => Text = old.rest
  <2>1. Len(old.rest) \in Nat /\ CmdBufSize \in Nat
    BY <1>4, LinkAssumption
  <2>2. Len(old.rest) < CmdBufSize => Text = old.rest
    BY <1>2 DEF LineInv, Fits
  <2> QED BY <2>1, <2>2 DEF Mistakable
<1>12. old.rest # <<>>
  <2>1. Len(old.rest) < CmdBufSize => Text = old.rest
    BY <1>2 DEF LineInv, Fits
  <2>2. Len(<<>>) < CmdBufSize
    BY LinkAssumption
  <2> QED BY <1>10, <2>1, <2>2
<1>13. ~Mistakable(old.rest) => d.text = old.rest /\ d.reset = IsPrefix(Reset, old.rest)
  BY <1>5, <1>11, ResetIsPrefix
<1>14. AsTyped(Append(Mine(w), d), Append(old.lines, old.rest))
  BY <1>4, <1>5, <1>7, <1>13, AsTypedAppend
<1>15. Lines(w)' = Append(old.lines, old.rest)
  BY <1>2, <1>3, <1>12 DEF Lines
<1>16. AsTyped(Mine(w), Lines(w))'
  BY <1>5, <1>14, <1>15 DEF AsTyped
<1> QED BY <1>1, <1>3, <1>6, <1>8, <1>9, <1>16, EatStep

LEMMA LineResetLine == LinkInv /\ LineInv /\ ResetLine => LineInv'
<1> SUFFICES ASSUME LinkInv, LineInv, ResetLine PROVE LineInv'
  OBVIOUS
<1>1. /\ pc = "rx" /\ chunk[1].ch = Eol /\ cmdLen > 0 /\ Eat /\ cmdLen' = 0
      /\ IsReset /\ done' = Executed(TRUE)
      /\ \E fails \in BOOLEAN : SendPacket(fails)
  BY DEF ResetLine
<1>2. client' \in {client, NoClient} /\ session' \in {session, Closed(session)}
  BY <1>1 DEF SendPacket
<1> QED BY <1>1, <1>2, LineLineEnd DEF IsReset

LEMMA LineLastWrite == LinkInv /\ LineInv /\ LastWrite => LineInv'
<1> SUFFICES ASSUME LinkInv, LineInv, LastWrite PROVE LineInv'
  OBVIOUS
<1>1. /\ pc = "rx" /\ chunk[1].ch = Eol /\ cmdLen > 0 /\ Eat /\ cmdLen' = 0
      /\ ~IsReset /\ done' = Executed(FALSE) /\ client' = client /\ session' = session
  BY DEF LastWrite, LinkInv, Writing
<1> QED BY <1>1, LineLineEnd DEF IsReset

(* A client that begins to be served finds the line empty. *)
LEMMA LineAccept == LinkInv /\ LineInv /\ Accept => LineInv'
<1> SUFFICES ASSUME LinkInv, LineInv, Accept PROVE LineInv'
  OBVIOUS
<1>1. /\ pc = "accept" /\ pc' = "client" /\ UNCHANGED <<eaten, done, cmdBuf, chunk>>
  BY DEF Accept
<1>2. chunk = <<>> /\ chunk' = <<>>
  BY <1>1 DEF LinkInv, LinkCore, OneSender
<1>3. CASE UNCHANGED <<session, client, cmdLen>>
  <2>1. Text' = Text
    BY <1>1, <1>3 DEF Text
  <2>2. \A c \in Clients : Writes(c)' => Writes(c)
    BY <1>1, <1>3 DEF Writes
  <2> QED BY <1>1, <1>2, <1>3, <2>1, <2>2, QuietStep
<1>4. CASE \E c \in Clients : /\ session[c] = "backlog" /\ client' = c /\ cmdLen' = LineAfterAccept
                              /\ session' = [Displaced(session) EXCEPT ![c] = "open"]
  <2>1. PICK c \in Clients : /\ session[c] = "backlog" /\ client' = c /\ cmdLen' = 0
                             /\ session' = [Displaced(session) EXCEPT ![c] = "open"]
    BY <1>4 DEF LineAfterAccept
  <2>2. Text' = <<>>
    BY <2>1 DEF Text
  <2>3. session \in [Clients -> {"new", "backlog", "open", "closed"}]
    BY DEF LinkInv, LinkCore, LoopTypeOK
  <2>4. \A k \in Clients : session'[k] \in {"new", "backlog"} => session[k] \in {"new", "backlog"}
    BY <2>1, <2>3 DEF Displaced, Closed
  <2>5. \A k \in Clients : Writes(k)' => eaten[k] = <<>>
    BY <1>1, <2>1 DEF Writes, LineInv
  <2> QED BY <1>1, <1>2, <2>2, <2>4, <2>5, QuietStep
<1> QED BY <1>3, <1>4 DEF Accept

(* A chunk is of the client served, which writes on. *)
LEMMA LineReceive == LinkInv /\ LineInv /\ Receive => LineInv'
<1> SUFFICES ASSUME LinkInv, LineInv, Receive PROVE LineInv'
  OBVIOUS
<1>1. pc = "client" /\ UNCHANGED <<eaten, done, cmdBuf>>
  BY DEF Receive
<1>2. chunk = <<>>
  BY <1>1 DEF LinkInv, LinkCore, OneSender
<1>3. session \in [Clients -> {"new", "backlog", "open", "closed"}] /\ client \in Clients \cup {NoClient}
  BY DEF LinkInv, LinkCore, LoopTypeOK
<1>4. CASE "client" \in revents /\ inbox[client] # <<>> /\ UNCHANGED <<client, cmdLen, session>>
             /\ \E n \in Nat : chunk' = [i \in 1 .. n |-> [by |-> client, ch |-> inbox[client][i]]]
  <2>1. PICK n \in Nat : chunk' = [i \in 1 .. n |-> [by |-> client, ch |-> inbox[client][i]]]
    BY <1>4
  <2>2. n # 0 => chunk'[1].by = client
    BY <2>1
  <2>3. client \in Clients /\ session[client] = "open"
    BY <1>1, <1>3, <1>4 DEF LinkInv, LinkCore, OneSession
  <2>4. Text' = Text
    BY <1>1, <1>4 DEF Text
  <2>5. n # 0 \/ chunk' = <<>>
    BY <2>1
  <2>6. (chunk' # <<>>) => chunk'[1].by = client
    BY <2>2, <2>5
  <2>7. \A c \in Clients : Writes(c)' => Writes(c)
    <3>1. pc' = "rx" => chunk' # <<>>
      <4>1. (LinkInv /\ Receive) => LinkCore'
        BY LinkReceive
      <4> QED BY <4>1 DEF LinkInv, LinkCore, OneSender
    <3> QED BY <1>4, <2>6, <3>1 DEF Writes
  <2> QED BY <1>1, <1>4, <2>3, <2>4, <2>6, <2>7, QuietStep
<1>5. CASE session' = Closed(session) /\ client' = NoClient /\ cmdLen' = 0 /\ pc' = "serial" /\ chunk' = chunk
  <2>1. \A c \in Clients : ~Writes(c)'
    BY <1>5, LinkAssumption DEF Writes
  <2>2. \A k \in Clients : session'[k] \in {"new", "backlog"} => session[k] \in {"new", "backlog"}
    BY <1>3, <1>5 DEF Closed
  <2> QED BY <1>1, <1>2, <1>5, <2>1, <2>2, QuietStep
<1>6. CASE pc' = "serial" /\ UNCHANGED <<chunk, client, cmdLen, session>>
  <2>1. \A c \in Clients : Writes(c)' => Writes(c)
    BY <1>6 DEF Writes
  <2>2. Text' = Text
    BY <1>1, <1>6 DEF Text
  <2> QED BY <1>1, <1>2, <1>6, <2>1, <2>2, QuietStep
<1>7. "client" \in revents /\ inbox[client] # <<>> /\ pc' = "rx" /\ UNCHANGED <<client, cmdLen, session>>
        /\ (LET n == IF Len(inbox[client]) < ReadMax THEN Len(inbox[client]) ELSE ReadMax
            IN  chunk' = [i \in 1 .. n |-> [by |-> client, ch |-> inbox[client][i]]])
      => \E n \in Nat : chunk' = [i \in 1 .. n |-> [by |-> client, ch |-> inbox[client][i]]]
  <2> SUFFICES ASSUME "client" \in revents
               PROVE  (IF Len(inbox[client]) < ReadMax THEN Len(inbox[client]) ELSE ReadMax) \in Nat
    OBVIOUS
  <2>1. client \in Clients
    BY <1>1, <1>3 DEF LinkInv, LinkCore, OneSession
  <2>2. Len(inbox[client]) \in Nat
    BY <2>1 DEF LinkInv, LinkCore, LoopTypeOK
  <2> QED BY <2>2, LinkAssumption
<1> QED BY <1>4, <1>5, <1>6, <1>7 DEF Receive

(* A packet leaves the line alone, or the client is lost with it. *)
LEMMA LineSerial == LinkInv /\ LineInv /\ Serial => LineInv'
<1> SUFFICES ASSUME LinkInv, LineInv, Serial PROVE LineInv'
  OBVIOUS
<1>1. pc = "serial" /\ pc' = "poll" /\ UNCHANGED <<eaten, done, cmdBuf, chunk>>
  BY DEF Serial
<1>2. chunk = <<>> /\ chunk' = <<>>
  BY <1>1 DEF LinkInv, LinkCore, OneSender
<1>3. session \in [Clients -> {"new", "backlog", "open", "closed"}]
  BY DEF LinkInv, LinkCore, LoopTypeOK
<1>4. CASE UNCHANGED <<client, session, cmdLen>>
  <2>1. \A c \in Clients : Writes(c)' => Writes(c)
    BY <1>1, <1>4 DEF Writes
  <2>2. Text' = Text
    BY <1>1, <1>4 DEF Text
  <2> QED BY <1>1, <1>2, <1>4, <2>1, <2>2, QuietStep
<1>5. CASE client' = NoClient /\ session' = Closed(session)
  <2>1. \A c \in Clients : ~Writes(c)'
    BY <1>1, <1>5, LinkAssumption DEF Writes
  <2>2. \A k \in Clients : session'[k] \in {"new", "backlog"} => session[k] \in {"new", "backlog"}
    BY <1>3, <1>5 DEF Closed
  <2> QED BY <1>1, <1>2, <2>1, <2>2, QuietStep
<1> QED BY <1>4, <1>5 DEF Serial, SendPacket

LEMMA LineStep == LinkInv /\ LineInv /\ [Next]_vars => LineInv'
<1> SUFFICES ASSUME LinkInv, LineInv, [Next]_vars PROVE LineInv'
  OBVIOUS
<1>1. CASE UNCHANGED <<pc, client, cmdBuf, cmdLen, chunk, eaten, done>> /\
             (UNCHANGED session \/ \E c \in Clients : session[c] = "new" /\ session' = [session EXCEPT ![c] = "backlog"])
  <2>1. \A c \in Clients : Writes(c)' => Writes(c)
    BY <1>1 DEF Writes
  <2>2. Text' = Text
    BY <1>1 DEF Text
  <2>3. session \in [Clients -> {"new", "backlog", "open", "closed"}]
    BY DEF LinkInv, LinkCore, LoopTypeOK
  <2>4. \A k \in Clients : session'[k] \in {"new", "backlog"} => session[k] \in {"new", "backlog"}
    BY <1>1, <2>3
  <2>5. chunk # <<>> => chunk[1].by \in Clients /\ session[chunk[1].by] \notin {"new", "backlog"}
    BY ChunkHead DEF LinkInv, LinkCore, LineInv, OneSender
  <2>6. chunk' # <<>> => session'[chunk'[1].by] \notin {"new", "backlog"}
    BY <1>1, <2>4, <2>5
  <2> QED BY <1>1, <2>1, <2>2, <2>4, <2>6, QuietStep
<1>2. CASE Poll
  <2>1. pc = "poll" /\ pc' = "accept" /\ UNCHANGED <<client, cmdBuf, cmdLen, chunk, eaten, done, session>>
    BY <1>2 DEF Poll, peerVars, histVars
  <2>2. \A c \in Clients : Writes(c)' => Writes(c)
    BY <2>1 DEF Writes
  <2>3. Text' = Text
    BY <2>1 DEF Text
  <2> QED BY <2>1, <2>2, <2>3, QuietStep DEF LineInv
<1>3. Environment \/ CommandLine \/ WritePart \/ UNCHANGED vars =>
        UNCHANGED <<pc, client, cmdBuf, cmdLen, chunk, eaten, done>> /\
        (UNCHANGED session \/ \E c \in Clients : session[c] = "new" /\ session' = [session EXCEPT ![c] = "backlog"])
  BY DEF Environment, Connect, HangUp, Type, CommandLine, WritePart, vars, loopVars, peerVars, histVars
<1> QED BY <1>1, <1>2, <1>3, LineAccept, LineReceive, LineRxChar, LineEmptyLine, LineResetLine,
           LineLastWrite, LineSerial DEF Next, Loop

(* The lines of a client that types no line too long for the buffer, and   *)
(* no strict prefix of RESET, are executed as typed, all of them, in       *)
(* order, and as RESET exactly when they begin so: whatever recv returns   *)
(* at a time, and whatever others left unfinished.                         *)
THEOREM LinkCommandsAreLines == Spec => []CommandsAreLines
<1>1. LinkInv /\ LineInv => CommandsAreLines
  <2> SUFFICES ASSUME LineInv, NEW c \in Clients, \A l \in ToSet(Lines(c)) : ~Mistakable(l)
               PROVE  /\ Len(Mine(c)) = Len(Lines(c))
                      /\ \A i \in DOMAIN Mine(c) : /\ Mine(c)[i].text = Lines(c)[i]
                                                   /\ Mine(c)[i].reset = IsPrefix(Reset, Lines(c)[i])
    BY DEF CommandsAreLines
  <2>1. AsTyped(Mine(c), Lines(c)) /\ Mine(c) \in Seq(Executions) /\ Lines(c) \in Seq(Seq(Char))
    BY DEF LineInv, Lines, Cuts
  <2>2. \A i \in 1 .. Len(Lines(c)) : ~Mistakable(Lines(c)[i])
    <3>1. DOMAIN Lines(c) = 1 .. Len(Lines(c))
      BY <2>1
    <3> QED BY <3>1 DEF ToSet
  <2>3. DOMAIN Mine(c) = 1 .. Len(Mine(c))
    BY <2>1
  <2> QED BY <2>1, <2>2, <2>3 DEF AsTyped
<1>2. Spec => []LineInv
  BY LinkInvariant, LineInit, LineStep, PTL DEF Spec
<1> QED BY <1>1, <1>2, LinkInvariant, PTL
=============================================================================
