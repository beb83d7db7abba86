------------------------------- MODULE MCLink -------------------------------
(* Link on a small instance, and the properties that compare what was      *)
(* executed with the lines the clients typed.                              *)
EXTENDS Link, SequencesExt

(* What the elements of s make of a start, from the first on *)
Folded(step, start, s) ==
  LET w[k \in 0 .. Len(s)] == IF k = 0 THEN start ELSE step[s[k]][w[k - 1]]
  IN  w[Len(s)]

(* The bytes s cut at line ends: the non-empty lines, and the rest *)
Cuts == [lines : Seq(Seq(Char)), rest : Seq(Char)]
AddByte ==
  [b \in Char \cup {Eol} |-> [cuts \in Cuts |->
     IF b # Eol THEN [cuts EXCEPT !.rest = Append(@, b)]
     ELSE IF cuts.rest = <<>> THEN cuts
     ELSE [lines |-> Append(cuts.lines, cuts.rest), rest |-> <<>>]]]
Cut(s) == Folded(AddByte, [lines |-> <<>>, rest |-> <<>>], s)

Lines(c) == Cut(eaten[c]).lines

(* What was executed for a client *)
Executions == [by : SUBSET Clients, reset : BOOLEAN, text : Seq(Char)]
AddMine(c) == [d \in Executions |-> [mine \in Seq(Executions) |-> IF c \in d.by THEN Append(mine, d) ELSE mine]]
Mine(c) == Folded(AddMine(c), <<>>, done)

(* Lines the code takes for others: longer than its buffer, or a strict    *)
(* prefix of RESET, which the bytes of an older line may complete.         *)
Mistakable(l) == Len(l) >= CmdBufSize \/ IsStrictPrefix(l, Reset)

(* The lines of a client that types no mistakable one are executed as      *)
(* typed, all of them, in order, and as RESET exactly when they begin so - *)
(* however recv cuts them, and whatever other clients left unfinished.     *)
CommandsAreLines ==
  \A c \in Clients :
    (\A l \in ToSet(Lines(c)) : ~Mistakable(l)) =>
      /\ Len(Mine(c)) = Len(Lines(c))
      /\ \A i \in DOMAIN Mine(c) : /\ Mine(c)[i].text = Lines(c)[i]
                                   /\ Mine(c)[i].reset = IsPrefix(Reset, Lines(c)[i])

(* Clients connect before a poll, and type and hang up while they are      *)
(* served and their chunk has not been received: what they do at other     *)
(* times has the effect it has at the next of these.                       *)
ActInTime ==
  Environment =>
    /\ session' # session => pc = "poll"
    /\ session' = session => pc \in {"poll", "accept", "client"}
    /\ \A c \in Clients \ {client} : inbox'[c] = inbox[c]
    /\ hungUp' \subseteq hungUp \cup {client}

Sym == Permutations(Clients)

MCReset == <<"R", "E">>
=============================================================================
