------------------------------ MODULE AsyncLog ------------------------------
(***************************************************************************)
(* What an asynchronous log promises its callers, whatever thread, queue   *)
(* and batching implement it: messages are retired (handed to the file, or *)
(* given up on an I/O error) in the order they were accepted, in batches   *)
(* of at most MaxRetired, none twice and none skipped; the log stops only  *)
(* when it holds nothing; a crash forgets exactly what was not retired.    *)
(***************************************************************************)
EXTENDS Integers, Sequences

CONSTANTS Message,     \* what can be logged
          MaxRetired   \* largest batch retired in one step, at least 1

VARIABLES accepted,    \* every message taken in, oldest first
          retired,     \* those that have left the log, oldest first
          open         \* the log is still being served

vars == <<accepted, retired, open>>

Init == accepted = <<>> /\ retired = <<>> /\ open = TRUE

Accept(m) ==
  /\ accepted' = Append(accepted, m)
  /\ UNCHANGED <<retired, open>>

Retire(n) ==
  /\ open
  /\ Len(retired) + n =< Len(accepted)
  /\ retired' = SubSeq(accepted, 1, Len(retired) + n)
  /\ UNCHANGED <<accepted, open>>

Stop ==
  /\ open
  /\ retired = accepted
  /\ open' = FALSE
  /\ UNCHANGED <<accepted, retired>>

Crash ==
  /\ accepted' = retired
  /\ open' = TRUE
  /\ UNCHANGED retired

RetireSome == \E n \in 1 .. MaxRetired : Retire(n)

Next == (\E m \in Message : Accept(m)) \/ RetireSome \/ Stop \/ Crash

(* While the log is served, what it holds is eventually retired. *)
Spec == Init /\ [][Next]_vars /\ WF_vars(RetireSome)

SafeSpec == Init /\ [][Next]_vars
=============================================================================
