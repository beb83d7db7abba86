------------------------------ MODULE MCLogger ------------------------------
(* Logger on a small instance, and the property of the rotated files.      *)
EXTENDS Logger, SequencesExt

(* The messages a reader finds in the backups, oldest file first, then in  *)
(* the live file *)
Retained ==
  FlattenSeq([k \in 1 .. MaxBackups + 1 |->
    LET i == MaxBackups + 1 - k IN IF i \in DOMAIN files THEN files[i] ELSE <<>>])

(* Rotation drops the oldest messages only, and never reorders: at every   *)
(* step of rotate_logs, and after a kill at any of them, the files hold    *)
(* the last messages written, without a gap.                               *)
RetainedSuffix == IsSuffix(Retained, written)
=============================================================================
