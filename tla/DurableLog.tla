----------------------------- MODULE DurableLog -----------------------------
(***************************************************************************)
(* What a store of one series promises: points are accepted in order and   *)
(* reach the disk in order, a crash loses a suffix of what was accepted    *)
(* and nothing else, and old points expire from the front.                 *)
(***************************************************************************)
EXTENDS Integers, Sequences

CONSTANT Points

VARIABLES
  stored,    \* the points on disk, oldest first
  buffered   \* the points accepted and not on disk yet

LogInit == stored = <<>> /\ buffered = <<>>

\* The first n accepted points reach the disk; then the points in "more" are
\* accepted, and perhaps written at once.
Write(more, n) ==
  LET all == buffered \o more
  IN  /\ stored' = stored \o SubSeq(all, 1, n)
      /\ buffered' = SubSeq(all, n + 1, Len(all))

\* A crash in the middle of a write: the first n accepted points made it.
Crash(n) == stored' = stored \o SubSeq(buffered, 1, n) /\ buffered' = <<>>

\* Sweeping drops whole days, the oldest first.
Expire(n) == stored' = SubSeq(stored, n + 1, Len(stored)) /\ UNCHANGED buffered

Accept(p) == \E n \in 0 .. Len(buffered) + 1 : Write(<<p>>, n)
Sync == \E n \in 1 .. Len(buffered) : Write(<<>>, n)

LogNext == \/ \E p \in Points : Accept(p)
           \/ Sync
           \/ \E n \in 0 .. Len(buffered) : Crash(n)
           \/ \E n \in 1 .. Len(stored) : Expire(n)

LogSpec == LogInit /\ [][LogNext]_<<stored, buffered>>
=============================================================================
