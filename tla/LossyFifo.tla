----------------------------- MODULE LossyFifo -----------------------------
(***************************************************************************)
(* What a packet path built on DPDK bursts promises, whatever its stages:  *)
(* buffers are handed out of a pool, stand in line in the order the        *)
(* packets arrived, and leave the line either by being dropped, wherever   *)
(* they stand, or by being put on the wire from the front of the line.     *)
(* A buffer returns to the pool exactly once, when it is dropped or when   *)
(* its transmission completes.  Nothing overtakes, nothing is sent twice.  *)
(*                                                                         *)
(* ThreadedParsing implements this specification.                               *)
(***************************************************************************)
EXTENDS Naturals, Sequences, Functions, SequencesExt

CONSTANT Mbufs          \* the buffers of the pool

VARIABLES free,         \* buffers in the pool
          line,         \* buffers accepted and not yet given to the wire
          wire          \* buffers being transmitted

vars == <<free, line, wire>>

Init == free = Mbufs /\ line = <<>> /\ wire = <<>>

Accept(m) ==                            \* a packet arrives in a free buffer
    /\ m \in free
    /\ free' = free \ {m}
    /\ line' = Append(line, m)
    /\ UNCHANGED wire

Drop(i) ==                              \* the i-th packet in line is dropped
    /\ free' = free \cup {line[i]}
    /\ line' = RemoveAt(line, i)
    /\ UNCHANGED wire

Transmit(n) ==                          \* the first n packets in line go out
    /\ wire' = wire \o SubSeq(line, 1, n)
    /\ line' = SubSeq(line, n + 1, Len(line))
    /\ UNCHANGED free

Complete ==                             \* the oldest transmission completes
    /\ wire # <<>>
    /\ free' = free \cup {Head(wire)}
    /\ wire' = Tail(wire)
    /\ UNCHANGED line

Next ==
    \/ \E m \in Mbufs : Accept(m)
    \/ \E i \in 1..Len(line) : Drop(i)
    \/ \E n \in 1..Len(line) : Transmit(n)
    \/ Complete

Spec == Init /\ [][Next]_vars

-----------------------------------------------------------------------------
TypeOK == free \subseteq Mbufs /\ line \in Seq(Mbufs) /\ wire \in Seq(Mbufs)

\* Each buffer is in exactly one place, whatever was dropped or sent.
Custody ==
    /\ IsInjective(wire \o line)
    /\ free \cap Range(wire \o line) = {}
    /\ free \cup Range(wire \o line) = Mbufs
=============================================================================
