------------------------------- MODULE Sizing --------------------------------
(***************************************************************************)
(* How much one I/O is and costs: the validation of a target's pattern      *)
(* (src/src/workload_spec.cc), the rate's unit (src/src/units.cc), the      *)
(* sizing policy (src/src/run_config.cc) and the session's own idea of its  *)
(* operation (src/src/file_session.cc).  Launch goes through them in the    *)
(* order a run does.                                                        *)
(*                                                                          *)
(* t is a target as a workload or the flags state it, with the rate in bits *)
(* per second; c is a RunConfig.  uint32_t counts modulo Modulus, and the   *)
(* double arithmetic of the policy is exact here.                           *)
(***************************************************************************)
EXTENDS Integers

CONSTANTS
    Modulus,     \* 2^32: uint32_t wraps there
    HardCap      \* kAutoMaxHardCapBytes

ASSUME SizingConstants == Modulus \in Nat \ {0} /\ HardCap \in Nat \ {0}

kAutoMaxAmortizeSec == 8
kAutoMaxFloorChunks == 4
kRateHeadroomSec == 2

Patterns == {"sequential", "random", "vector", "mixed"}

Larger(a, b) == IF a >= b THEN a ELSE b
Smaller(a, b) == IF a <= b THEN a ELSE b

\* Bits per second to bytes per second, rounded; 0 is uncapped.
ParseTargetRateString(bits) == (bits + 4) \div 8

-----------------------------------------------------------------------------
(* Validation of one target's rate and pattern. *)

\* Mutant: only "auto" is refused for an uncapped rate.
PatternAcceptedZero(t) ==
    /\ t.chunk > 0 /\ t.chunk < Modulus /\ t.vectors > 0
    /\ ParseTargetRateString(t.bits) = 0 => ~t.auto

PatternAccepted(t) ==
    /\ t.chunk > 0 /\ t.chunk < Modulus /\ t.vectors > 0
    /\ ParseTargetRateString(t.bits) = 0 => ~t.auto /\ t.maxBytes # 0

-----------------------------------------------------------------------------
(* The sizing policy. *)

RoundUp(n, unit) == ((n + unit - 1) \div unit) * unit
RoundDown(n, unit) == (n \div unit) * unit

AutoCeiling(c) == Smaller(c.rate * kRateHeadroomSec, HardCap)

\* A chunk of zero counts as one byte.
ChunkOf(c) == Larger(c.chunk, 1)

\* Mutant: rounding up may exceed the ceiling.
ComputeAutoMaxBytesRoundsUp(c) ==
    LET share == (c.rate * kAutoMaxAmortizeSec) \div c.inflight
        bytes == Smaller(Larger(share, ChunkOf(c) * kAutoMaxFloorChunks), AutoCeiling(c))
    IN  Larger(RoundUp(bytes, ChunkOf(c)), ChunkOf(c))

ComputeAutoMaxBytes(c) ==
    LET share == (c.rate * kAutoMaxAmortizeSec) \div c.inflight
        bytes == Smaller(Larger(share, ChunkOf(c) * kAutoMaxFloorChunks), AutoCeiling(c))
        aligned == RoundUp(bytes, ChunkOf(c))
    IN  Larger(IF aligned > AutoCeiling(c) THEN RoundDown(AutoCeiling(c), ChunkOf(c))
               ELSE aligned,
               ChunkOf(c))

\* In 64 bits.
ComputeOpBytes(c, vector) ==
    IF vector THEN ChunkOf(c) * Larger(c.vectors, 1) ELSE ChunkOf(c)

\* Mutant: a mixed run is sized for its plain reads.
ComputeBucketCapacityPlain(c) ==
    IF c.rate = 0 THEN 0 ELSE ComputeOpBytes(c, c.pattern = "vector")

ComputeBucketCapacity(c) ==
    IF c.rate = 0 THEN 0 ELSE ComputeOpBytes(c, c.pattern \in {"vector", "mixed"})

\* ResolveRunConfig throws for an uncapped rate without a budget of its own.
Unresolvable(c) == c.rate = 0 /\ (c.auto \/ c.maxBytes = 0)

ResolveRunConfig(c) ==
    IF c.rate # 0 /\ c.auto THEN [c EXCEPT !.maxBytes = ComputeAutoMaxBytes(c)] ELSE c

-----------------------------------------------------------------------------
(* The scheduler's item, and what the session makes of it. *)

\* FileSession::OpBytes: a product of 32-bit factors, of which the scheduler
\* raises only the second to one.
OpBytes(c, vector) ==
    IF vector THEN (c.chunk * Larger(c.vectors, 1)) % Modulus ELSE c.chunk

\* What Scheduler::Next may draw for a pattern.
Draws(pattern) ==
    {d \in [vector : BOOLEAN, random : BOOLEAN] :
        CASE pattern = "sequential" -> ~d.vector /\ ~d.random
          [] pattern = "random"     -> ~d.vector /\ d.random
          [] pattern = "vector"     -> d.vector /\ ~d.random
          [] pattern = "mixed"      -> TRUE}

=============================================================================
