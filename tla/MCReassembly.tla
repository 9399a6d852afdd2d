---------------------------- MODULE MCReassembly ----------------------------
(***************************************************************************)
(* Instances of Reassembly for TLC.                                        *)
(***************************************************************************)
EXTENDS Reassembly

H(total, offset, length, isOk) ==
  [total_length |-> total, chunk_offset |-> offset, chunk_length |-> length, ok |-> isOk]

\* Every slice, empty ones included, of a message of n bytes.
Slices(n) == {H(n, p[1], p[2], TRUE) : p \in {q \in (0 .. n) \X (0 .. n) : q[1] + q[2] <= n}}

\* Any slicing of a message of 4 bytes, a packet that cannot be parsed and
\* ones whose length or range does not fit.
AnySlicing == Slices(4) \cup {H(4, 1, 1, FALSE), H(3, 0, 2, TRUE), H(4, 3, 2, TRUE)}

\* A message of n bytes cut as the clients cut it: full packets and a rest.
Cut(n, max) ==
  {H(n, o, IF n - o < max THEN n - o ELSE max, TRUE) : o \in {k \in 0 .. n - 1 : k % max = 0}}

ThreePackets == Cut(5, 2)

=============================================================================
