-------------------------------- MODULE Vec --------------------------------
(***************************************************************************)
(* Vec::retain of Rust's standard library, on sequences.  It is written    *)
(* with a recursive function, about which the provers can reason, where    *)
(* SelectSeq is opaque to them.                                            *)
(***************************************************************************)
EXTENDS Naturals, Sequences

\* The elements of q at the positions K, in their order.
Retained(q, K) ==
  LET f[n \in 0 .. Len(q)] ==
        IF n = 0 THEN <<>> ELSE IF n \in K THEN Append(f[n - 1], q[n]) ELSE f[n - 1]
  IN f[Len(q)]
=============================================================================
