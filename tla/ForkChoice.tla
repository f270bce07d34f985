----------------------------- MODULE ForkChoice -----------------------------
(***************************************************************************)
(* Blocks and the choice between branches (core/blockchain.go).  A block   *)
(* is the sequence of the block records from number 1 up to it, so that a  *)
(* block determines its ancestors as a hash does; the empty sequence is    *)
(* the genesis block.  A record has at least the difficulty of its block.  *)
(***************************************************************************)
EXTENDS Integers, Sequences, FiniteSets, Functions

Number(b) == Len(b)
Parent(b) == SubSeq(b, 1, Len(b) - 1)

\* The record of block b itself, b not the genesis block.
Header(b) == b[Len(b)]

Ancestor(b, n) == SubSeq(b, 1, n)

\* The last block that the branches of b and c share.
CommonBlock(b, c) ==
  LET n == CHOOSE n \in 0 .. Number(b) :
             /\ n <= Number(c) /\ Ancestor(b, n) = Ancestor(c, n)
             /\ n = Number(b) \/ n = Number(c) \/ Ancestor(b, n + 1) # Ancestor(c, n + 1)
  IN  Ancestor(b, n)

\* Total difficulty.
Td(b) == SumFunction([i \in DOMAIN b |-> b[i].difficulty])

\* Slip: the longer branch is taken.
LongerBranch(b, current, currentIsLocal) == {Number(b) > Number(current)}

\* Whether block b becomes the head in place of current.  A tie falls to the lower
\* number or the earlier time, to any block when the head is a local one, and is
\* a draw at the same number.  Times and the draw are left open.
Reorg(b, current, currentIsLocal) ==
  IF Td(b) # Td(current) THEN {Td(b) > Td(current)}
  ELSE IF Number(b) < Number(current) \/ currentIsLocal THEN {TRUE}
  ELSE BOOLEAN

=============================================================================
