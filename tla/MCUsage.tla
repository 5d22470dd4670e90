------------------------------ MODULE MCUsage ------------------------------
(***************************************************************************)
(* Usage for TLC.  The widths keep the order of the real ones:             *)
(* CapBits < V4Bits < WordBits < V6Bits, for 31 < 32 < 64 < 128.           *)
(***************************************************************************)
EXTENDS Usage

\* IPv4 roots: the whole space, a part of it given with host bits, and a
\* prefix too small for any child with two host bits.
RootsV4 == { [fam |-> "v4", addr |-> 0, bits |-> 0],
             [fam |-> "v4", addr |-> 5, bits |-> 1],
             [fam |-> "v4", addr |-> 6, bits |-> 3] }

\* IPv6 roots: one with more children of two host bits than the cap, one small.
RootsV6 == { [fam |-> "v6", addr |-> 17, bits |-> 1],
                  [fam |-> "v6", addr |-> 8, bits |-> 3] }

RootsAll == RootsV4 \cup RootsV6

LengthsAll == 0 .. V6Bits + 1

=============================================================================
