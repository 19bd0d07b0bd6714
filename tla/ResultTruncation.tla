-------------------------- MODULE ResultTruncation --------------------------
(***************************************************************************)
(* _truncate_result: how many rows of a Genie result fit the token budget,  *)
(* found with bisect_left over the row counts, and the correction that       *)
(* follows because the search stops at the first count that is too big.      *)
(***************************************************************************)
EXTENDS Integers

CONSTANTS Rows,         \* rows of the result
          MaxTokens     \* MAX_TOKENS_OF_DATA; bound: a size is at most twice that

ASSUME TruncationAssumption == Rows \in Nat /\ MaxTokens \in Nat

VARIABLES size,      \* size[n]: tokens of the first n rows and the header
          lo, hi,    \* the interval of bisect_left
          shown      \* rows shown in the end, -1: none, not even the header

truncationVars == <<size, lo, hi, shown>>

Unknown == -2
Sizes == {f \in [0..Rows -> 0..2 * MaxTokens] : \A m, n \in 0..Rows : m <= n => f[m] <= f[n]}
TooBig(n) == size[n] > MaxTokens

(* The whole result is shown if it fits.                                    *)
TruncationInit ==
  /\ size \in Sizes
  /\ lo = 0 /\ hi = Rows + 1
  /\ shown = IF TooBig(Rows) THEN Unknown ELSE Rows

Middle == (lo + hi) \div 2

SearchHigher ==
  /\ shown = Unknown /\ lo < hi /\ ~TooBig(Middle)
  /\ lo' = Middle + 1 /\ UNCHANGED <<size, hi, shown>>

SearchLower ==
  /\ shown = Unknown /\ lo < hi /\ TooBig(Middle)
  /\ hi' = Middle /\ UNCHANGED <<size, lo, shown>>

Cut_Uncorrected(n) == IF n = 0 THEN -1 ELSE n
Cut(n) == IF n = 0 THEN -1 ELSE IF TooBig(n) THEN n - 1 ELSE n

Truncate ==
  /\ shown = Unknown /\ lo = hi
  /\ shown' = Cut(lo) /\ UNCHANGED <<size, lo, hi>>

TruncationNext == SearchHigher \/ SearchLower \/ Truncate

TruncationSpec == TruncationInit /\ [][TruncationNext]_truncationVars
-----------------------------------------------------------------------------
(* The rows that are shown fit the budget, and one more would not.          *)
ShowsWhatFits ==
  shown # Unknown =>
    /\ shown >= 0 => shown \in 0..Rows /\ ~TooBig(shown)
    /\ \A n \in 0..Rows : n > shown => TooBig(n)

(* What the search has found out.                                           *)
SearchInvariant ==
  /\ size \in Sizes
  /\ lo \in 0..Rows + 1 /\ hi \in 0..Rows + 1 /\ lo <= hi
  /\ shown \in -2..Rows
  /\ \A n \in 0..Rows : (n < lo => ~TooBig(n)) /\ (n >= hi => TooBig(n))
  /\ shown = Unknown => TooBig(Rows)
=============================================================================
