-------------------------------- MODULE Sums --------------------------------
(***************************************************************************)
(* The sums the pool makes: of the amounts in a list, and of what each     *)
(* element of a set adds to a column.  They are recursive functions of     *)
(* first-order arguments, so that SumsProofs can prove their laws.         *)
(***************************************************************************)
EXTENDS Naturals, Sequences

\* The sum of the first i numbers of a sequence, for every i, and of all of them.
SumTo(s) ==
  LET sum[i \in 0..Len(s)] == IF i = 0 THEN 0 ELSE sum[i - 1] + s[i]
  IN  sum

Sum(s) == SumTo(s)[Len(s)]

\* The sum of f[x] for the members x of each finite subset of S, and of S itself.
SumsOver(f, S) ==
  LET sum[T \in SUBSET S] ==
        IF T = {} THEN 0 ELSE LET x == CHOOSE x \in T : TRUE IN f[x] + sum[T \ {x}]
  IN  sum

SumOver(f, S) == SumsOver(f, S)[S]
=============================================================================
