----------------------------- MODULE Iteration -----------------------------
(***************************************************************************)
(* A fold and a bounded iteration for long computations.  The compiler's   *)
(* passes thread one value through every instruction of a function, and    *)
(* its machines take many steps.  FoldLeft of SequencesExt nests one       *)
(* evaluation in the next and so runs out of stack; these halve the work   *)
(* and evaluate the first half (the test h = h) before they start the      *)
(* second, so the depth is the logarithm of the length.                    *)
(***************************************************************************)
EXTENDS Integers, Sequences

\* The value itself.  TLC computes a function anew at every application until it
\* has been compared with something; the test never fails.
Evaluated(v) == IF v = v THEN v ELSE v

\* op applied from left to right: op(...op(op(base, seq[1]), seq[2])..., seq[n]).
Fold(op(_, _), base, seq) ==
  LET RECURSIVE Part(_, _, _)
      Part(acc, lo, hi) ==
        CASE lo > hi -> acc
          [] lo = hi -> op(acc, seq[lo])
          [] OTHER -> LET mid == (lo + hi) \div 2
                          h == Part(acc, lo, mid)
                      IN IF h = h THEN Part(h, mid + 1, hi) ELSE h
  IN Part(base, 1, Len(seq))

\* step applied to m while m.on, 2^k times at most.
Iterate(step(_), m, k) ==
  LET RECURSIVE Part(_, _)
      Part(n, j) ==
        CASE ~n.on -> n
          [] n.on /\ j = 0 -> step(n)
          [] OTHER -> LET h == Part(n, j - 1)
                      IN IF h = h /\ h.on THEN Part(h, j - 1) ELSE h
  IN Part(m, k)

=============================================================================
