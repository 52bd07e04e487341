---------------------------- MODULE QuorumRule ----------------------------
(***************************************************************************)
(* The head count AttemptConsensus takes three times (after its pings, its *)
(* proposals and its accept requests): with num replicas that answered out *)
(* of n members, it gives up when                                          *)
(*                                                                         *)
(*        num <= std::ceil(n / 2.0) - 1                                    *)
(***************************************************************************)
EXTENDS Integers, FiniteSets

\* std::ceil(n / 2.0)
CeilHalf(n) == (n + 1) \div 2

\* The test after which the code goes on to its next phase.
Enough(num, n) == ~ (num <= CeilHalf(n) - 1)

\* The rule as the comment above AttemptConsensus states it (declaration.h:424):
\* "more than math.floor(NUM_REPLICAS / 2)".
DocumentedEnough(num, n) == num > n \div 2
===========================================================================
