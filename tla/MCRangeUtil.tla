----------------------------- MODULE MCRangeUtil -----------------------------
(* Two queries, each with up to two raw results over labels {0, 1, 2} and  *)
(* distances {1, 2, 3}: equal distances (ties broken by label), results on *)
(* both sides of each range bound, and more in-range results than topk.    *)
EXTENDS RangeUtil

MCResults ==
  { r \in UNION { [1..n -> {1, 2, 3} \X {0, 1, 2}] : n \in 0..2 } :
      \A a, b \in DOMAIN r : a # b => r[a][2] # r[b][2] }

\* IP: radius 1, range_filter 3 keeps 2 and 3 (3 = range_filter included);
\* L2: radius 3, range_filter 1 keeps 1 and 2 (3 = radius excluded).
MCRanges == { << TRUE, 1, 3 >>, << FALSE, 3, 1 >> }
=============================================================================
