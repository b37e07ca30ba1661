-------------------------- MODULE MCCrawlerRegistry --------------------------
(* CrawlerRegistry for TLC: a seeded crawler and one that may take its token. *)
EXTENDS CrawlerRegistry, TLC

CONSTANTS c1, c2, r1, r2, d1, d2

MCTokenOf == (c1 :> "bot") @@ (c2 :> "bot")
Symmetry == Permutations(Requests) \cup Permutations(Domains)
=============================================================================
