------------------------------- MODULE MCCache ------------------------------
(* Five oids, in tuple order: the empty one, a node, two children, the next  *)
(* node.  Intervals of every length and every way to overlap fit in them.    *)
EXTENDS CacheSpec

MCOids == {<< >>, <<1>>, <<1, 0>>, <<1, 1>>, <<2>>}
=============================================================================
