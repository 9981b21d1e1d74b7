----------------------------- MODULE MCHTTPPool ----------------------------
(* Three peers with two virtual nodes each, on a ring of a few places.     *)
EXTENDS HTTPPool

CONSTANTS p1, p2, p3

SortIntsDef(s) == SortSeq(s, LAMBDA a, b : a < b)
ListsDef == {<< >>, <<p1, p2>>, <<p2, p1>>, <<p3, p1, p2>>}
=============================================================================
