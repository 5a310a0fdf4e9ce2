---------------------------- MODULE MCArcRuntime ----------------------------
\* Two threads, the first with two variables and the second with one, and two
\* addresses.  MaxRef = 2 lets the counts overflow.
EXTENDS ArcRuntime, TLC

CONSTANTS t1, t2, a1, a2, b1, o1, o2

MCOwner == (a1 :> t1) @@ (a2 :> t1) @@ (b1 :> t2)
=============================================================================
