--------------------------- MODULE MCReferralTree ---------------------------
(* Instances of ReferralTree and TeamViews for TLC. *)
EXTENDS TeamViews

CONSTANTS u0, u1, u2, u11, u12, u21, u3

\*          u0
\*        /    \
\*      u1      u2
\*     /  \     |
\*  u11   u12   u21        u3 joins later
MCInitParent == [x \in Account \ {u3} |->
  IF x = u0 THEN None ELSE IF x \in {u1, u2} THEN u0 ELSE IF x = u21 THEN u2 ELSE u1]

MCInitBought == [x \in Account \ {u3} |-> IF x \in {u11, u12, u21} THEN 1 ELSE 0]
=============================================================================
