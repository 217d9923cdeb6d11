-------------------------------- MODULE Maps --------------------------------
(***************************************************************************)
(* Maps as functions: a map with one entry set, and one map over another.  *)
(***************************************************************************)
With(f, x, value) == [y \in DOMAIN f \cup {x} |-> IF y = x THEN value ELSE f[y]]

Overlay(f, g) == [x \in DOMAIN f \cup DOMAIN g |-> IF x \in DOMAIN f THEN f[x] ELSE g[x]]

=============================================================================
