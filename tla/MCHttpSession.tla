--------------------------- MODULE MCHttpSession ---------------------------
(* HttpSession on streams of a few requests of every kind.                 *)
EXTENDS HttpSession

=============================================================================
