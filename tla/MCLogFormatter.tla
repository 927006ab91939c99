--------------------------- MODULE MCLogFormatter ---------------------------
(***************************************************************************)
(* LogFormatter with all patterns of up to five characters.                *)
(***************************************************************************)
EXTENDS LogFormatter, TLC

\* Five are enough for "%{}%{" and for a letter on each side of "%{}".
MCPatterns == UNION {[1 .. k -> Characters] : k \in 0 .. 5}
=============================================================================
