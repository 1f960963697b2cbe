------------------------------- MODULE MCXCache -------------------------------
(***************************************************************************)
(* Two applications of xcached.                                            *)
(***************************************************************************)
EXTENDS XCache

\* One can send a slice's command, a long one and what takes the place of its
\* end; the other has a slice of its own.
MCMaxCommands == <<3, 2>>
===============================================================================
