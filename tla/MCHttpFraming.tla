--------------------------- MODULE MCHttpFraming ---------------------------
(***************************************************************************)
(* Small instances of HttpFraming for TLC.                                 *)
(***************************************************************************)
EXTENDS HttpFraming

\* Headers below, within one buffer of, at and over the limit; bodies shorter than,
\* as long as and longer than declared.
MCRequests ==
    [head : 1..(MaxHeader + 1), body : 0..3, declared : {Undeclared, 0, 2},
     valid : BOOLEAN, hasBody : BOOLEAN]
=============================================================================
