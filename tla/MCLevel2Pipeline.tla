-------------------------- MODULE MCLevel2Pipeline ---------------------------
(***************************************************************************)
(* Level2Pipeline for TLC: the events a cell of the SPSC ring could hold,  *)
(* torn ones included.                                                     *)
(***************************************************************************)
EXTENDS Level2Pipeline

Numbers == 0 .. Count - 1
BookEvents == [number : Numbers, first : Numbers, second : Numbers]
=============================================================================
