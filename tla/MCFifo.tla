-------------------------------- MODULE MCFifo --------------------------------
(* Two fifo objects and two distinguishable elements.                         *)
EXTENDS Fifo

CONSTANTS a, b, x, y

MCObjects == {a, b}
MCValue == {x, y}
===============================================================================
