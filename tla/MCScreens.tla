----------------------------- MODULE MCScreens -----------------------------
(* One page, two requests in flight, and one or two changes of the data.    *)
EXTENDS Screens

MCMaxTroubles == [live |-> 1, home |-> 2]
=============================================================================
