------------------------------ MODULE MCTramas ------------------------------
EXTENDS Tramas

(* Blocks of three bytes: plain, with a CR or an LF at either end, in the  *)
(* middle, one after another, and with a CRLF at either end.               *)
MCBloques ==
  {<<"x", "x", "x">>, <<LF, "x", "x">>, <<"x", "x", CR>>, <<CR, "x", LF>>,
   <<LF, CR, CR>>, <<CR, LF, "x">>, <<"x", CR, LF>>}
=============================================================================
