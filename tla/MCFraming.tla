------------------------------ MODULE MCFraming ------------------------------
(* A small instance of Framing for TLC.                                     *)
EXTENDS Framing

\* One to three fields, with the one that names the handler first or last, a
\* message without one, and a line that is no field on either side of it.
SmallMessages ==
    {<<"msg">>, <<"msg", "field">>, <<"field", "msg">>, <<"field">>,
     <<"novalue", "field", "msg">>, <<"nofield", "msg">>, <<"msg", "nofield">>}
=============================================================================
