------------------------- MODULE MCStreamAdapter -------------------------
(* Small instances of StreamAdapter for TLC.                               *)
EXTENDS StreamAdapter

\* With and without text, usage and an end mark.
MCAnswers == {<<"delta">>, <<"usage">>, <<"delta", "done">>,
              <<"delta", "usage">>, <<"delta", "usage", "done">>,
              <<"delta", "delta", "usage">>}
=============================================================================
