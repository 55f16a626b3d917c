---------------------------- MODULE MCSseStream ----------------------------
(***************************************************************************)
(* SseStream with bodies of up to two lines and an end: events of every     *)
(* kind, lines that are no events, bodies that are no streams.              *)
(***************************************************************************)
EXTENDS SseStream

Event(c, r, t) == <<"data:", " ", c, r, t>>

MCLines == {Event("x", "absent", "absent"), Event("absent", "y", "absent"),
            Event("x", "y", "calls"), Event("null", "y", "absent"),
            <<"data:", " ", "[DONE]">>,
            <<"data:", "x", "absent", "absent">>, <<": ping">>, <<>>}

Ends == {<<"\n">>, <<"\r", "\n">>}

MCBodies ==
    {a \o e \o b \o e \o c : a, b \in MCLines, e \in Ends,
                             c \in {<<>>, Event("x", "absent", "absent")}}
      \cup {<<>>, <<"{error}">>}
      \cup {<<"{", c, r, t, f, "}">> : c \in {"x", "absent", "null"},
              r \in {"y", "null"}, t \in {"absent", "calls"},
              f \in {"absent", "stop"}}
=============================================================================
