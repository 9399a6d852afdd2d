------------------------------- MODULE MCHttp -------------------------------
(***************************************************************************)
(* Instances of Http for TLC.                                              *)
(***************************************************************************)
EXTENDS Http

\* Lines of a request, empty ones and ones with a Host header among them.
Texts ==
  {<< >>, <<"other">>, <<"host", "colon", "name">>, <<"host", "colon", "space", "host">>,
   <<"host", "colon", "name", "name", "name", "name">>, <<"host", "colon">>, <<"name", "host", "colon">>}

Ends == {<<"lf">>, <<"cr", "lf">>}

\* Two lines, the last of which may lack its end, after a first one; and every
\* payload of at most three symbols.
MCPayload ==
  {<<"other", "lf">> \o a \o e \o b \o f : a \in Texts, e \in Ends, b \in Texts, f \in Ends \cup {<< >>}}
  \cup UNION {[1 .. n -> Symbol] : n \in 0 .. 3}

=============================================================================
