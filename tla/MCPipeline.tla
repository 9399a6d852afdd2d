----------------------------- MODULE MCPipeline -----------------------------
(***************************************************************************)
(* Instances of Pipeline for TLC.                                          *)
(***************************************************************************)
EXTENDS Pipeline

O(t, v) == [type |-> t, value |-> v, time |-> 0]

At(time) == [type |-> "TIMESTAMP", value |-> "set", time |-> time]

\* Encryption parameters: complete, and each way in which they are not.
Sound == <<O("MODE", "known"), O("IV", "right"), O("TAG", "right"), O("KDF", "known"),
           O("SALT", "right")>>

Defect ==
  {O("MODE", "none"), O("MODE", "unknown"), O("MODE", "badlen"), O("IV", "empty"),
   O("IV", "wrong"), O("TAG", "empty"), O("TAG", "wrong"), O("KDF", "none"),
   O("KDF", "unknown"), O("SALT", "empty"), O("SALT", "wrong")}

Parameters ==
  {<< >>, Sound} \cup {SelectSeq(Sound, LAMBDA o : o.type # d.type) \o <<d>> : d \in Defect}

\* Other options: none, HTTPS on or off, and timestamps before, in, at the
\* edges of and after the window of 3 around time 10.
Others ==
  {<< >>, <<O("HTTPS", "on")>>, <<O("HTTPS", "off")>>, <<O("HTTPS", "badlen")>>,
   <<At(6)>>, <<At(7)>>, <<At(13)>>, <<At(14)>>, <<At(0)>>,
   <<[At(10) EXCEPT !.value = "badlen"]>>, <<At(14), O("HTTPS", "on"), At(10)>>}

AllInputs ==
  [header : {p \o o : p \in Parameters, o \in Others}, header_end : End, encrypted : BOOLEAN,
   inner : Others, inner_end : End, body : BOOLEAN]

=============================================================================
