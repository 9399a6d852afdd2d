----------------------------- MODULE HostHeader -----------------------------
(***************************************************************************)
(* The search for the destination in the head of an HTTP request           *)
(* (ff_http_get_destination_host in src/src/http.c), and what it is to     *)
(* find.  A payload is a sequence of the symbols the search tells apart.   *)
(***************************************************************************)
EXTENDS Integers, Sequences, FiniteSetsExt

CONSTANTS
  MaxSearch,  \* FF_HTTP_HOST_HEADER_MAX_SEARCH_LENGTH
  HostMax     \* the last index at which a character of the name is stored

(***************************************************************************)
(* "host" is the word in any case, "name" any other character of a host    *)
(* name, "other" a character without a meaning of its own.                 *)
(***************************************************************************)
Symbol == {"host", "colon", "name", "space", "cr", "lf", "nul", "other"}

NameSymbol == {"host", "name"}

NotFound == [found |-> FALSE, name |-> << >>]

\* The byte at an index.  The one after the payload is read too: it is
\* whatever memory holds there.
At(payload, beyond, i) == IF i < Len(payload) THEN payload[i + 1] ELSE beyond

\* FF_HTTP_DESTINATION_CONSUME_CHAR: the search may go on at the index.
Consumes(payload, beyond, i) ==
  i <= Len(payload) /\ At(payload, beyond, i) # "nul" /\ i < MaxSearch

\* Mutant: a line that holds only a carriage return is not seen as empty.
MutantIsBlank(payload, beyond, i) ==
  Len(payload) - i > 2 /\ i # 0 /\ At(payload, beyond, i) = "lf"

\* The end of the headers, which the first line cannot be.  Symbols stand for
\* the bytes of the code's test: of "host" four, but an empty line with no more
\* than that word after it has no host after it either way.
IsBlank(payload, beyond, i) ==
  /\ Len(payload) - i > 2 /\ i # 0
  /\ \/ At(payload, beyond, i) = "lf"
     \/ At(payload, beyond, i) = "cr" /\ At(payload, beyond, i + 1) = "lf"

\* "host:" with something after it.
IsHost(payload, beyond, i) ==
  /\ Len(payload) - i > 2
  /\ At(payload, beyond, i) = "host" /\ At(payload, beyond, i + 1) = "colon"

\* ff_http_get_destination_host, line by line.
DestinationHost(payload, beyond) ==
  LET Index == 0 .. Len(payload)
      NextLine[i \in Index] ==
        IF ~ Consumes(payload, beyond, i + 1) THEN -1
        ELSE IF At(payload, beyond, i) = "lf" THEN i + 1 ELSE NextLine[i + 1]
      SkipSpaces[i \in Index] ==
        IF At(payload, beyond, i) # "space" THEN i
        ELSE IF Consumes(payload, beyond, i + 1) THEN SkipSpaces[i + 1] ELSE -1
      Name[i \in 0 .. Len(payload) + 1, length \in 0 .. HostMax + 1] ==
        IF i <= Len(payload) /\ At(payload, beyond, i) \in NameSymbol /\ length <= HostMax
        THEN <<At(payload, beyond, i)>> \o Name[i + 1, length + 1]
        ELSE << >>
      Value(i) ==
        IF ~ Consumes(payload, beyond, i) \/ SkipSpaces[i] = -1 THEN NotFound
        ELSE [found |-> TRUE, name |-> Name[SkipSpaces[i], 0]]
      Line[i \in Index] ==
        IF IsBlank(payload, beyond, i) THEN NotFound
        ELSE IF IsHost(payload, beyond, i) THEN Value(i + 2)
        ELSE IF NextLine[i] = -1 THEN NotFound ELSE Line[NextLine[i]]
  IN  IF payload = << >> THEN NotFound ELSE Line[0]

-----------------------------------------------------------------------------
(***************************************************************************)
(* What the search is to find in a request that ends with a line feed.     *)
(***************************************************************************)

\* Where lines start, counting symbols from 1.
LineStarts(payload) == {1} \cup {i + 1 : i \in {j \in 1 .. Len(payload) - 1 : payload[j] = "lf"}}

\* The lines of the head: those with no empty line before them, the first line
\* never counting as empty.
HeadLines(payload) ==
  {s \in LineStarts(payload) :
     \A t \in LineStarts(payload) \cap 2 .. s :
       payload[t] # "lf" /\ ~ (payload[t] = "cr" /\ payload[t + 1] = "lf")}

HostLines(payload) ==
  {s \in HeadLines(payload) :
     s + 2 <= Len(payload) /\ payload[s] = "host" /\ payload[s + 1] = "colon"}

\* The name in a line: after any spaces, as far as there are symbols of a name,
\* but not more than the code has room for.
NameIn(payload, s) ==
  LET from == Min({i \in s + 2 .. Len(payload) : payload[i] # "space"})
      to == Min({i \in from .. Len(payload) : payload[i] \notin NameSymbol}) - 1
  IN  SubSeq(payload, from, Min({to, from + HostMax}))

\* The name in the first line of the head that starts with "host:".
FirstHost(payload) ==
  IF HostLines(payload) = {} THEN NotFound
  ELSE [found |-> TRUE, name |-> NameIn(payload, Min(HostLines(payload)))]

=============================================================================
