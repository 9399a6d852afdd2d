----------------------------- MODULE MCDelivery -----------------------------
(***************************************************************************)
(* Instances of Delivery for TLC.  The sizes are scaled down: a payload    *)
(* has less than 16 bytes, the body is read 4 bytes at a time, and a       *)
(* packet holds 13.                                                        *)
(***************************************************************************)
EXTENDS Delivery

Options == {"--port", "--ip-address", "--pre-shared-key", "--pbkdf2-iterations",
            "--timestamp-fudge-factor", "--https", "--ipv6-v6only", "-v", "--help", "--version"}

\* Numbers in and out of range, one that is negative, an address, and an
\* argument that is nothing.
Values == {"80", "0", "-1", "1.2.3.4", "x"}

MCArg == Options \cup Values

\* "1.2.3.4" is a number to atoi and to sscanf.
MCatoi ==
  [arg \in MCArg |-> CASE arg = "80" -> 80 [] arg = "-1" -> -1 [] arg = "1.2.3.4" -> 1
                       [] OTHER -> 0]
MCsscanf ==
  [arg \in MCArg |-> CASE arg = "80" -> 80 [] arg = "0" -> 0 [] arg = "-1" -> U32 - 1
                       [] arg = "1.2.3.4" -> 1 [] OTHER -> NoNumber]
MCAddress == {"1.2.3.4"}

Lists(n) == UNION {[1 .. k -> MCArg] : k \in 0 .. n}

\* The same command line for both: any short one, and any that starts with a port.
Same == {<<l, l>> : l \in Lists(2) \cup {<<"--port", "80">> \o l : l \in Lists(3)}}

Port == <<"--port", "80">>
Key(k) == <<"--pre-shared-key", k>>
Iterations(n) == <<"--pbkdf2-iterations", n>>

\* Different ones: with and without a key, HTTPS, and other iterations.
Different ==
  {<<Port \o c, Port \o p>> :
     c \in {<< >>, <<"--https">>, Key("x"), <<"--https">> \o Key("x"), Key("x") \o Iterations("80"),
            Key("80") \o <<"--https">>},
     p \in {<< >>, Key("x"), Key("80"), Key("x") \o Iterations("80"), Iterations("80"),
            <<"--timestamp-fudge-factor", "80">> \o Key("x"), <<"--ipv6-v6only">>}}

MCConfig == [https : BOOLEAN, key : MCArg \cup {NULL}, iterations : {1, U32 - 1, 80, 1000}]

MCCommandLines == Same \cup Different

\* The Node client, for which a proxy with the default iterations and one with
\* others are started.
MCNodeConfig ==
  {[https |-> FALSE, key |-> NULL, iterations |-> 1000], [https |-> TRUE, key |-> "x", iterations |-> 1000],
   [https |-> FALSE, key |-> "x", iterations |-> 80]}

MCProxyLines == {Port, Port \o Key("x"), Port \o Key("x") \o Iterations("80")}

=============================================================================
