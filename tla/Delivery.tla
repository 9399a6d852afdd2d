------------------------------ MODULE Delivery ------------------------------
(***************************************************************************)
(* One request from end to end: a client, the C program or an application  *)
(* that uses the Node client, and the proxy are started, the two programs  *)
(* with their command lines; the client cuts the request into datagrams,   *)
(* the network loses and reorders them, the proxy puts the request         *)
(* together and decrypts it.                                               *)
(***************************************************************************)
EXTENDS NodeClient, CommandLine

CONSTANTS
  CommandLines,  \* the pairs of command lines, C client and proxy, to start with
  ProxyLines,    \* the command lines of a proxy for the Node client
  MaxPackets     \* bound on the packets that arrive

\* There is one null pointer.
ASSUME DeliveryAssumption == NoArg = NULL

VARIABLES
  client,          \* "c" or "node"
  argv, pargv,     \* the command lines
  proxy,           \* "main", "listening" or "exited"
  pconfig,         \* the proxy's configuration, NULL before
  arrived, count, inOrder, version, state, expected, received_length, nodes,
  vectorised, buffer,   \* of Reassembly
  outcome          \* what the worker makes of the request: NULL, TRUE or FALSE

reassemblyVars == <<arrived, count, inOrder, version, state, expected, received_length, nodes,
                    vectorised, buffer>>
proxyVars == <<proxy, pconfig, reassemblyVars, outcome>>
allVars == <<client, argv, pargv, clientVars, nodeVars, proxyVars>>

\* The proxy's part.  U32 bounds what the client sends in this module.
R == INSTANCE Reassembly WITH
       Chunk <- {}, payload_length <- expected, payload <- nodes

DeliveryTypeOK ==
  /\ TypeOK /\ NodeTypeOK
  /\ argv \in Seq(Arg) /\ pargv \in Seq(Arg)
  /\ proxy \in {"main", "listening", "exited"}
  /\ state \in {"RECEIVING", "RECEIVED", "RECEIVING_FAIL"}
  /\ count \in 0 .. MaxPackets /\ vectorised \in BOOLEAN
  /\ outcome \in BOOLEAN \cup {NULL}

DeliveryInit ==
  /\ Init /\ NodeInit /\ R!Init
  /\ \/ client = "c" /\ \E lines \in CommandLines : argv = lines[1] /\ pargv = lines[2]
     \/ client = "node" /\ argv = << >> /\ pargv \in ProxyLines
  /\ proxy = "main" /\ pconfig = NULL /\ outcome = NULL

-----------------------------------------------------------------------------

\* main of the client.
ClientMain ==
  /\ client = "c" /\ pc = "main"
  /\ LET p == ff_client_parse_arguments(argv)
     IN  CASE p.action = "MAKE_REQUEST" ->
                MakeRequest([https |-> p.flag, key |-> p.key, iterations |-> p.iterations])
           [] p.action = "INVALID_ARGS" -> PrintAndExit(1)
           [] OTHER -> PrintAndExit(0)
  /\ UNCHANGED <<client, argv, pargv, nodeVars, proxyVars>>

\* main of the proxy.  ff_proxy_start listens, or returns when it cannot.
ProxyMain ==
  /\ proxy = "main"
  /\ LET p == ff_parse_arguments(pargv)
     IN  \/ /\ p.action = "START_PROXY"
            /\ proxy' = "listening" /\ pconfig' = p
         \/ /\ proxy' = "exited" /\ UNCHANGED pconfig
  /\ UNCHANGED <<client, argv, pargv, clientVars, nodeVars, reassemblyVars, outcome>>

ClientStep ==
  /\ client = "c" /\ ff_client_make_request
  /\ UNCHANGED <<client, argv, pargv, nodeVars, proxyVars>>

\* The application writes, and the Node client takes a step.
NodeWrite ==
  /\ client = "node" /\ \E c \in NodeConfig, n \in Piece : Write(c, n)
  /\ UNCHANGED <<client, argv, pargv, proxyVars>>

NodeClientStep ==
  /\ client = "node" /\ NodeStep
  /\ UNCHANGED <<client, argv, pargv, proxyVars>>

\* A packet's header as the proxy parses it.
HeaderOf(p) ==
  [total_length |-> p.total_length, chunk_offset |-> p.chunk_offset,
   chunk_length |-> p.chunk_length, ok |-> TRUE]

\* A packet that was sent arrives, once, while the proxy listens.
Arrive ==
  /\ proxy = "listening"
  /\ \E i \in 1 .. sent :
       /\ HeaderOf(packets[i]) \notin arrived
       /\ R!Receive(HeaderOf(packets[i]))
  /\ UNCHANGED <<client, argv, pargv, clientVars, nodeVars, proxy, pconfig, outcome>>

ProxyDrop ==
  /\ R!Drop
  /\ UNCHANGED <<client, argv, pargv, clientVars, nodeVars, proxy, pconfig, outcome>>

ProxyVectorise ==
  /\ R!ff_request_vectorise_payload
  /\ UNCHANGED <<client, argv, pargv, clientVars, nodeVars, proxy, pconfig, outcome>>

\* Mutant: a key is only used for requests that are encrypted.
MutantDecrypts == sealed => pconfig.key = config.key /\ pconfig.iterations = config.iterations

\* ff_decrypt_request: AES-GCM accepts a ciphertext under the key it was made
\* with, derived with as many iterations.
Decrypts ==
  IF sealed THEN pconfig.key # NULL /\ pconfig.key = config.key
                 /\ pconfig.iterations = config.iterations
  ELSE pconfig.key = NULL

ff_decrypt_request ==
  /\ vectorised /\ outcome = NULL
  /\ outcome' = Decrypts
  /\ UNCHANGED <<client, argv, pargv, clientVars, nodeVars, proxy, pconfig, reassemblyVars>>

DeliveryNext ==
  \/ ClientMain \/ ProxyMain \/ ClientStep \/ NodeWrite \/ NodeClientStep
  \/ Arrive \/ ProxyDrop \/ ProxyVectorise \/ ff_decrypt_request

DeliverySpec == DeliveryInit /\ [][DeliveryNext]_allVars

\* The client takes its steps whatever the proxy does.
DeliveryFairSpec == DeliverySpec /\ WF_allVars(ClientStep \/ NodeClientStep)

-----------------------------------------------------------------------------
(***************************************************************************)
(* Properties.                                                             *)
(***************************************************************************)

\* The configuration is what the command line says: the proxy starts only if
\* every option and every value is a good one and a port is given, and of
\* several values of an option the last one counts (config.c:33-192).
ProxyConfigured ==
  proxy = "listening" =>
    LET isOption == OptionAt(pargv, ProxyOptions)
        Values(option) == {pargv[i] : i \in ValuesOf(pargv, ProxyOptions, option)}
    IN  /\ \A i \in 1 .. Len(pargv) :
             isOption[i] => pargv[i] \in ProxyOptions \cup Verbosity \cup {"--ipv6-v6only"}
        /\ Values("--port") # {} /\ \A arg \in Values("--port") : IsPositive16(atoi[arg])
        /\ Values("--ip-address") \subseteq Address
        /\ pconfig.port = LastOf(pargv, ProxyOptions, "--port", NULL)
        /\ pconfig.key = LastOf(pargv, ProxyOptions, "--pre-shared-key", NULL)

\* A client and a proxy that start with the same arguments use the same key
\* and the same number of iterations, although one reads the number with atoi
\* and the other with sscanf (config.c:142, client/c/config.c:117).
SameEncryption ==
  client = "c" /\ argv = pargv /\ config # NULL /\ proxy = "listening" =>
    config.key = pconfig.key /\ config.iterations = pconfig.iterations

\* A request that decrypts is, byte for byte, the one the client made, and the
\* proxy was started with the client's key, or both without one
\* (client.c:20-63, server.c:209-236).
AcceptedAsMade ==
  outcome = TRUE =>
    /\ config.key = pconfig.key
    /\ DOMAIN buffer = 0 .. Len(bytes) - 1
    /\ \A b \in DOMAIN buffer : bytes[buffer[b] + 1] = bytes[b + 1]
    /\ Fits /\ input <= ReadBuffer => bytes = Intended(PayloadOptions(config.https))

\* The proxy completes a request of which every packet has come, in order,
\* from a client that ended with status 0 (client.c:185-242, parser.c:104-254).
InOrderDelivered ==
  /\ pc = "end" /\ config # NULL /\ ret_val = 0 /\ Fits
  /\ inOrder /\ count = Len(packets)
  => state = "RECEIVED"

=============================================================================
