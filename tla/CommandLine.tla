---------------------------- MODULE CommandLine ----------------------------
(***************************************************************************)
(* The argument parsers of the proxy (src/src/config.c) and of the C       *)
(* client (src/client/c/config.c).  Each is a loop over argv with a state: *)
(* it expects an option, or the value of the option it has just read.      *)
(***************************************************************************)
EXTENDS Integers, SequencesExt

CONSTANTS
  Arg,         \* the arguments that may be given
  atoi,        \* the number an argument is to atoi
  sscanf,      \* the number "%u" reads from it, NoNumber if there is none
  Address,     \* the arguments that inet_pton accepts
  UINT16_MAX, U32,
  NoArg        \* the null pointer: no argument

NoNumber == -1

ASSUME ArgAssumption ==
  /\ Address \subseteq Arg /\ NoArg \notin Arg
  /\ atoi \in [Arg -> Int] /\ sscanf \in [Arg -> Nat \cup {NoNumber}]
  /\ UINT16_MAX \in Nat /\ U32 \in Nat \ {0}

-----------------------------------------------------------------------------

Verbosity == {"-v", "-vv", "-vvv"}

\* The options of both programs that take a value.
Shared == {"--port", "--ip-address", "--pre-shared-key", "--pbkdf2-iterations"}

(***************************************************************************)
(* The local variables of a parser.  `state` is DEFAULT or the option      *)
(* whose value comes next, `flag` the option without a value that only one *)
(* of the programs has: --ipv6-v6only of the proxy, --https of the client. *)
(***************************************************************************)
Defaults(start, address) ==
  [state |-> "DEFAULT", action |-> start, port |-> NoArg, ip |-> address,
   key |-> NoArg, iterations |-> 1000, fudge |-> 30, flag |-> FALSE, level |-> "ERROR"]

\* `goto done' with another action than the one the parser started with.
Stop(p, action) == [p EXCEPT !.action = action]

Set(p, field, value) == [p EXCEPT ![field] = value, !.state = "DEFAULT"]

\* An argument where an option is expected; case makes no difference.
ParseOption(p, arg, valued, flag) ==
  CASE arg = "--help"      -> Stop(p, "PRINT_USAGE")
    [] arg = "--version"   -> Stop(p, "PRINT_VERSION")
    [] arg \in valued      -> [p EXCEPT !.state = arg]
    [] arg = flag          -> [p EXCEPT !.flag = TRUE]
    [] arg \in Verbosity   -> [p EXCEPT !.level = arg]
    [] OTHER               -> Stop(p, "INVALID_ARGS")

\* A number of a field of 16 bits that may not be 0.
IsPositive16(n) == n > 0 /\ n <= UINT16_MAX

\* Mutant: a port that is not a number is only reported.
MutantProxyValue(p, arg) ==
  CASE p.state = "--port" -> Set(p, "port", arg)
    [] p.state = "--ip-address" ->
         IF arg \in Address THEN Set(p, "ip", arg) ELSE Stop(p, "INVALID_ARGS")
    [] p.state = "--pre-shared-key" -> Set(p, "key", arg)
    [] p.state = "--pbkdf2-iterations" ->
         IF atoi[arg] % U32 <= 0 THEN Stop(p, "INVALID_ARGS")
         ELSE Set(p, "iterations", atoi[arg] % U32)
    [] p.state = "--timestamp-fudge-factor" ->
         IF IsPositive16(atoi[arg]) THEN Set(p, "fudge", atoi[arg]) ELSE Stop(p, "INVALID_ARGS")

\* The value of an option of the proxy.  The number of iterations is stored in
\* 32 unsigned bits before it is tested.
ProxyValue(p, arg) ==
  CASE p.state = "--port" ->
         IF IsPositive16(atoi[arg]) THEN Set(p, "port", arg) ELSE Stop(p, "INVALID_ARGS")
    [] p.state = "--ip-address" ->
         IF arg \in Address THEN Set(p, "ip", arg) ELSE Stop(p, "INVALID_ARGS")
    [] p.state = "--pre-shared-key" -> Set(p, "key", arg)
    [] p.state = "--pbkdf2-iterations" ->
         IF atoi[arg] % U32 <= 0 THEN Stop(p, "INVALID_ARGS")
         ELSE Set(p, "iterations", atoi[arg] % U32)
    [] p.state = "--timestamp-fudge-factor" ->
         IF IsPositive16(atoi[arg]) THEN Set(p, "fudge", atoi[arg]) ELSE Stop(p, "INVALID_ARGS")

\* Mutant: the client reads the iterations with atoi into a signed variable
\* and takes a negative number for the default.
MutantScanned(p, arg) == IF atoi[arg] < 0 THEN p.iterations ELSE atoi[arg] % U32

\* sscanf leaves the variable as it was if the argument is not a number.
Scanned(p, arg) == IF sscanf[arg] = NoNumber THEN p.iterations ELSE sscanf[arg] % U32

\* The value of an option of the client.  It takes any address or host name.
ClientValue(p, arg) ==
  CASE p.state = "--port" ->
         IF IsPositive16(atoi[arg]) THEN Set(p, "port", arg) ELSE Stop(p, "INVALID_ARGS")
    [] p.state = "--ip-address" -> Set(p, "ip", arg)
    [] p.state = "--pre-shared-key" -> Set(p, "key", arg)
    [] p.state = "--pbkdf2-iterations" ->
         IF Scanned(p, arg) = 0 THEN Stop(p, "INVALID_ARGS")
         ELSE Set(p, "iterations", Scanned(p, arg))

\* After the loop: an option at the end that lacks its value is ignored.
Finish(p, start) == IF p.action = start /\ p.port = NoArg THEN Stop(p, "INVALID_ARGS") ELSE p

ProxyOptions == Shared \cup {"--timestamp-fudge-factor"}

ff_parse_arguments(argv) ==
  LET Step(p, arg) ==
        IF p.action # "START_PROXY" THEN p
        ELSE IF p.state = "DEFAULT" THEN ParseOption(p, arg, ProxyOptions, "--ipv6-v6only")
        ELSE ProxyValue(p, arg)
  IN  Finish(FoldLeft(Step, Defaults("START_PROXY", "0.0.0.0"), argv), "START_PROXY")

ff_client_parse_arguments(argv) ==
  LET Step(p, arg) ==
        IF p.action # "MAKE_REQUEST" THEN p
        ELSE IF p.state = "DEFAULT" THEN ParseOption(p, arg, Shared, "--https")
        ELSE ClientValue(p, arg)
  IN  Finish(FoldLeft(Step, Defaults("MAKE_REQUEST", "127.0.0.1"), argv), "MAKE_REQUEST")

-----------------------------------------------------------------------------
(***************************************************************************)
(* What a command line means, by the positions of its arguments.           *)
(***************************************************************************)

\* The position holds an option, not the value of the one before it.
OptionAt(argv, valued) ==
  LET IsOption[i \in 1 .. Len(argv)] ==
        i = 1 \/ ~ (IsOption[i - 1] /\ argv[i - 1] \in valued)
  IN  IsOption

\* The positions of the values given for an option.
ValuesOf(argv, valued, option) ==
  {i \in 2 .. Len(argv) : argv[i - 1] = option /\ ~ OptionAt(argv, valued)[i]}

\* The last value given for an option, or else the default.
LastOf(argv, valued, option, default) ==
  LET given == ValuesOf(argv, valued, option)
  IN  IF given = {} THEN default ELSE argv[Max(given)]

=============================================================================
