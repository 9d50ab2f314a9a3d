------------------------------- MODULE Config -------------------------------
(***************************************************************************)
(* The command line: main of src/src/main.c and proxy_config_parse_args of *)
(* src/src/config.c, from the arguments to the configuration the server is *)
(* started with, and to the exit status of the process.                    *)
(*                                                                         *)
(* An argument is a string.  The conversions of the C library are maps     *)
(* from the texts they convert completely: what is outside of their domain *)
(* leaves an error or a rest behind.                                       *)
(***************************************************************************)
EXTENDS Integers, Sequences, FiniteSets

CONSTANTS CommandLines,  \* argv, from argv[1] on
          Numeral,       \* the number each decimal numeral stands for
          LevelOf,       \* the level each of its spellings stands for
          SizeMax        \* SIZE_MAX and ULLONG_MAX

Levels == {"DEBUG", "INFO", "WARN", "ERROR"}
Defaults == [port |-> 8080, worker_count |-> 4, cache_size_bytes |-> 1048576, log_level |-> "INFO"]
MaxPort == 65535
MaxWorkers == 256
ObjectLimit == 262144  \* PROXY_CACHE_MAX_OBJECT_SIZE

ASSUME ConfigAssumption ==
    /\ \A line \in CommandLines : line \in Seq(STRING)
    /\ \A text \in DOMAIN Numeral : Numeral[text] \in Int
    /\ \A text \in DOMAIN LevelOf : LevelOf[text] \in Levels
    /\ SizeMax \in Nat /\ SizeMax >= Defaults.cache_size_bytes

VARIABLES
    stage,        \* where main is
    argv,         \* the arguments
    index,        \* the loop index
    config,       \* proxy_config_t, on the stack of main
    usage,        \* whether the usage text has been printed
    exit_status   \* what main returned, -1 before it did

vars == <<stage, argv, index, config, usage, exit_status>>

-----------------------------------------------------------------------------
(* What an argument is converted to: a set of one value, or of none if it  *)
(* is refused.                                                             *)

NumberOf(text) == {Numeral[t] : t \in {text} \cap DOMAIN Numeral}

(* Mutant: the upper limit is off by one. *)
ParseIntOffByOne(text, min, max) == NumberOf(text) \cap (min .. max + 1)

(* parse_int_arg.  What strtol refuses as out of range is so here, too.    *)
ParseInt(text, min, max) == NumberOf(text) \cap (min .. max)

(* strtoull negates a number with a minus sign as an unsigned one.         *)
Unsigned(n) == IF n < 0 THEN SizeMax + 1 + n ELSE n

(* parse_size_arg *)
ParseSize(text) == {Unsigned(n) : n \in NumberOf(text) \cap (-SizeMax .. SizeMax)} \ {0}

(* logger_parse_level *)
ParseLevel(text) == {LevelOf[t] : t \in {text} \cap DOMAIN LevelOf}

Options == {"--port", "--workers", "--cache-size", "--log-level"}

Field(flag) == IF flag = "--port" THEN "port"
               ELSE IF flag = "--workers" THEN "worker_count"
               ELSE IF flag = "--cache-size" THEN "cache_size_bytes"
               ELSE "log_level"

Parsed(flag, text) == IF flag = "--port" THEN ParseInt(text, 1, MaxPort)
                      ELSE IF flag = "--workers" THEN ParseInt(text, 1, MaxWorkers)
                      ELSE IF flag = "--cache-size" THEN ParseSize(text)
                      ELSE ParseLevel(text)

-----------------------------------------------------------------------------
(* proxy_config_parse_args *)

Current(flag) == stage = "parsing" /\ index <= Len(argv) /\ argv[index] = flag

(* main returns; the usage text goes before it if it is called for. *)
Return(status, with_usage) ==
    /\ stage' = "returned"
    /\ exit_status' = status
    /\ usage' = with_usage

(* Mutant: the loop does not step over the value. *)
TakeOptionOnly(flag) ==
    /\ Current(flag)
    /\ index < Len(argv)
    /\ \E value \in Parsed(flag, argv[index + 1]) :
          config' = [config EXCEPT ![Field(flag)] = value]
    /\ index' = index + 1
    /\ UNCHANGED <<stage, argv, usage, exit_status>>

TakeOption(flag) ==
    /\ Current(flag)
    /\ index < Len(argv)
    /\ \E value \in Parsed(flag, argv[index + 1]) :
          config' = [config EXCEPT ![Field(flag)] = value]
    /\ index' = index + 2
    /\ UNCHANGED <<stage, argv, usage, exit_status>>

(* The value is missing or refused: an error, and the usage text. *)
RefuseOption(flag) ==
    /\ Current(flag)
    /\ index < Len(argv) => Parsed(flag, argv[index + 1]) = {}
    /\ Return(1, TRUE)
    /\ UNCHANGED <<argv, index, config>>

RefuseArgument ==
    /\ stage = "parsing" /\ index <= Len(argv)
    /\ argv[index] \notin Options \cup {"--help"}
    /\ Return(1, TRUE)
    /\ UNCHANGED <<argv, index, config>>

Help ==
    /\ Current("--help")
    /\ Return(0, TRUE)
    /\ UNCHANGED <<argv, index, config>>

-----------------------------------------------------------------------------
(* main goes on *)

StartServer ==
    /\ stage = "parsing" /\ index > Len(argv)
    /\ stage' = "running"
    /\ UNCHANGED <<argv, index, config, usage, exit_status>>

(* proxy_server_run returns its result: see ProxyServer. *)
ServerReturns ==
    /\ stage = "running"
    /\ \E status \in {0, 1} : Return(status, usage)
    /\ UNCHANGED <<argv, index, config>>

Finished == stage = "returned" /\ UNCHANGED vars

-----------------------------------------------------------------------------
Init ==
    /\ stage = "parsing"
    /\ argv \in CommandLines
    /\ index = 1
    /\ config = Defaults
    /\ usage = FALSE
    /\ exit_status = -1

Next ==
    \/ \E flag \in Options : TakeOption(flag) \/ RefuseOption(flag)
    \/ RefuseArgument
    \/ Help
    \/ StartServer
    \/ ServerReturns
    \/ Finished

Spec == Init /\ [][Next]_vars

-----------------------------------------------------------------------------
(* Properties *)

(* The object limit proxy_server_run derives from the cache's size. *)
MaxObjectSize(total) == IF total < ObjectLimit THEN total ELSE ObjectLimit

(* Whatever the arguments are, and also in the middle of them, the         *)
(* configuration is one the other components accept: a port bind can take, *)
(* a worker count thread_pool_create takes, sizes cache_create takes (at   *)
(* least one byte for an object, no object larger than the cache), and a   *)
(* level the logger knows.                                                 *)
ConfigUsable ==
    /\ config.port \in 1 .. MaxPort
    /\ config.worker_count \in 1 .. MaxWorkers
    /\ config.cache_size_bytes \in Nat
    /\ MaxObjectSize(config.cache_size_bytes) \in 1 .. config.cache_size_bytes
    /\ config.log_level \in Levels
    /\ exit_status \in {-1, 0, 1} /\ usage \in BOOLEAN

(* The reference: arguments come in pairs of an option and its value, from *)
(* the first on; what comes behind the first that is no such pair is not   *)
(* looked at.                                                              *)
Places == {i \in DOMAIN argv : i % 2 = 1}
IsPair(i) == i < Len(argv) /\ argv[i] \in Options /\ Parsed(argv[i], argv[i + 1]) # {}
Stops == {i \in Places : ~IsPair(i)}
Read == {i \in Places : \A j \in Stops : i < j}
LastOf(flag) == {i \in Read : argv[i] = flag /\ \A j \in Read : argv[j] = flag => j <= i}

(* The server runs exactly if all arguments are such pairs, with the last  *)
(* value of each option, and the default of one that is not there; --help  *)
(* in the place of an option before any mistake ends with status 0, a      *)
(* mistake before it with status 1, both with the usage text.              *)
ParsedAsMeant ==
    /\ stage = "running" =>
          /\ Stops = {} /\ ~usage
          /\ \A flag \in Options :
                IF LastOf(flag) = {} THEN config[Field(flag)] = Defaults[Field(flag)]
                ELSE \A i \in LastOf(flag) : config[Field(flag)] \in Parsed(flag, argv[i + 1])
    /\ stage = "returned" /\ Stops # {} =>
          \E i \in Stops : /\ \A j \in Stops : i <= j
                           /\ usage /\ exit_status = (IF argv[i] = "--help" THEN 0 ELSE 1)
    /\ stage = "returned" /\ Stops = {} => ~usage

-----------------------------------------------------------------------------
(* A claim the code does not live up to. *)

(* src/config.c:56, the message for a refused size: the value "must be     *)
(* between 1 and" SIZE_MAX.  A cache size that was given is a number in    *)
(* this range.                                                             *)
SizeInRange ==
    stage = "running" =>
        \A i \in LastOf("--cache-size") : NumberOf(argv[i + 1]) \subseteq 1 .. SizeMax
=============================================================================
