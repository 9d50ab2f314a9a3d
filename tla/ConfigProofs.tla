---------------------------- MODULE ConfigProofs ----------------------------
(***************************************************************************)
(* Proofs about Config, for every set of command lines of any length, all  *)
(* conversions of the C library and every SIZE_MAX.                        *)
(***************************************************************************)
EXTENDS Config, TLAPS

-----------------------------------------------------------------------------
(* The options and their fields. *)

Configs == [port : 1 .. MaxPort, worker_count : 1 .. MaxWorkers,
            cache_size_bytes : 1 .. SizeMax, log_level : Levels]

(* The fields of different options are different. *)
LEMMA FieldsDiffer ==
  ASSUME NEW f \in Options, NEW g \in Options
  PROVE  /\ Field(f) \in {"port", "worker_count", "cache_size_bytes", "log_level"}
         /\ Field(f) = Field(g) => f = g
  BY DEF Options, Field

(* strtoull returns something between 0 and SIZE_MAX. *)
LEMMA SizesInRange ==
  ASSUME NEW text \in STRING
  PROVE  ParseSize(text) \subseteq 1 .. SizeMax
<1>1. SizeMax \in Nat /\ \A t \in DOMAIN Numeral : Numeral[t] \in Int
  BY ConfigAssumption
<1>2. ASSUME NEW n \in -SizeMax .. SizeMax, Unsigned(n) # 0
      PROVE  Unsigned(n) \in 1 .. SizeMax
  BY <1>1, <1>2 DEF Unsigned
<1> QED
  BY <1>1, <1>2 DEF ParseSize, NumberOf

(* A value that is taken is one for its field. *)
LEMMA TakenFits ==
  ASSUME NEW f \in Options, NEW text \in STRING, NEW v \in Parsed(f, text), config \in Configs
  PROVE  [config EXCEPT ![Field(f)] = v] \in Configs
<1>1. CASE f = "--port"
  <2>1. Field(f) = "port" /\ v \in 1 .. MaxPort
    BY <1>1 DEF Field, Parsed, ParseInt
  <2> QED
    BY <2>1 DEF Configs
<1>2. CASE f = "--workers"
  <2>1. Field(f) = "worker_count" /\ v \in 1 .. MaxWorkers
    BY <1>2 DEF Field, Parsed, ParseInt
  <2> QED
    BY <2>1 DEF Configs
<1>3. CASE f = "--cache-size"
  <2>1. Field(f) = "cache_size_bytes" /\ v \in 1 .. SizeMax
    BY <1>3, SizesInRange DEF Field, Parsed
  <2> QED
    BY <2>1 DEF Configs
<1>4. CASE f = "--log-level"
  <2>1. Field(f) = "log_level" /\ v \in Levels
    BY <1>4, ConfigAssumption DEF Field, Parsed, ParseLevel
  <2> QED
    BY <2>1 DEF Configs
<1> QED
  BY <1>1, <1>2, <1>3, <1>4 DEF Options

-----------------------------------------------------------------------------
(* The inductive invariant: the loop has settled what lies before its      *)
(* index.                                                                  *)

Before(flag) == {i \in Places : i < index /\ argv[i] = flag}

Settled(flag) ==
    /\ Before(flag) = {} => config[Field(flag)] = Defaults[Field(flag)]
    /\ \A i \in Before(flag) :
          (\A j \in Before(flag) : j <= i) => config[Field(flag)] \in Parsed(flag, argv[i + 1])
    /\ Before(flag) # {} => \E i \in Before(flag) : \A j \in Before(flag) : j <= i

TypeInv ==
    /\ stage \in {"parsing", "running", "returned"}
    /\ argv \in Seq(STRING)
    /\ index \in Nat /\ index % 2 = 1 /\ index <= Len(argv) + 1
    /\ config \in Configs
    /\ exit_status \in {-1, 0, 1} /\ usage \in BOOLEAN

LoopInv ==
    /\ \A i \in Places : i < index => IsPair(i)
    /\ \A flag \in Options : Settled(flag)
    /\ stage \in {"parsing", "running"} => ~usage
    /\ stage = "running" => index > Len(argv)
    /\ stage = "returned" =>
          \/ index > Len(argv) /\ ~usage
          \/ /\ index \in Stops /\ usage
             /\ exit_status = (IF argv[index] = "--help" THEN 0 ELSE 1)

(* The loop starts with the defaults. *)
LEMMA ConfigInit == Init => TypeInv /\ LoopInv
<1> SUFFICES ASSUME Init PROVE TypeInv /\ LoopInv
  OBVIOUS
<1>1. argv \in Seq(STRING)
  BY ConfigAssumption DEF Init
<1>2. config \in Configs
  <2>1. SizeMax \in Nat /\ SizeMax >= 1048576
    BY ConfigAssumption, SMT DEF Defaults
  <2> QED
    BY <2>1, SMT DEF Init, Defaults, Configs, Levels, MaxPort, MaxWorkers
<1>3. TypeInv
  <2>1. /\ stage \in {"parsing", "running", "returned"}
        /\ exit_status \in {-1, 0, 1} /\ usage \in BOOLEAN
    BY DEF Init
  <2>2. index \in Nat /\ index % 2 = 1 /\ index <= Len(argv) + 1
    BY <1>1 DEF Init
  <2> QED
    BY <1>1, <1>2, <2>1, <2>2 DEF TypeInv
<1>4. \A i \in Places : ~(i < index)
  BY <1>1 DEF Init, Places
<1>5. \A flag \in Options : Settled(flag)
  BY <1>4 DEF Init, Settled, Before
<1> QED
  BY <1>3, <1>4, <1>5 DEF Init, LoopInv

(* An option and its value are settled, and nothing else is. *)
LEMMA TakeOptionSettles ==
  ASSUME TypeInv, LoopInv, NEW f \in Options, TakeOption(f)
  PROVE  TypeInv' /\ LoopInv'
<1>1. /\ stage = "parsing" /\ index < Len(argv) /\ argv[index] = f
      /\ index' = index + 2
      /\ UNCHANGED <<stage, argv, usage, exit_status>>
  BY DEF TakeOption, Current
<1>2. /\ argv \in Seq(STRING) /\ index \in Nat /\ index % 2 = 1
      /\ index \in DOMAIN argv /\ index + 1 \in DOMAIN argv
      /\ argv[index] \in STRING /\ argv[index + 1] \in STRING
  BY <1>1 DEF TypeInv
<1>3. PICK v \in Parsed(f, argv[index + 1]) : config' = [config EXCEPT ![Field(f)] = v]
  BY DEF TakeOption
<1>4. TypeInv'
  <2>1. config' \in Configs
    BY <1>2, <1>3, TakenFits DEF TypeInv
  <2>2. index' \in Nat /\ index' % 2 = 1 /\ index' <= Len(argv) + 1
    BY <1>1, <1>2
  <2> QED
    BY <1>1, <2>1, <2>2 DEF TypeInv
<1>5. Places' = Places /\ index \in Places /\ IsPair(index)
  BY <1>1, <1>2, <1>3 DEF Places, IsPair
<1>6. \A i \in Places : i < index' <=> i < index \/ i = index
  BY <1>1, <1>2 DEF Places
<1>7. ASSUME NEW i \in Places, i < index'
      PROVE  IsPair(i)'
  BY <1>1, <1>5, <1>6, <1>7 DEF LoopInv, IsPair
<1>8. ASSUME NEW g \in Options
      PROVE  Settled(g)'
  <2>1. CASE g = f
    <3>1. Before(g)' = Before(g) \cup {index}
      BY <1>1, <1>5, <1>6, <2>1 DEF Before
    <3>2. /\ \A i \in Before(g) : i < index
          /\ \A i \in Before(g)' : i <= index
      BY <1>2, <3>1 DEF Before, Places
    <3>3. config'[Field(g)] = v
      BY <1>3, <2>1, FieldsDiffer DEF TypeInv, Configs
    <3> QED
      BY <1>1, <1>2, <2>1, <3>1, <3>2, <3>3 DEF Settled, Before, Places
  <2>2. CASE g # f
    <3>1. Before(g)' = Before(g)
      BY <1>1, <1>5, <1>6, <2>2 DEF Before
    <3>2. config'[Field(g)] = config[Field(g)]
      BY <1>3, <2>2, FieldsDiffer DEF TypeInv, Configs
    <3> QED
      BY <1>1, <3>1, <3>2 DEF LoopInv, Settled
  <2> QED
    BY <2>1, <2>2
<1> QED
  BY <1>1, <1>4, <1>5, <1>7, <1>8 DEF LoopInv

(* Everything else leaves the configuration as it is. *)
LEMMA ConfigKept ==
  ASSUME LoopInv, UNCHANGED <<argv, index, config>>
  PROVE  /\ Places' = Places /\ Stops' = Stops
         /\ \A i \in Places' : i < index' => IsPair(i)'
         /\ \A flag \in Options : Settled(flag)'
<1>1. Places' = Places /\ Stops' = Stops
  BY DEF Places, Stops, IsPair
<1>2. \A i \in Places' : i < index' => IsPair(i)'
  BY <1>1 DEF LoopInv, IsPair
<1>3. ASSUME NEW flag \in Options
      PROVE  Settled(flag)'
  <2>1. Before(flag)' = Before(flag)
    BY <1>1 DEF Before
  <2> QED
    BY <2>1 DEF LoopInv, Settled
<1> QED
  BY <1>1, <1>2, <1>3

(* Every step keeps the inductive invariant. *)
LEMMA ConfigNext ==
  ASSUME TypeInv, LoopInv, [Next]_vars
  PROVE  TypeInv' /\ LoopInv'
<1>1. ASSUME NEW f \in Options, TakeOption(f)
      PROVE  TypeInv' /\ LoopInv'
  BY <1>1, TakeOptionSettles
<1>2. ASSUME UNCHANGED <<argv, index, config>>,
             stage = "parsing", index \in Stops,
             Return(IF argv[index] = "--help" THEN 0 ELSE 1, TRUE)
      PROVE  TypeInv' /\ LoopInv'
  BY <1>2, ConfigKept DEF TypeInv, LoopInv, Return
<1>3. ASSUME stage = "parsing", index <= Len(argv)
      PROVE  index \in Places
  BY <1>3 DEF TypeInv, Places
<1>4. ASSUME NEW f \in Options, RefuseOption(f)
      PROVE  TypeInv' /\ LoopInv'
  <2>1. argv[index] = f /\ f # "--help" /\ index \in Places /\ ~IsPair(index)
    BY <1>3, <1>4 DEF RefuseOption, Current, Options, IsPair
  <2> QED
    BY <1>2, <1>4, <2>1 DEF RefuseOption, Current, Stops
<1>5. CASE RefuseArgument \/ Help
  <2>1. index \in Places /\ ~IsPair(index) /\ (argv[index] = "--help" <=> Help)
    BY <1>3, <1>5 DEF RefuseArgument, Help, Current, Options, IsPair
  <2> QED
    BY <1>2, <1>5, <2>1 DEF RefuseArgument, Help, Current, Stops
<1>6. CASE StartServer
  BY <1>6, ConfigKept DEF StartServer, TypeInv, LoopInv
<1>7. CASE ServerReturns
  BY <1>7, ConfigKept DEF ServerReturns, Return, TypeInv, LoopInv
<1>8. CASE Finished \/ UNCHANGED vars
  BY <1>8, ConfigKept DEF Finished, vars, TypeInv, LoopInv
<1> QED
  BY <1>1, <1>4, <1>5, <1>6, <1>7, <1>8 DEF Next

-----------------------------------------------------------------------------
(* The theorems. *)

(* The inductive invariant holds in every reachable state. *)
THEOREM ConfigInductive == Spec => [](TypeInv /\ LoopInv)
<1>1. Init => TypeInv /\ LoopInv
  BY ConfigInit
<1>2. TypeInv /\ LoopInv /\ [Next]_vars => TypeInv' /\ LoopInv'
  BY ConfigNext
<1> QED
  BY <1>1, <1>2, PTL DEF Spec

(* No command line leads to a configuration that another component would   *)
(* refuse.                                                                 *)
THEOREM AlwaysUsable == Spec => []ConfigUsable
<1>1. TypeInv => ConfigUsable
  <2> SUFFICES ASSUME TypeInv PROVE ConfigUsable
    OBVIOUS
  <2>1. /\ config.cache_size_bytes \in 1 .. SizeMax /\ SizeMax \in Nat
        /\ config.port \in 1 .. MaxPort /\ config.worker_count \in 1 .. MaxWorkers
        /\ config.log_level \in Levels
    BY ConfigAssumption DEF TypeInv, Configs
  <2>2. MaxObjectSize(config.cache_size_bytes) \in 1 .. config.cache_size_bytes
    BY <2>1, SMT DEF MaxObjectSize, ObjectLimit
  <2> QED
    BY <2>1, <2>2 DEF TypeInv, ConfigUsable
<1> QED
  BY <1>1, ConfigInductive, PTL

(* A command line of any length is read as pairs of options and values.    *)
THEOREM AlwaysAsMeant == Spec => []ParsedAsMeant
<1>1. TypeInv /\ LoopInv => ParsedAsMeant
  <2> SUFFICES ASSUME TypeInv, LoopInv PROVE ParsedAsMeant
    OBVIOUS
  <2>1. ASSUME index > Len(argv)
        PROVE  Stops = {} /\ Read = Places
    BY <2>1 DEF TypeInv, LoopInv, Stops, Read, Places
  <2>2. ASSUME stage = "running", NEW flag \in Options
        PROVE  IF LastOf(flag) = {} THEN config[Field(flag)] = Defaults[Field(flag)]
               ELSE \A i \in LastOf(flag) : config[Field(flag)] \in Parsed(flag, argv[i + 1])
    <3>1. Before(flag) = {i \in Read : argv[i] = flag}
      BY <2>1, <2>2 DEF TypeInv, LoopInv, Before, Places
    <3>2. Settled(flag)
      BY DEF LoopInv
    <3>3. LastOf(flag) = {i \in Before(flag) : \A j \in Before(flag) : j <= i}
      BY <3>1 DEF LastOf
    <3>4. ASSUME LastOf(flag) = {}
          PROVE  Before(flag) = {}
      BY <3>2, <3>3, <3>4 DEF Settled
    <3> QED
      BY <3>2, <3>3, <3>4 DEF Settled
  <2>3. ASSUME stage = "returned", Stops # {}
        PROVE  \E i \in Stops : /\ \A j \in Stops : i <= j
                                /\ usage /\ exit_status = (IF argv[i] = "--help" THEN 0 ELSE 1)
    BY <2>1, <2>3 DEF TypeInv, LoopInv, Stops, Places
  <2> QED
    BY <2>1, <2>2, <2>3 DEF LoopInv, ParsedAsMeant
<1> QED
  BY <1>1, ConfigInductive, PTL
=============================================================================
