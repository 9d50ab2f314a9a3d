------------------------------ MODULE MCConfig ------------------------------
(***************************************************************************)
(* Config for every command line of up to MaxLength arguments out of a     *)
(* few: each option, a number on each side of each limit, a level in each  *)
(* case, and what is none of these.  SIZE_MAX is scaled down.              *)
(***************************************************************************)
EXTENDS Config, TLC

CONSTANT MaxLength

MCNumeral == ("0" :> 0) @@ ("1" :> 1) @@ ("256" :> 256) @@ ("257" :> 257)
             @@ ("65535" :> 65535) @@ ("65536" :> 65536)
             @@ ("2000001" :> 2000001) @@ ("-1" :> -1)

MCLevelOf == ("warn" :> "WARN") @@ ("Debug" :> "DEBUG")

Arguments == Options \cup DOMAIN MCNumeral \cup DOMAIN MCLevelOf \cup {"--help", "80x"}

MCCommandLines == UNION {[1 .. n -> Arguments] : n \in 0 .. MaxLength}
=============================================================================
