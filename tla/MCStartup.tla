------------------------------ MODULE MCStartup ------------------------------
(* An instance of Startup for TLC. *)
EXTENDS Startup, TLC

MCTable == {"config", "rule", "account", "miner", "buyback"}

\* One default of each table, another account besides: a database that has
\* served users before the default account was added to the list.
MCDefault ==
  [t \in MCTable |-> CASE t = "account" -> {[id |-> "z1", name |-> "code1"]}
                       [] t = "miner" -> {[id |-> "m1", name |-> "name1"]}
                       [] OTHER -> {[id |-> t, name |-> t]}]

MCInitRows ==
  [t \in MCTable |->
     IF t = "account"
     THEN {[id |-> "u0", name |-> "code0", value |-> "default", by |-> "request"]}
     ELSE {}]

AccessSymmetry == Permutations(Request) \cup Permutations(Server)
=============================================================================
