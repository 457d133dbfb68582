---------------------------- MODULE MCVotingSystem ----------------------------
(* Instances of VotingSystem for TLC.                                       *)
EXTENDS VotingSystem, TLC

CONSTANTS p1, p2

MCPlayers == {p1, p2}
MCNames == {"alice", "bob"}
\* Every player has a name of their own.
MCDistinctNames == p1 :> "alice" @@ p2 :> "bob"
\* Two players with the same display name.
MCSharedNames == p1 :> "alice" @@ p2 :> "alice"

MCMaps == {"guardian", "riverworld", "missing"}
MCKnownMaps == {"guardian", "riverworld"}
MCDefaultMaps == {"guardian"}
MCMapDisplayName == [m \in MCMaps |-> m]
\* "slayer" and its variant "pro" are displayed alike.
MCTypeDisplayName == [t \in {"slayer", "pro", "ctf"} |-> IF t = "pro" THEN "slayer" ELSE t]

Slayer == [name |-> "slayer", specificMaps |-> {}]
Pro    == [name |-> "pro", specificMaps |-> {}]
Ctf    == [name |-> "ctf", specificMaps |-> {"riverworld"}]
MCDefaultTypes == {Slayer}

\* A usable file; one without gametypes; one whose maps do not exist; one
\* with two options that look the same; none.
GoodJson  == [readable |-> TRUE, maps |-> {"guardian"}, types |-> {Slayer, Ctf}]
ShortJson == [readable |-> TRUE, maps |-> {"riverworld"}, types |-> {}]
StaleJson == [readable |-> TRUE, maps |-> {"missing"}, types |-> {Slayer, Ctf}]
TwinJson  == [readable |-> TRUE, maps |-> {"guardian"}, types |-> {Slayer, Pro}]
NoJson    == [readable |-> FALSE, maps |-> {}, types |-> {}]

MCOneJson == {GoodJson}
MCOddJsons == {ShortJson, StaleJson, TwinJson, NoJson}
=============================================================================
