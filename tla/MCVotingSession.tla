--------------------------- MODULE MCVotingSession ---------------------------
(* An instance of VotingSession for TLC: a server and one player.            *)
EXTENDS VotingSession, TLC

CONSTANTS p1

MCPlayers == {p1}
MCNames == {"alice"}
MCNameOf == p1 :> "alice"

MCMaps == {"guardian", "riverworld"}
MCMapDisplayName == [m \in MCMaps |-> m]
MCTypeDisplayName == [t \in {"slayer", "ctf"} |-> t]
Slayer == [name |-> "slayer", specificMaps |-> {}]
Ctf    == [name |-> "ctf", specificMaps |-> {"riverworld"}]
MCTypes == {Slayer, Ctf}
MCJsons == {[readable |-> TRUE, maps |-> {"guardian"}, types |-> {Slayer, Ctf}]}
=============================================================================
