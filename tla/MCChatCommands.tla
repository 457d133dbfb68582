---------------------------- MODULE MCChatCommands ----------------------------
(* Instances of ChatCommands for TLC.                                      *)
EXTENDS ChatCommands, TLC

CONSTANTS h, a, b, c1

MCUid == (h :> 1) @@ (a :> 2) @@ (b :> 3) @@ (c1 :> 4)

\* Everybody has a name of their own, or a has the host's and b and c1 share one.
OwnNames    == (h :> "h") @@ (a :> "a") @@ (b :> "b") @@ (c1 :> "c")
SharedNames == (h :> "h") @@ (a :> "h") @@ (b :> "b") @@ (c1 :> "b")

\* a and b are behind one address.
MCIp == (h :> "ip0") @@ (a :> "ip1") @@ (b :> "ip1") @@ (c1 :> "ip2")

MCUidOf == [m \in Machines |-> MCUid[m]]
MCOwnNames == [m \in Machines |-> OwnNames[m]]
MCSharedNames == [m \in Machines |-> SharedNames[m]]
MCIpOf == [m \in Machines |-> MCIp[m]]
=============================================================================
