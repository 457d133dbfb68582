-------------------------- MODULE ChatCommandsProofs --------------------------
(* Proofs about ChatCommands, for every set of machines, names, addresses  *)
(* and commands and every setting of the server variables.                 *)
EXTENDS ChatCommands, FiniteSetTheorems, TLAPS

\* What makes BanLastsItsGames inductive: a machine whose ban is not served is
\* out of the session, and its address is banned for the games that are left.
BanInv ==
  /\ gamesOut \in [Machines -> {NotSet} \cup 0..TempBanDuration]
  /\ ipAddresses \in [Ips -> Nat]
  /\ gamesOut[Host] = NotSet
  /\ \A m \in Machines :
       gamesOut[m] \in 0..(TempBanDuration - 1) =>
         /\ m \notin InSession
         /\ ipAddresses[IpOf[m]] >= TempBanDuration - gamesOut[m]

\* A step that admits nobody and touches no ban keeps BanInv.
LEMMA NobodyAdmitted ==
  ASSUME BanInv, UNCHANGED <<gamesOut, ipAddresses>>, InSession' \subseteq InSession
  PROVE  BanInv'
BY DEF BanInv

\* AddIp lengthens one ban and shortens none.
LEMMA AddIpFacts ==
  ASSUME NEW bans \in [Ips -> Nat], NEW ip
  PROVE  /\ AddIp(bans, ip) \in [Ips -> Nat]
         /\ \A i \in Ips : AddIp(bans, ip)[i] >= bans[i]
         /\ ip \in Ips => AddIp(bans, ip)[ip] >= TempBanDuration
<1>. USE LimitsAssumption
<1>1. CASE ip \in Ips
  <2>1. bans[ip] + TempBanDuration \in Nat
    BY <1>1
  <2>. QED
    BY <1>1, <2>1 DEF AddIp
<1>2. CASE ip \notin Ips
  <2>1. AddIp(bans, ip) = bans
    BY <1>2 DEF AddIp
  <2>. QED
    BY <1>2, <2>1
<1>. QED
  BY <1>1, <1>2

\* A kick, by a vote or by the operator, keeps BanInv.
LEMMA KickKeepsBans ==
  ASSUME BanInv, NEW n, KickTempBanPlayer(n)
  PROVE  BanInv'
<1>. DEFINE k == FindPlayerByName(n)
<1>. USE LimitsAssumption, MachinesAssumption
<1>1. CASE UNCHANGED <<peer, player, ipAddresses, gamesOut>>
  BY <1>1 DEF BanInv, InSession
<1>2. CASE /\ k \notin {None, Host}
           /\ peer' = [s \in Peers |-> IF peer[s] = k THEN None ELSE peer[s]]
           /\ ipAddresses' = AddIp(ipAddresses, IpOf[k])
           /\ gamesOut' = [gamesOut EXCEPT ![k] = 0]
  <2>. HIDE DEF k
  <2>1. /\ InSession' \subseteq InSession
        /\ k \notin InSession'
    BY <1>2 DEF InSession
  <2>2. /\ ipAddresses' \in [Ips -> Nat]
        /\ \A ip \in Ips : ipAddresses'[ip] >= ipAddresses[ip]
        /\ k \in Machines => ipAddresses'[IpOf[k]] >= TempBanDuration
    BY <1>2, AddIpFacts DEF BanInv, Ips
  <2>3. gamesOut' \in [Machines -> {NotSet} \cup 0..TempBanDuration]
    <3>1. 0 \in 0..TempBanDuration
      OBVIOUS
    <3>2. CASE k \in Machines
      BY <1>2, <3>1, <3>2 DEF BanInv
    <3>3. CASE k \notin Machines
      BY <1>2, <3>3 DEF BanInv
    <3>. QED
      BY <3>2, <3>3
  <2>4. ASSUME NEW m \in Machines, gamesOut'[m] \in 0..(TempBanDuration - 1)
        PROVE  /\ m \notin InSession'
               /\ ipAddresses'[IpOf[m]] >= TempBanDuration - gamesOut'[m]
    <3>1. IpOf[m] \in Ips
      BY DEF Ips
    <3>2. CASE m = k
      BY <1>2, <2>1, <2>2, <3>2 DEF BanInv
    <3>3. CASE m # k
      <4>1. gamesOut'[m] = gamesOut[m]
        BY <1>2, <3>3 DEF BanInv
      <4>2. m \notin InSession /\ ipAddresses[IpOf[m]] >= TempBanDuration - gamesOut[m]
        BY <2>4, <4>1 DEF BanInv
      <4>3. ipAddresses[IpOf[m]] \in Nat /\ ipAddresses'[IpOf[m]] \in Nat /\ gamesOut[m] \in Int
        BY <2>2, <2>4, <3>1, <4>1 DEF BanInv
      <4>. QED
        BY <2>1, <2>2, <3>1, <4>1, <4>2, <4>3
    <3>. QED
      BY <3>2, <3>3
  <2>5. gamesOut'[Host] = NotSet
    BY <1>2 DEF BanInv
  <2>. QED
    BY <2>2, <2>3, <2>4, <2>5 DEF BanInv
<1>. QED
  BY <1>1, <1>2 DEF KickTempBanPlayer

\* The end of a game counts one game off every ban and on for every machine out.
LEMMA GameEndKeepsBans == BanInv /\ GameEndedEvent => BanInv'
<1>. SUFFICES ASSUME BanInv, GameEndedEvent PROVE BanInv'
  OBVIOUS
<1>. USE LimitsAssumption
<1>1. /\ ipAddresses' = [ip \in Ips |-> IF ipAddresses[ip] < 2 THEN 0 ELSE ipAddresses[ip] - 1]
      /\ gamesOut' = [m \in Machines |->
           IF gamesOut[m] \in {NotSet, TempBanDuration} THEN gamesOut[m] ELSE gamesOut[m] + 1]
      /\ peer' = peer
  BY DEF GameEndedEvent, DecrementDuration
<1>2. InSession' = InSession
  BY <1>1 DEF InSession
<1>3. ipAddresses' \in [Ips -> Nat]
  BY <1>1 DEF BanInv
<1>4. gamesOut' \in [Machines -> {NotSet} \cup 0..TempBanDuration]
  BY <1>1 DEF BanInv, NotSet
<1>5. ASSUME NEW m \in Machines, gamesOut'[m] \in 0..(TempBanDuration - 1)
      PROVE  /\ m \notin InSession'
             /\ ipAddresses'[IpOf[m]] >= TempBanDuration - gamesOut'[m]
  <2>1. /\ gamesOut[m] \in 0..(TempBanDuration - 1)
        /\ gamesOut'[m] = gamesOut[m] + 1
    BY <1>1, <1>5 DEF BanInv, NotSet
  <2>2. m \notin InSession /\ ipAddresses[IpOf[m]] >= TempBanDuration - gamesOut[m]
    BY <2>1 DEF BanInv
  <2>3. IpOf[m] \in Ips /\ ipAddresses[IpOf[m]] \in Nat
    BY DEF Ips, BanInv
  <2>. QED
    BY <1>1, <1>2, <1>5, <2>1, <2>2, <2>3
<1>6. gamesOut'[Host] = NotSet
  BY <1>1, MachinesAssumption DEF BanInv
<1>. QED
  BY <1>3, <1>4, <1>5, <1>6 DEF BanInv

\* A machine is admitted only from an address that is not banned.
LEMMA JoinKeepsBans ==
  ASSUME NEW k \in Machines, BanInv, HandleJoinRequest(k)
  PROVE  BanInv'
<1>. USE LimitsAssumption
<1>1. /\ UNCHANGED <<gamesOut, ipAddresses>>
      /\ ipAddresses[IpOf[k]] = 0
      /\ \E s : peer' = [peer EXCEPT ![s] = k]
  BY DEF HandleJoinRequest, historyVars
<1>2. InSession' \subseteq InSession \cup {k}
  BY <1>1 DEF InSession
<1>3. gamesOut[k] \notin 0..(TempBanDuration - 1)
  BY <1>1 DEF BanInv
<1>. QED
  BY <1>1, <1>2, <1>3 DEF BanInv

\* Every step keeps BanInv.
LEMMA BanInvPreserved == BanInv /\ [Next]_vars => BanInv'
<1>. SUFFICES ASSUME BanInv, [Next]_vars PROVE BanInv'
  OBVIOUS
<1>1. ASSUME NEW s \in Peers, HandleChatMessage(s)
      PROVE  BanInv'
  <2>1. ASSUME NEW c \in Commands, ProcessVote(c, s)
        PROVE  BanInv'
    <3>1. \/ KickTempBanPlayer(vote[c].playerName)
          \/ UNCHANGED <<peer, ipAddresses, gamesOut>>
      BY <2>1 DEF ProcessVote, DoOnVotePass
    <3>. QED
      BY <3>1, KickKeepsBans, NobodyAdmitted DEF InSession
  <2>2. ASSUME NEW c \in Commands, NEW arg, ProcessMessage(c, s, arg)
        PROVE  BanInv'
    BY <2>2, NobodyAdmitted DEF ProcessMessage, InSession
  <2>3. ASSUME NEW c \in Commands, NEW arg, ProcessMessageThrows(c, arg)
        PROVE  BanInv'
    BY <2>3, NobodyAdmitted DEF ProcessMessageThrows, historyVars, InSession
  <2>. QED
    BY <1>1, <2>1, <2>2, <2>3 DEF HandleChatMessage, CommandFrom, Voting
<1>2. CASE Tick
  BY <1>2, NobodyAdmitted DEF Tick, sessionVars, historyVars, InSession
<1>3. CASE GameEnds \/ ClientGameEnds
  BY <1>3, GameEndKeepsBans DEF GameEnds, ClientGameEnds
<1>4. CASE StartGame \/ ClientGameStarts
  BY <1>4, NobodyAdmitted DEF StartGame, ClientGameStarts, sessionVars, historyVars, InSession
<1>5. ASSUME NEW e \in Toggles, SetEnabled(e)
      PROVE  BanInv'
  BY <1>5, NobodyAdmitted DEF SetEnabled, sessionVars, historyVars, InSession
<1>6. ASSUME NEW n \in Names, OperatorKick(n)
      PROVE  BanInv'
  BY <1>6, KickKeepsBans DEF OperatorKick
<1>7. CASE CreateSession
  <2>1. ASSUME NEW m \in Machines, gamesOut[m] \in 0..(TempBanDuration - 1)
        PROVE  m # Host
    BY <2>1, LimitsAssumption DEF BanInv, NotSet
  <2>. QED
    BY <1>7, <2>1 DEF CreateSession, BanInv, historyVars, InSession
<1>8. CASE LeaveSession
  BY <1>8, MachinesAssumption, NobodyAdmitted DEF LeaveSession, historyVars, InSession
<1>9. ASSUME NEW m \in Machines, HandleJoinRequest(m)
      PROVE  BanInv'
  BY <1>9, JoinKeepsBans
<1>10. ASSUME NEW m \in Machines, PlayerLeaves(m)
       PROVE  BanInv'
  BY <1>10, MachinesAssumption, NobodyAdmitted DEF PlayerLeaves, historyVars, InSession
<1>11. CASE Clock
  BY <1>11, NobodyAdmitted DEF Clock, sessionVars, InSession
<1>12. CASE UNCHANGED vars
  BY <1>12, NobodyAdmitted DEF vars, sessionVars, historyVars, InSession
<1>. QED
  BY <1>1, <1>2, <1>3, <1>4, <1>5, <1>6, <1>7, <1>8, <1>9, <1>10, <1>11, <1>12 DEF Next

\* A machine kicked with a temporary ban stays out for TempBanDuration games,
\* whatever addresses machines share and however bans are extended.
THEOREM BanLastsItsGamesAlways == Spec => []BanLastsItsGames
<1>1. Init => BanInv
  BY LimitsAssumption, MachinesAssumption DEF Init, BanInv, NotSet, InSession
<1>2. BanInv => BanLastsItsGames
  <2>. SUFFICES ASSUME BanInv, NEW m \in InSession
                PROVE  gamesOut[m] \in {NotSet, TempBanDuration}
    BY DEF BanLastsItsGames
  <2>1. m \in Machines /\ gamesOut[m] \notin 0..(TempBanDuration - 1)
    BY DEF InSession, BanInv
  <2>. QED
    BY <2>1, LimitsAssumption DEF BanInv, NotSet
<1>. QED
  BY <1>1, <1>2, BanInvPreserved, PTL DEF Spec

-----------------------------------------------------------------------------
(* The membership: which machine has which peer and player index.          *)

\* A machine has one peer index and at most one player index.  The host has the
\* first of each, or no player at all when it is dedicated; then the indices of
\* the others differ by one or more, otherwise peer i is player i.
MemberInv ==
  /\ lifecycle \in {"None", "PreGame", "InGame", "Crashed"}
  /\ peer \in [Peers -> Machines \cup {None}]
  /\ player \in [Players -> Machines \cup {None}]
  /\ \A s, t \in Peers : peer[s] # None /\ peer[s] = peer[t] => s = t
  /\ \A i, j \in Players : player[i] # None /\ player[i] = player[j] => i = j
  /\ lifecycle = "None" =>
       (\A s \in Peers : peer[s] = None) /\ (\A i \in Players : player[i] = None)
  /\ lifecycle # "None" => peer[0] = Host /\ (~Dedicated => player[0] = Host)
  /\ \A i \in Players : player[i] # None => \E s \in Peers : peer[s] = player[i]
  /\ \A s \in Peers : peer[s] \notin {None, Host} => \E i \in Players : player[i] = peer[s]
  /\ Dedicated => \A i \in Players : player[i] # Host
  /\ ~Dedicated => peer[MaxPlayers] = None /\ \A i \in Players : player[i] = peer[i]

\* Min of a set of numbers.
LEMMA MinIsLeast ==
  ASSUME NEW S \in SUBSET Nat, S # {}
  PROVE  Min(S) \in S /\ \A x \in S : Min(S) <= x
<1>1. PICK x \in S : \A y \in S : ~(<<y, x>> \in OpToRel(<, Nat))
  BY NatLessThanWellFounded, WFMin
<1>2. \A y \in S : ~(y < x)
  BY <1>1 DEF OpToRel
<1>3. x \in S /\ \A y \in S : x =< y
  BY <1>2
<1>. QED
  BY <1>3 DEF Min

\* The indices are numbers from 0; there is one more peer index.
LEMMA IndexFacts ==
  /\ Players \subseteq Peers /\ Peers \subseteq Nat
  /\ 0 \in Players /\ 0 \in Peers /\ MaxPlayers \in Peers /\ MaxPlayers \notin Players
  /\ Peers = Players \cup {MaxPlayers}
BY LimitsAssumption DEF Players, Peers

\* A peer that has a player has that machine's player index.
LEMMA PeerPlayerFacts ==
  ASSUME MemberInv, NEW s \in Peers
  PROVE  /\ PeerPlayer(s) # -1 <=> \E i \in Players : player[i] = peer[s] /\ peer[s] # None
         /\ PeerPlayer(s) # -1 => /\ PeerPlayer(s) \in Players
                                  /\ player[PeerPlayer(s)] = peer[s]
                                  /\ peer[s] \in Machines
<1>1. -1 \notin Players
  BY IndexFacts
<1>. QED
  BY <1>1 DEF PeerPlayer, MemberInv

\* A machine other than the host is taken out of the membership.
LEMMA RemovalKeepsMembers ==
  ASSUME MemberInv, NEW m, m \notin {None, Host}, lifecycle' = lifecycle,
         peer' = [s \in Peers |-> IF peer[s] = m THEN None ELSE peer[s]],
         player' = [i \in Players |-> IF player[i] = m THEN None ELSE player[i]]
  PROVE  MemberInv'
<1>. USE IndexFacts, MachinesAssumption
<1>1. /\ lifecycle' \in {"None", "PreGame", "InGame", "Crashed"}
      /\ peer' \in [Peers -> Machines \cup {None}]
      /\ player' \in [Players -> Machines \cup {None}]
  BY DEF MemberInv
<1>2. /\ \A s, t \in Peers : peer'[s] # None /\ peer'[s] = peer'[t] => s = t
      /\ \A i, j \in Players : player'[i] # None /\ player'[i] = player'[j] => i = j
  BY DEF MemberInv
<1>3. /\ lifecycle' = "None" =>
           (\A s \in Peers : peer'[s] = None) /\ (\A i \in Players : player'[i] = None)
      /\ lifecycle' # "None" => peer'[0] = Host /\ (~Dedicated => player'[0] = Host)
  BY DEF MemberInv
<1>4. \A i \in Players : player'[i] # None => \E s \in Peers : peer'[s] = player'[i]
  BY DEF MemberInv
<1>5. \A s \in Peers : peer'[s] \notin {None, Host} => \E i \in Players : player'[i] = peer'[s]
  BY DEF MemberInv
<1>6. /\ Dedicated => \A i \in Players : player'[i] # Host
      /\ ~Dedicated => peer'[MaxPlayers] = None /\ \A i \in Players : player'[i] = peer'[i]
  BY DEF MemberInv
<1>. QED
  BY <1>1, <1>2, <1>3, <1>4, <1>5, <1>6 DEF MemberInv

\* A kick keeps the membership in order.
LEMMA KickKeepsMembers ==
  ASSUME MemberInv, NEW n, KickTempBanPlayer(n), lifecycle' = lifecycle
  PROVE  MemberInv'
<1>1. CASE UNCHANGED <<peer, player>>
  BY <1>1 DEF MemberInv
<1>2. CASE ~UNCHANGED <<peer, player>>
  BY <1>2, RemovalKeepsMembers DEF KickTempBanPlayer
<1>. QED
  BY <1>1, <1>2

\* While a player index is free, a peer index is free too: the peers behind the
\* first have players of their own.
LEMMA FreePeer ==
  ASSUME MemberInv, lifecycle # "None", NEW free \in Players, player[free] = None
  PROVE  \E s \in Peers : peer[s] = None
<1>. USE IndexFacts, MachinesAssumption
<1>. SUFFICES ASSUME \A s \in Peers : peer[s] # None PROVE FALSE
  OBVIOUS
<1>1. CASE ~Dedicated
  BY <1>1 DEF MemberInv
<1>2. CASE Dedicated
  <2>. DEFINE Others == 1..MaxPlayers
              Taken == Players \ {free}
              f == [s \in Others |-> CHOOSE i \in Players : player[i] = peer[s]]
  <2>1. Others \subseteq Peers /\ \A s \in Others : s # 0
    BY LimitsAssumption DEF Peers
  <2>2. ASSUME NEW s \in Others PROVE \E i \in Players : player[i] = peer[s]
    <3>1. peer[s] \notin {None, Host}
      BY <2>1 DEF MemberInv
    <3>. QED BY <2>1, <3>1 DEF MemberInv
  <2>3. \A s \in Others : f[s] \in Players /\ player[f[s]] = peer[s]
    BY <2>2
  <2>4. \A s \in Others : f[s] # free
    BY <2>1, <2>3
  <2>5. f \in [Others -> Taken]
    BY <2>3, <2>4
  <2>6. IsFiniteSet(Others) /\ Cardinality(Others) = MaxPlayers
    BY FS_Interval, LimitsAssumption
  <2>7. IsFiniteSet(Players) /\ Cardinality(Players) = MaxPlayers
    BY FS_Interval, LimitsAssumption DEF Players
  <2>8. IsFiniteSet(Taken) /\ Cardinality(Taken) = MaxPlayers - 1
    BY <2>7, FS_RemoveElement
  <2>9. Cardinality(Taken) < Cardinality(Others)
    BY <2>6, <2>8, LimitsAssumption
  <2>. HIDE DEF f, Others, Taken
  <2>10. PICK s, t \in Others : s # t /\ f[s] = f[t]
    BY <2>5, <2>6, <2>8, <2>9, FS_PigeonHole
  <2>11. peer[s] = peer[t]
    BY <2>3, <2>10
  <2>. QED BY <2>1, <2>10, <2>11 DEF MemberInv
<1>. QED
  BY <1>1, <1>2

\* A machine that joins gets a free peer index and a free player index; on a
\* host that is not dedicated they are the same.
LEMMA JoinKeepsMembers ==
  ASSUME MemberInv, NEW m \in Machines, HandleJoinRequest(m)
  PROVE  MemberInv'
<1>. USE IndexFacts, MachinesAssumption
<1>. DEFINE S == {s \in Peers : peer[s] = None}
            I == {i \in Players : player[i] = None}
            s0 == Min(S)
            i0 == Min(I)
<1>1. /\ lifecycle # "None" /\ lifecycle' = lifecycle
      /\ m \notin InSession /\ m # Host /\ m # None
      /\ I # {}
      /\ peer' = [peer EXCEPT ![s0] = m]
      /\ player' = [player EXCEPT ![i0] = m]
  BY DEF HandleJoinRequest, Running
<1>2. S # {} /\ S \in SUBSET Nat /\ I \in SUBSET Nat
  BY <1>1, FreePeer
<1>3. /\ s0 \in S /\ \A s \in S : s0 <= s
      /\ i0 \in I /\ \A i \in I : i0 <= i
  BY <1>1, <1>2, MinIsLeast
<1>4. ~Dedicated => s0 = i0
  <2>. SUFFICES ASSUME ~Dedicated PROVE s0 = i0
    OBVIOUS
  <2>1. i0 \in S
    BY <1>3 DEF MemberInv
  <2>2. s0 <= i0 /\ s0 \in Nat /\ i0 \in Nat
    BY <1>2, <1>3, <2>1
  <2>3. s0 \in Players
    BY <1>3, <2>1, <2>2, LimitsAssumption DEF Players, Peers
  <2>4. s0 \in I
    BY <1>3, <2>3 DEF MemberInv
  <2>. QED
    BY <1>3, <2>2, <2>4
<1>. HIDE DEF s0, i0
<1>5. /\ s0 \in Peers /\ peer[s0] = None /\ i0 \in Players /\ player[i0] = None
  BY <1>3
<1>6. /\ \A s \in Peers : peer'[s] = IF s = s0 THEN m ELSE peer[s]
      /\ \A i \in Players : player'[i] = IF i = i0 THEN m ELSE player[i]
      /\ peer' \in [Peers -> Machines \cup {None}]
      /\ player' \in [Players -> Machines \cup {None}]
  BY <1>1, <1>5 DEF MemberInv
<1>7. /\ \A s \in Peers : peer[s] # m
      /\ \A i \in Players : player[i] # m
  BY <1>1 DEF InSession, MemberInv
<1>8. s0 # 0 /\ (~Dedicated => i0 # 0)
  BY <1>1, <1>5 DEF MemberInv
<1>9. /\ \A s, t \in Peers : peer'[s] # None /\ peer'[s] = peer'[t] => s = t
      /\ \A i, j \in Players : player'[i] # None /\ player'[i] = player'[j] => i = j
  BY <1>6, <1>7 DEF MemberInv
<1>10. lifecycle' # "None" => peer'[0] = Host /\ (~Dedicated => player'[0] = Host)
  BY <1>1, <1>6, <1>8 DEF MemberInv
<1>11. \A i \in Players : player'[i] # None => \E s \in Peers : peer'[s] = player'[i]
  <2>1. peer'[s0] = m
    BY <1>5, <1>6
  <2>2. \A s \in Peers : peer[s] # None => peer'[s] = peer[s]
    BY <1>5, <1>6
  <2>3. ASSUME NEW i \in Players, player'[i] # None PROVE \E s \in Peers : peer'[s] = player'[i]
    <3>1. CASE i = i0
      BY <1>5, <1>6, <2>1, <3>1
    <3>2. CASE i # i0
      <4>1. player'[i] = player[i]
        BY <1>6, <3>2
      <4>2. PICK s \in Peers : peer[s] = player[i]
        BY <2>3, <4>1 DEF MemberInv
      <4>. QED BY <2>2, <2>3, <4>1, <4>2
    <3>. QED BY <3>1, <3>2
  <2>. QED BY <2>3
<1>12. \A s \in Peers : peer'[s] \notin {None, Host} => \E i \in Players : player'[i] = peer'[s]
  <2>1. player'[i0] = m
    BY <1>5, <1>6
  <2>2. \A i \in Players : player[i] # None => player'[i] = player[i]
    BY <1>5, <1>6
  <2>3. ASSUME NEW s \in Peers, peer'[s] \notin {None, Host}
        PROVE  \E i \in Players : player'[i] = peer'[s]
    <3>1. CASE s = s0
      BY <1>5, <1>6, <2>1, <3>1
    <3>2. CASE s # s0
      <4>1. peer'[s] = peer[s]
        BY <1>6, <3>2
      <4>2. PICK i \in Players : player[i] = peer[s]
        BY <2>3, <4>1 DEF MemberInv
      <4>. QED BY <2>2, <2>3, <4>1, <4>2
    <3>. QED BY <3>1, <3>2
  <2>. QED BY <2>3
<1>13. Dedicated => \A i \in Players : player'[i] # Host
  BY <1>1, <1>6 DEF MemberInv
<1>14. ~Dedicated => peer'[MaxPlayers] = None /\ \A i \in Players : player'[i] = peer'[i]
  BY <1>4, <1>5, <1>6 DEF MemberInv
<1>. QED
  BY <1>1, <1>6, <1>9, <1>10, <1>11, <1>12, <1>13, <1>14 DEF MemberInv

\* Every step keeps the membership in order.
LEMMA MemberInvPreserved == MemberInv /\ [Next]_vars => MemberInv'
<1>. SUFFICES ASSUME MemberInv, [Next]_vars PROVE MemberInv'
  OBVIOUS
<1>. USE IndexFacts, MachinesAssumption
<1>0. ASSUME UNCHANGED <<peer, player>>, lifecycle' = lifecycle PROVE MemberInv'
  BY <1>0 DEF MemberInv
<1>1. ASSUME NEW s \in Peers, HandleChatMessage(s)
      PROVE  MemberInv'
  <2>1. ASSUME NEW c \in Voting, ProcessVote(c, s) PROVE MemberInv'
    <3>1. lifecycle' = lifecycle
      BY <2>1 DEF ProcessVote
    <3>2. (\E n : KickTempBanPlayer(n)) \/ UNCHANGED <<peer, player>>
      BY <2>1 DEF ProcessVote, DoOnVotePass
    <3>. QED BY <1>0, <3>1, <3>2, KickKeepsMembers
  <2>2. ASSUME NEW c \in Commands, NEW arg, ProcessMessage(c, s, arg) PROVE MemberInv'
    BY <1>0, <2>2 DEF ProcessMessage
  <2>3. ASSUME NEW c \in Commands, NEW arg, ProcessMessageThrows(c, arg) PROVE MemberInv'
    <3>1. UNCHANGED <<peer, player>> /\ lifecycle' = "Crashed" /\ lifecycle # "None"
      BY <1>1, <2>3 DEF ProcessMessageThrows, HandleChatMessage, Running
    <3>. QED BY <3>1 DEF MemberInv
  <2>. QED BY <1>1, <2>1, <2>2, <2>3 DEF HandleChatMessage, CommandFrom
<1>2. CASE Tick
  BY <1>0, <1>2 DEF Tick, sessionVars
<1>3. CASE GameEnds
  BY <1>3 DEF GameEnds, GameEndedEvent, MemberInv
<1>4. CASE StartGame
  BY <1>4 DEF StartGame, MemberInv
<1>13. CASE ClientGameStarts \/ ClientGameEnds
  BY <1>0, <1>13 DEF ClientGameStarts, ClientGameEnds, GameEndedEvent, sessionVars
<1>5. ASSUME NEW e \in Toggles, SetEnabled(e) PROVE MemberInv'
  BY <1>0, <1>5 DEF SetEnabled, sessionVars
<1>6. ASSUME NEW n \in Names, OperatorKick(n) PROVE MemberInv'
  BY <1>6, KickKeepsMembers DEF OperatorKick
<1>7. CASE CreateSession
  <2>1. /\ lifecycle' = "PreGame"
        /\ peer' = [s \in Peers |-> IF s = 0 THEN Host ELSE None]
        /\ player' = [i \in Players |-> IF i = 0 /\ ~Dedicated THEN Host ELSE None]
    <3>1. /\ lifecycle' = "PreGame"
          /\ peer' = [peer EXCEPT ![0] = Host]
          /\ player' = IF Dedicated THEN player ELSE [player EXCEPT ![0] = Host]
          /\ peer \in [Peers -> Machines \cup {None}] /\ \A s \in Peers : peer[s] = None
          /\ player \in [Players -> Machines \cup {None}] /\ \A i \in Players : player[i] = None
      BY <1>7 DEF CreateSession, MemberInv
    <3>2. peer' = [s \in Peers |-> IF s = 0 THEN Host ELSE None]
      BY <3>1
    <3>3. player' = [i \in Players |-> IF i = 0 /\ ~Dedicated THEN Host ELSE None]
      <4>1. CASE Dedicated
        BY <3>1, <4>1
      <4>2. CASE ~Dedicated
        BY <3>1, <4>2
      <4>. QED BY <4>1, <4>2
    <3>. QED BY <3>1, <3>2, <3>3
  <2>. QED BY <2>1 DEF MemberInv
<1>8. CASE LeaveSession
  BY <1>8 DEF LeaveSession, MemberInv
<1>9. ASSUME NEW m \in Machines, HandleJoinRequest(m) PROVE MemberInv'
  BY <1>9, JoinKeepsMembers
<1>10. ASSUME NEW m \in Machines, PlayerLeaves(m) PROVE MemberInv'
  <2>1. m \notin {None, Host} /\ lifecycle' = lifecycle
    BY <1>10 DEF PlayerLeaves
  <2>. QED BY <1>10, <2>1, RemovalKeepsMembers DEF PlayerLeaves
<1>11. CASE Clock
  BY <1>0, <1>11 DEF Clock, sessionVars
<1>12. CASE UNCHANGED vars
  BY <1>0, <1>12 DEF vars, sessionVars
<1>. QED
  BY <1>1, <1>2, <1>3, <1>4, <1>5, <1>6, <1>7, <1>8, <1>9, <1>10, <1>11, <1>12,
     <1>13 DEF Next

\* MemberInv is an invariant.
THEOREM MembersInOrder == Spec => []MemberInv
<1>1. Init => MemberInv
  BY LimitsAssumption, MachinesAssumption, IndexFacts DEF Init, MemberInv
<1>. QED
  BY <1>1, MemberInvPreserved, PTL DEF Spec

\* Max of a set of numbers up to a bound: the least number none of them exceeds.
LEMMA MaxIsGreatest ==
  ASSUME NEW bound \in Nat, NEW S \in SUBSET (0..bound), S # {}
  PROVE  Max(S) \in S
<1>. DEFINE T == {k \in Nat : \A x \in S : x <= k}
            k == Min(T)
<1>1. bound \in T /\ T \in SUBSET Nat
  OBVIOUS
<1>2. k \in T /\ \A y \in T : k <= y
  BY <1>1, MinIsLeast
<1>. HIDE DEF k
<1>3. k \in Nat /\ \A x \in S : x <= k /\ x \in Nat
  BY <1>2
<1>4. k \in S
  <2>. SUFFICES ASSUME k \notin S PROVE FALSE
    OBVIOUS
  <2>1. \A x \in S : x <= k - 1
    BY <1>3
  <2>2. k - 1 \in Nat
    <3>1. PICK x \in S : TRUE
      OBVIOUS
    <3>. QED BY <1>3, <2>1, <3>1
  <2>3. k - 1 \in T
    BY <2>1, <2>2
  <2>. QED BY <1>2, <1>3, <2>3
<1>5. \E x \in S : \A y \in S : x >= y
  BY <1>3, <1>4
<1>. QED
  BY <1>5 DEF Max

\* A valid argument selects a machine of the session other than the host, or
\* nobody for a command that is no kick.
LEMMA SelectedFacts ==
  ASSUME MemberInv, Running, NEW c \in Commands, NEW arg \in Arguments(c),
         NEW m \in Selected(c, arg)
  PROVE  /\ m # Host
         /\ c \in Kicks => m \in Machines
         /\ c \notin Kicks => m = None
<1>. USE IndexFacts, MachinesAssumption
<1>0. peer[0] = Host /\ (~Dedicated => player[0] = Host)
  BY DEF MemberInv, Running
<1>1. CASE c = "kick"
  <2>. DEFINE named == {s \in Peers : PeerPlayer(s) # -1 /\ NameOf[peer[s]] = arg}
              last == Max(named)
  <2>1. /\ named # {} /\ ~(PeerPlayer(last) = 0 /\ ~Dedicated)
        /\ m = peer[last]
    BY <1>1 DEF Selected
  <2>2. named \in SUBSET (0..MaxPlayers) /\ MaxPlayers \in Nat
    BY LimitsAssumption DEF Peers
  <2>3. last \in named
    BY <2>1, <2>2, MaxIsGreatest
  <2>. HIDE DEF last
  <2>4. last \in Peers /\ PeerPlayer(last) # -1
    BY <2>3
  <2>5. /\ peer[last] \in Machines /\ PeerPlayer(last) \in Players
        /\ player[PeerPlayer(last)] = peer[last]
    BY <2>4, PeerPlayerFacts
  <2>6. m # Host
    <3>. SUFFICES ASSUME m = Host PROVE FALSE
      OBVIOUS
    <3>1. CASE Dedicated
      BY <2>1, <2>5, <3>1 DEF MemberInv
    <3>2. CASE ~Dedicated
      <4>1. PeerPlayer(last) = 0
        BY <1>0, <2>1, <2>5, <3>2 DEF MemberInv
      <4>. QED BY <2>1, <3>2, <4>1
    <3>. QED BY <3>1, <3>2
  <2>. QED BY <1>1, <2>1, <2>5, <2>6 DEF Kicks
<1>2. CASE c = "kickIndex"
  <2>1. arg \in Players /\ ~(arg = 0 /\ ~Dedicated) /\ m = player[arg] /\ m # None
    BY <1>2 DEF Selected
  <2>2. m \in Machines
    BY <2>1 DEF MemberInv
  <2>3. m # Host
    BY <1>0, <2>1 DEF MemberInv
  <2>. QED BY <1>2, <2>2, <2>3 DEF Kicks
<1>3. CASE c \notin {"kick", "kickIndex"}
  BY <1>3 DEF Selected, Kicks
<1>. QED
  BY <1>1, <1>2, <1>3

-----------------------------------------------------------------------------
(* One vote at a time.                                                     *)

VoteRecord ==
  [currentlyVoting : BOOLEAN, elapsed : Int, yesVoters : Seq(Uids), votesNeeded : Int,
   playerName : Names \cup {NoName}]

\* A command that is not voting has nothing left of a vote.
Clean(v) ==
  ~v.currentlyVoting => v.yesVoters = <<>> /\ v.elapsed = NotSet /\ v.votesNeeded = 0

\* What makes OneCleanVote inductive.
VoteInv ==
  /\ vote \in [Commands -> VoteRecord]
  /\ player \in [Players -> Machines \cup {None}]
  /\ \A c \in Commands : Clean(vote[c])
  /\ \A c, d \in Voting : c = d

\* A command of the vote that has ended.
LEMMA NoVoteIsClean == NoVote \in VoteRecord /\ Clean(NoVote) /\ ~NoVote.currentlyVoting
<1>1. <<>> \in Seq(Uids)
  OBVIOUS
<1>. QED
  BY <1>1 DEF NoVote, VoteRecord, Clean, NotSet

\* Ending votes keeps VoteInv.
LEMMA EndingKeepsVoteInv ==
  ASSUME VoteInv, NEW ended \in SUBSET Commands,
         vote' = [c \in Commands |-> IF c \in ended THEN NoVote ELSE vote[c]],
         player' \in [Players -> Machines \cup {None}]
  PROVE  VoteInv'
<1>1. vote' \in [Commands -> VoteRecord]
  BY NoVoteIsClean DEF VoteInv
<1>2. \A c \in Commands : Clean(vote'[c])
  BY NoVoteIsClean DEF VoteInv
<1>3. Voting' \subseteq Voting
  BY NoVoteIsClean DEF Voting
<1>. QED
  BY <1>1, <1>2, <1>3 DEF VoteInv, Clean

\* The number of votes needed is a number.
LEMMA VotesNeededType == ASSUME NEW n \in NumbersOfPlayersInGame PROVE VotesNeeded(n) \in Int
<1>1. n \in Int
  BY DEF NumbersOfPlayersInGame
<1>2. (n - 1) * VotePassPercentage \in Int
  BY <1>1, LimitsAssumption
<1>. QED
  BY <1>2 DEF VotesNeeded

\* A step that leaves the votes alone keeps VoteInv.
LEMMA SameVotes ==
  ASSUME VoteInv, vote' = vote, player' \in [Players -> Machines \cup {None}]
  PROVE  VoteInv'
BY DEF VoteInv, Voting

\* A kick leaves the player indices to machines that are there.
LEMMA KickKeepsPlayers ==
  ASSUME VoteInv, NEW n, KickTempBanPlayer(n)
  PROVE  player' \in [Players -> Machines \cup {None}]
BY DEF VoteInv, KickTempBanPlayer

\* The name that is kept of what a valid argument selects.
LEMMA SelectedName ==
  ASSUME MemberInv, Running, NEW c \in Commands, NEW arg \in Arguments(c),
         NEW m \in Selected(c, arg)
  PROVE  PlayerName(m) \in Names \cup {NoName}
<1>1. m \in Machines \cup {None}
  BY SelectedFacts
<1>. QED
  BY <1>1, IdentityAssumption DEF PlayerName

\* A command that starts a vote keeps VoteInv, because no vote is in progress.
LEMMA StartKeepsVoteInv ==
  ASSUME MemberInv, Running, VoteInv, Voting = {}, NEW s \in Peers, NEW c \in Commands,
         NEW arg \in Arguments(c), ProcessMessage(c, s, arg)
  PROVE  VoteInv'
<1>0. PICK m \in Selected(c, arg), n \in NumbersOfPlayersInGame :
        \/ vote' = [vote EXCEPT ![c] =
              [@ EXCEPT !.currentlyVoting = TRUE, !.elapsed = 0, !.playerName = PlayerName(m),
                        !.votesNeeded = VotesNeeded(n)]]
        \/ vote' = [vote EXCEPT ![c].playerName = PlayerName(m)]
  BY DEF ProcessMessage
<1>. DEFINE name == PlayerName(m)
            N == VotesNeeded(n)
<1>2. name \in Names \cup {NoName} /\ N \in Int
  BY SelectedName, VotesNeededType
<1>. HIDE DEF name, N
<1>1. \/ vote' = [vote EXCEPT ![c] =
              [@ EXCEPT !.currentlyVoting = TRUE, !.elapsed = 0, !.playerName = name,
                        !.votesNeeded = N]]
      \/ vote' = [vote EXCEPT ![c].playerName = name]
  BY <1>0 DEF name, N
<1>3. vote[c] \in VoteRecord /\ Clean(vote[c]) /\ ~vote[c].currentlyVoting
  BY DEF VoteInv, Voting
<1>4. player' \in [Players -> Machines \cup {None}]
  BY DEF ProcessMessage, VoteInv
<1>5. /\ vote'[c] \in VoteRecord /\ Clean(vote'[c])
      /\ vote' = [vote EXCEPT ![c] = vote'[c]]
  <2>1. CASE vote' = [vote EXCEPT ![c] =
              [@ EXCEPT !.currentlyVoting = TRUE, !.elapsed = 0, !.playerName = name,
                        !.votesNeeded = N]]
    <3>. DEFINE v == vote[c]
    <3>1. vote'[c] = [v EXCEPT !.currentlyVoting = TRUE, !.elapsed = 0,
                               !.playerName = name, !.votesNeeded = N]
      BY <2>1 DEF VoteInv
    <3>2. v \in VoteRecord
      BY <1>3
    <3>. HIDE DEF v
    <3>3. vote'[c] \in VoteRecord /\ vote'[c].currentlyVoting
      <4>1. vote'[c] = [currentlyVoting |-> TRUE, elapsed |-> 0, yesVoters |-> v.yesVoters,
                        votesNeeded |-> N, playerName |-> name]
        BY <3>1, <3>2 DEF VoteRecord
      <4>2. v.yesVoters \in Seq(Uids)
        BY <3>2 DEF VoteRecord
      <4>. QED
        BY <1>2, <4>1, <4>2 DEF VoteRecord
    <3>. QED
      BY <2>1, <3>1, <3>3 DEF Clean, VoteInv
  <2>2. CASE vote' = [vote EXCEPT ![c].playerName = name]
    <3>1. vote'[c] = [vote[c] EXCEPT !.playerName = name]
      BY <2>2 DEF VoteInv
    <3>. QED
      BY <1>2, <1>3, <2>2, <3>1 DEF VoteRecord, Clean, VoteInv
  <2>. QED
    BY <1>1, <2>1, <2>2
<1>6. \A d \in Commands \ {c} : vote'[d] = vote[d]
  BY <1>5 DEF VoteInv
<1>7. Voting' \subseteq {c}
  BY <1>6 DEF Voting
<1>. QED
  BY <1>3, <1>4, <1>5, <1>6, <1>7 DEF VoteInv

\* A yes keeps VoteInv: it is refused, counted, or ends the vote.
LEMMA YesKeepsVoteInv ==
  ASSUME VoteInv, NEW s \in Peers, NEW c \in Voting, ProcessVote(c, s)
  PROVE  VoteInv'
<1>1. c \in Commands /\ vote[c] \in VoteRecord /\ vote[c].currentlyVoting
  BY DEF Voting, VoteInv
<1>2. player' \in [Players -> Machines \cup {None}]
  <2>1. (\E n : KickTempBanPlayer(n)) \/ player' = player
    BY DEF ProcessVote, DoOnVotePass
  <2>. QED
    BY <2>1, KickKeepsPlayers DEF VoteInv
<1>3. PICK uid \in SenderUid(s) \ {NoUid} :
        \/ vote' = vote
        \/ vote' = [vote EXCEPT ![c] = NoVote]
        \/ vote' = [vote EXCEPT ![c].yesVoters = Append(vote[c].yesVoters, uid)]
  BY DEF ProcessVote, EndVoting
<1>4. CASE vote' = vote
  BY <1>2, <1>4, SameVotes
<1>5. CASE vote' = [vote EXCEPT ![c] = NoVote]
  <2>1. vote' = [d \in Commands |-> IF d \in {c} THEN NoVote ELSE vote[d]]
    BY <1>5 DEF VoteInv
  <2>. QED
    BY <1>1, <1>2, <2>1, EndingKeepsVoteInv
<1>6. CASE vote' = [vote EXCEPT ![c].yesVoters = Append(vote[c].yesVoters, uid)]
  <2>1. uid \in Uids
    <3>1. SenderUid(s) \subseteq Uids \cup {NoUid}
      BY DEF SenderUid, VoteInv, Uids
    <3>. QED
      BY <3>1
  <2>2. vote'[c] = [vote[c] EXCEPT !.yesVoters = Append(vote[c].yesVoters, uid)]
    BY <1>1, <1>6 DEF VoteInv
  <2>3. Append(vote[c].yesVoters, uid) \in Seq(Uids)
    BY <1>1, <2>1 DEF VoteRecord
  <2>4. vote'[c] \in VoteRecord /\ vote'[c].currentlyVoting
    BY <1>1, <2>2, <2>3 DEF VoteRecord
  <2>5. \A d \in Commands \ {c} : vote'[d] = vote[d]
    BY <1>1, <1>6 DEF VoteInv
  <2>6. vote' \in [Commands -> VoteRecord]
    BY <1>1, <1>6, <2>2, <2>4, <2>5 DEF VoteInv
  <2>7. Voting' \subseteq Voting
    BY <1>1, <2>5 DEF Voting
  <2>. QED
    BY <1>2, <2>4, <2>5, <2>6, <2>7 DEF VoteInv, Clean
<1>. QED
  BY <1>3, <1>4, <1>5, <1>6

\* Every step keeps VoteInv.
LEMMA VoteInvPreserved == MemberInv /\ VoteInv /\ [Next]_vars => VoteInv'
<1>. SUFFICES ASSUME MemberInv, VoteInv, [Next]_vars PROVE VoteInv'
  OBVIOUS
<1>. USE MachinesAssumption
<1>1. ASSUME NEW s \in Peers, HandleChatMessage(s)
      PROVE  VoteInv'
  <2>1. ASSUME NEW c \in Voting, ProcessVote(c, s) PROVE VoteInv'
    BY <2>1, YesKeepsVoteInv
  <2>2. ASSUME Voting = {}, NEW c \in Commands, NEW arg \in Arguments(c),
               ProcessMessage(c, s, arg)
        PROVE  VoteInv'
    BY <1>1, <2>2, StartKeepsVoteInv DEF HandleChatMessage
  <2>3. ASSUME NEW c \in Commands, NEW arg, ProcessMessageThrows(c, arg) PROVE VoteInv'
    BY <2>3, SameVotes DEF ProcessMessageThrows, VoteInv
  <2>. QED BY <1>1, <2>1, <2>2, <2>3 DEF HandleChatMessage, CommandFrom
<1>2. CASE Tick
  <2>. DEFINE over == {c \in Commands : /\ isEnabled(c) /\ vote[c].elapsed # NotSet
                                        /\ vote[c].elapsed >= ChatCommandVoteTime}
  <2>1. vote' = [c \in Commands |-> IF c \in over THEN NoVote ELSE vote[c]]
    BY <1>2 DEF Tick, EndVoting
  <2>2. player' \in [Players -> Machines \cup {None}]
    BY <1>2 DEF Tick, sessionVars, VoteInv
  <2>. QED
    BY <2>1, <2>2, EndingKeepsVoteInv
<1>3. CASE GameEnds \/ ClientGameEnds
  <2>0. GameEndedEvent
    BY <1>3 DEF GameEnds, ClientGameEnds
  <2>1. vote' = [c \in Commands |-> IF c \in Voting THEN NoVote ELSE vote[c]]
    BY <2>0 DEF GameEndedEvent, EndVoting, Voting
  <2>2. player' \in [Players -> Machines \cup {None}]
    BY <2>0 DEF GameEndedEvent, VoteInv
  <2>3. Voting \in SUBSET Commands
    BY DEF Voting
  <2>. QED
    BY <2>1, <2>2, <2>3, EndingKeepsVoteInv
<1>4. CASE StartGame \/ ClientGameStarts
  BY <1>4, SameVotes DEF StartGame, ClientGameStarts, sessionVars, VoteInv
<1>5. ASSUME NEW e \in Toggles, SetEnabled(e)
      PROVE  VoteInv'
  BY <1>5, SameVotes DEF SetEnabled, sessionVars, VoteInv
<1>6. ASSUME NEW n \in Names, OperatorKick(n)
      PROVE  VoteInv'
  BY <1>6, KickKeepsPlayers, SameVotes DEF OperatorKick
<1>7. CASE CreateSession
  BY <1>7, SameVotes DEF CreateSession, VoteInv
<1>8. CASE LeaveSession
  BY <1>8, SameVotes DEF LeaveSession, VoteInv
<1>9. ASSUME NEW m \in Machines, HandleJoinRequest(m)
      PROVE  VoteInv'
  BY <1>9, SameVotes DEF HandleJoinRequest, VoteInv
<1>10. ASSUME NEW m \in Machines, PlayerLeaves(m)
       PROVE  VoteInv'
  BY <1>10, SameVotes DEF PlayerLeaves, VoteInv
<1>11. CASE Clock
  <2>1. \A c \in Commands : vote'[c] = [vote[c] EXCEPT !.elapsed = Later(vote[c].elapsed, ChatCommandVoteTime)]
    BY <1>11 DEF Clock
  <2>2. ASSUME NEW c \in Commands
        PROVE  /\ vote'[c] \in VoteRecord
               /\ vote'[c].currentlyVoting = vote[c].currentlyVoting
               /\ Clean(vote'[c])
    <3>1. vote[c] \in VoteRecord /\ Clean(vote[c])
      BY DEF VoteInv
    <3>2. Later(vote[c].elapsed, ChatCommandVoteTime) \in Int
      BY <3>1, LimitsAssumption DEF VoteRecord, Later
    <3>3. vote[c].elapsed = NotSet => Later(vote[c].elapsed, ChatCommandVoteTime) = NotSet
      BY DEF Later
    <3>. QED
      BY <2>1, <3>1, <3>2, <3>3 DEF VoteRecord, Clean
  <2>3. vote' \in [Commands -> VoteRecord]
    BY <1>11, <2>2 DEF Clock
  <2>4. Voting' = Voting
    BY <2>2 DEF Voting
  <2>. QED
    BY <1>11, <2>2, <2>3, <2>4 DEF VoteInv, Clock, sessionVars, Clean
<1>12. CASE UNCHANGED vars
  BY <1>12, SameVotes DEF vars, sessionVars, VoteInv
<1>. QED
  BY <1>1, <1>2, <1>3, <1>4, <1>5, <1>6, <1>7, <1>8, <1>9, <1>10, <1>11, <1>12 DEF Next

\* At most one chat command is being voted on, and no vote leaves voters, a
\* clock or a threshold to the next one.
THEOREM OneCleanVoteAlways == Spec => []OneCleanVote
<1>1. Init => VoteInv
  BY NoVoteIsClean DEF Init, VoteInv, Voting
<1>2. VoteInv => OneCleanVote
  <2>. SUFFICES ASSUME VoteInv PROVE OneCleanVote
    OBVIOUS
  <2>1. Cardinality(Voting) <= 1
    <3>1. CASE Voting = {}
      BY <3>1, FS_EmptySet
    <3>2. CASE Voting # {}
      <4>1. PICK c \in Voting : TRUE
        BY <3>2
      <4>2. Voting = {c}
        BY <4>1 DEF VoteInv
      <4>. QED
        BY <4>2, FS_Singleton
    <3>. QED
      BY <3>1, <3>2
  <2>2. \A c \in Commands \ Voting :
          vote[c].yesVoters = <<>> /\ vote[c].elapsed = NotSet /\ vote[c].votesNeeded = 0
    BY DEF VoteInv, Clean, Voting
  <2>. QED
    BY <2>1, <2>2 DEF OneCleanVote
<1>. QED
  BY <1>1, <1>2, VoteInvPreserved, MembersInOrder, PTL DEF Spec

-----------------------------------------------------------------------------
(* Type correctness: a vote never needs more voices than there are players. *)

\* What chat handlers and the clock do to the record of one command.
Started(v, n, name) ==
  [currentlyVoting |-> TRUE, elapsed |-> 0, yesVoters |-> v.yesVoters,
   votesNeeded |-> n, playerName |-> name]
Renamed(v, name) ==
  [currentlyVoting |-> v.currentlyVoting, elapsed |-> v.elapsed, yesVoters |-> v.yesVoters,
   votesNeeded |-> v.votesNeeded, playerName |-> name]
Counted(v, yes) ==
  [currentlyVoting |-> v.currentlyVoting, elapsed |-> v.elapsed, yesVoters |-> yes,
   votesNeeded |-> v.votesNeeded, playerName |-> v.playerName]
Aged(v) ==
  [currentlyVoting |-> v.currentlyVoting, elapsed |-> Later(v.elapsed, ChatCommandVoteTime),
   yesVoters |-> v.yesVoters, votesNeeded |-> v.votesNeeded, playerName |-> v.playerName]

\* The records after processMessage.
LEMMA StartShape ==
  ASSUME VoteInv, NEW s, NEW c \in Commands, NEW arg, ProcessMessage(c, s, arg)
  PROVE  /\ \A d \in Commands \ {c} : vote'[d] = vote[d]
         /\ \E m \in Selected(c, arg), uid \in SenderUid(s), n \in NumbersOfPlayersInGame :
              \/ /\ MayStartVote(uid)
                 /\ voteTimes' = [voteTimes EXCEPT ![uid] = 0]
                 /\ vote'[c] = Started(vote[c], VotesNeeded(n), PlayerName(m))
                 /\ said' = {} /\ electorate' = n /\ target' = m /\ asked' = None
                 /\ lastStart' = [lastStart EXCEPT ![peer[s]] = 0]
              \/ /\ vote'[c] = Renamed(vote[c], PlayerName(m))
                 /\ UNCHANGED <<voteTimes, said, electorate, target, asked, lastStart>>
<1>0. PICK m \in Selected(c, arg), uid \in SenderUid(s), n \in NumbersOfPlayersInGame :
        \/ /\ MayStartVote(uid)
           /\ voteTimes' = [voteTimes EXCEPT ![uid] = 0]
           /\ vote' = [vote EXCEPT ![c] =
                [@ EXCEPT !.currentlyVoting = TRUE, !.elapsed = 0,
                          !.playerName = PlayerName(m), !.votesNeeded = VotesNeeded(n)]]
           /\ said' = {} /\ electorate' = n /\ target' = m /\ asked' = None
           /\ lastStart' = [lastStart EXCEPT ![peer[s]] = 0]
        \/ /\ vote' = [vote EXCEPT ![c].playerName = PlayerName(m)]
           /\ UNCHANGED <<voteTimes, said, electorate, target, asked, lastStart>>
  BY DEF ProcessMessage, AddToVoteTimes
<1>. DEFINE N == VotesNeeded(n)
            name == PlayerName(m)
            Starts == /\ MayStartVote(uid)
                      /\ voteTimes' = [voteTimes EXCEPT ![uid] = 0]
                      /\ said' = {} /\ electorate' = n /\ target' = m /\ asked' = None
                      /\ lastStart' = [lastStart EXCEPT ![peer[s]] = 0]
            Stays == UNCHANGED <<voteTimes, said, electorate, target, asked, lastStart>>
<1>1. \/ /\ Starts
         /\ vote' = [vote EXCEPT ![c] =
              [@ EXCEPT !.currentlyVoting = TRUE, !.elapsed = 0, !.playerName = name,
                        !.votesNeeded = N]]
      \/ Stays /\ vote' = [vote EXCEPT ![c].playerName = name]
  BY <1>0
<1>5. SUFFICES /\ \A d \in Commands \ {c} : vote'[d] = vote[d]
               /\ \/ Starts /\ vote'[c] = Started(vote[c], N, name)
                  \/ Stays /\ vote'[c] = Renamed(vote[c], name)
  OBVIOUS
<1>. HIDE DEF N, name, Starts, Stays
<1>2. vote \in [Commands -> VoteRecord] /\ vote[c] \in VoteRecord
  BY DEF VoteInv
<1>3. CASE vote' = [vote EXCEPT ![c] =
             [@ EXCEPT !.currentlyVoting = TRUE, !.elapsed = 0, !.playerName = name,
                       !.votesNeeded = N]]
           /\ Starts
  <2>1. vote'[c] = [vote[c] EXCEPT !.currentlyVoting = TRUE, !.elapsed = 0,
                                   !.playerName = name, !.votesNeeded = N]
    BY <1>2, <1>3
  <2>2. vote'[c] = Started(vote[c], N, name)
    BY <1>2, <2>1 DEF VoteRecord, Started
  <2>3. \A d \in Commands \ {c} : vote'[d] = vote[d]
    BY <1>2, <1>3
  <2>. QED BY <1>3, <2>2, <2>3
<1>4. CASE vote' = [vote EXCEPT ![c].playerName = name] /\ Stays
  <2>1. vote'[c] = Renamed(vote[c], name)
    BY <1>2, <1>4 DEF VoteRecord, Renamed
  <2>2. \A d \in Commands \ {c} : vote'[d] = vote[d]
    BY <1>2, <1>4
  <2>. QED BY <1>4, <2>1, <2>2
<1>. QED
  BY <1>1, <1>3, <1>4

\* The records after processVote.
LEMMA YesShape ==
  ASSUME VoteInv, NEW s, NEW c \in Commands, ProcessVote(c, s)
  PROVE  /\ \A d \in Commands \ {c} : vote'[d] = vote[d]
         /\ \E uid \in SenderUid(s) \ {NoUid} :
              \/ AlreadyVoted(vote[c], uid) /\ vote' = vote
              \/ /\ ~AlreadyVoted(vote[c], uid)
                 /\ Len(Append(vote[c].yesVoters, uid)) >= vote[c].votesNeeded
                 /\ vote'[c] = NoVote
              \/ /\ ~AlreadyVoted(vote[c], uid)
                 /\ vote'[c] = Counted(vote[c], Append(vote[c].yesVoters, uid))
<1>1. PICK uid \in SenderUid(s) \ {NoUid} :
        \/ AlreadyVoted(vote[c], uid) /\ vote' = vote
        \/ /\ ~AlreadyVoted(vote[c], uid)
           /\ Len(Append(vote[c].yesVoters, uid)) >= vote[c].votesNeeded
           /\ vote' = [vote EXCEPT ![c] = NoVote]
        \/ /\ ~AlreadyVoted(vote[c], uid)
           /\ vote' = [vote EXCEPT ![c].yesVoters = Append(vote[c].yesVoters, uid)]
  BY DEF ProcessVote, EndVoting
<1>2. vote \in [Commands -> VoteRecord] /\ vote[c] \in VoteRecord
  BY DEF VoteInv
<1>. DEFINE yes == Append(vote[c].yesVoters, uid)
<1>. HIDE DEF yes
<1>3. ASSUME vote' = [vote EXCEPT ![c].yesVoters = yes]
      PROVE  vote'[c] = Counted(vote[c], yes) /\ \A d \in Commands \ {c} : vote'[d] = vote[d]
  <2>1. vote'[c] = [vote[c] EXCEPT !.yesVoters = yes]
    BY <1>2, <1>3
  <2>2. vote'[c] = Counted(vote[c], yes)
    BY <1>2, <2>1 DEF VoteRecord, Counted
  <2>. QED BY <1>2, <1>3, <2>2
<1>4. ASSUME vote' = [vote EXCEPT ![c] = NoVote]
      PROVE  vote'[c] = NoVote /\ \A d \in Commands \ {c} : vote'[d] = vote[d]
  BY <1>2, <1>4
<1>. QED
  BY <1>1, <1>3, <1>4 DEF yes

\* The records after a second has passed.
LEMMA ClockShape ==
  ASSUME VoteInv, Clock, NEW c \in Commands
  PROVE  vote'[c] = Aged(vote[c])
<1>1. vote[c] \in VoteRecord
  BY DEF VoteInv
<1>2. vote'[c] = [vote[c] EXCEPT !.elapsed = Later(vote[c].elapsed, ChatCommandVoteTime)]
  BY DEF Clock
<1>. QED
  BY <1>1, <1>2 DEF VoteRecord, Aged

\* Every peer that has a player has an index of its own among the players, so
\* there are no more of them than places.
LEMMA PlayersInGame ==
  ASSUME MemberInv
  PROVE  NumbersOfPlayersInGame \subseteq 1..MaxPlayers
<1>. DEFINE S == {s \in Peers : PeerPlayer(s) # -1}
            f == [s \in S |-> PeerPlayer(s)]
<1>1. f \in [S -> Players]
  BY PeerPlayerFacts
<1>2. \A s, t \in S : f[s] = f[t] => s = t
  BY PeerPlayerFacts, MachinesAssumption DEF MemberInv
<1>3. f \in Injection(S, Players)
  BY <1>1, <1>2 DEF Injection, IsInjective
<1>4. IsFiniteSet(Players) /\ Cardinality(Players) = MaxPlayers
  BY FS_Interval, LimitsAssumption DEF Players
<1>5. IsFiniteSet(S) /\ Cardinality(S) <= MaxPlayers
  BY <1>3, <1>4, FS_Injection
<1>6. Cardinality(S) \in Nat
  BY <1>5, FS_CardinalityType
<1>7. NumbersOfPlayersInGame = 1..Cardinality(S)
  BY DEF NumbersOfPlayersInGame
<1>. HIDE DEF f, S
<1>. QED
  BY <1>5, <1>6, <1>7, LimitsAssumption

\* The number of votes needed is at least one and at most the players there are.
LEMMA VotesNeededBound ==
  ASSUME NEW n \in 1..MaxPlayers
  PROVE  VotesNeeded(n) \in 1..MaxPlayers
<1>1. \A k \in Nat, p \in 0..100 : k * p \in Nat /\ k * p <= 100 * k
  <2>. SUFFICES ASSUME NEW k \in Nat, NEW p \in 0..100 PROVE k * p \in Nat /\ k * p <= 100 * k
    OBVIOUS
  <2>1. k * (100 - p) >= 0
    OBVIOUS
  <2>2. k * (100 - p) = 100 * k - k * p
    OBVIOUS
  <2>3. k * p \in Nat
    OBVIOUS
  <2>. QED BY <2>1, <2>2, <2>3
<1>2. n - 1 \in Nat /\ VotePassPercentage \in 0..100
  BY LimitsAssumption
<1>. DEFINE q == (n - 1) * VotePassPercentage
<1>3. q \in Nat /\ q <= 100 * (n - 1)
  BY <1>1, <1>2
<1>. HIDE DEF q
<1>4. q \div 100 \in 0..(n - 1)
  BY <1>2, <1>3
<1>. QED
  BY <1>4, LimitsAssumption DEF VotesNeeded, q

\* The types that MemberInv, VoteInv and BanInv do not give.
DataOK ==
  /\ chatCommandsActive \in BOOLEAN
  /\ voteTimes \in [Uids \cup {NoUid} -> {NotSet} \cup 0..Cooldown]
  /\ enabled \in [EnablingVariables -> BOOLEAN]
  /\ said \subseteq Machines /\ electorate \in Nat
  /\ lastStart \in [Machines -> {NotSet} \cup 0..Cooldown]
  /\ target \in Machines \cup {None} /\ asked \in Machines \cup {None}

\* A clock stops at the time of a vote, and no vote needs more than everybody.
BoundsOK ==
  \A c \in Commands : /\ vote[c].elapsed \in {NotSet} \cup 0..ChatCommandVoteTime
                      /\ vote[c].votesNeeded \in 0..MaxPlayers

\* The sender of a chat message is a machine of the session.
LEMMA SenderFacts ==
  ASSUME MemberInv, NEW s \in Peers, HandleChatMessage(s)
  PROVE  /\ peer[s] \in Machines
         /\ SenderUid(s) \subseteq Uids \cup {NoUid}
<1>1. PeerPlayer(s) # -1
  BY DEF HandleChatMessage
<1>2. SenderUid(s) \subseteq Uids \cup {NoUid}
  BY DEF SenderUid, MemberInv, Uids
<1>. QED
  BY <1>1, <1>2, PeerPlayerFacts

\* FindPlayerByName finds nobody or a machine that has the name.
LEMMA FoundHasName ==
  ASSUME MemberInv, NEW n, FindPlayerByName(n) # None
  PROVE  FindPlayerByName(n) \in Machines /\ NameOf[FindPlayerByName(n)] = n
<1>. USE IndexFacts
<1>. DEFINE found == {s \in Peers : PeerPlayer(s) # -1 /\ NameOf[peer[s]] = n}
<1>1. found # {} /\ found \in SUBSET Nat
  BY DEF FindPlayerByName
<1>2. Min(found) \in found
  BY <1>1, MinIsLeast
<1>3. FindPlayerByName(n) = peer[Min(found)]
  BY <1>1 DEF FindPlayerByName
<1>4. PICK s \in Peers : /\ PeerPlayer(s) # -1 /\ NameOf[peer[s]] = n
                         /\ FindPlayerByName(n) = peer[s]
  BY <1>2, <1>3
<1>. QED BY <1>4, PeerPlayerFacts

\* Clocks stay within their bounds.
LEMMA LaterType ==
  ASSUME NEW bound \in Nat, NEW t \in {NotSet} \cup 0..bound
  PROVE  Later(t, bound) \in {NotSet} \cup 0..bound
BY DEF Later, NotSet

\* Every step keeps DataOK.
LEMMA DataPreserved == MemberInv /\ VoteInv /\ DataOK /\ [Next]_vars => DataOK'
<1>. SUFFICES ASSUME MemberInv, VoteInv, DataOK, [Next]_vars PROVE DataOK'
  OBVIOUS
<1>. USE LimitsAssumption
<1>0. 0 \in {NotSet} \cup 0..Cooldown
  OBVIOUS
<1>1. ASSUME NEW s \in Peers, HandleChatMessage(s) PROVE DataOK'
  <2>0. /\ peer[s] \in Machines
        /\ SenderUid(s) \subseteq Uids \cup {NoUid}
        /\ NumbersOfPlayersInGame \subseteq Nat
        /\ UNCHANGED <<chatCommandsActive, enabled>> /\ Running
    BY <1>1, SenderFacts DEF HandleChatMessage, NumbersOfPlayersInGame
  <2>1. ASSUME NEW c \in Voting, ProcessVote(c, s) PROVE DataOK'
    <3>1. said' = said \cup {peer[s]} /\ UNCHANGED <<voteTimes, electorate, lastStart, target>>
      BY <2>1 DEF ProcessVote
    <3>2. asked' \in Machines \cup {None}
      <4>1. asked' = asked \/ \E n : asked' = FindPlayerByName(n)
        BY <2>1 DEF ProcessVote, DoOnVotePass
      <4>. QED BY <4>1, FoundHasName DEF DataOK
    <3>. QED BY <2>0, <3>1, <3>2 DEF DataOK
  <2>2. ASSUME NEW c \in Commands, NEW arg \in Arguments(c), ProcessMessage(c, s, arg)
        PROVE  DataOK'
    <3>2. PICK m \in Selected(c, arg), uid \in SenderUid(s), n \in NumbersOfPlayersInGame :
            \/ /\ voteTimes' = [voteTimes EXCEPT ![uid] = 0]
               /\ said' = {} /\ electorate' = n /\ target' = m /\ asked' = None
               /\ lastStart' = [lastStart EXCEPT ![peer[s]] = 0]
            \/ UNCHANGED <<voteTimes, said, electorate, target, asked, lastStart>>
      BY <2>2, StartShape
    <3>1. m \in Machines \cup {None}
      BY <2>0, SelectedFacts
    <3>3. /\ voteTimes' \in [Uids \cup {NoUid} -> {NotSet} \cup 0..Cooldown]
          /\ lastStart' \in [Machines -> {NotSet} \cup 0..Cooldown]
      BY <1>0, <3>2 DEF DataOK
    <3>. QED BY <2>0, <3>1, <3>2, <3>3 DEF DataOK
  <2>3. ASSUME NEW c \in Commands, NEW arg, ProcessMessageThrows(c, arg) PROVE DataOK'
    BY <2>0, <2>3 DEF ProcessMessageThrows, historyVars, DataOK
  <2>. QED BY <1>1, <2>1, <2>2, <2>3 DEF HandleChatMessage, CommandFrom
<1>2. CASE Tick
  BY <1>2 DEF Tick, historyVars, DataOK
<1>3. CASE GameEnds \/ ClientGameEnds
  <2>1. GameEndedEvent
    BY <1>3 DEF GameEnds, ClientGameEnds
  <2>2. /\ voteTimes' \in [Uids \cup {NoUid} -> {NotSet} \cup 0..Cooldown]
        /\ lastStart' \in [Machines -> {NotSet} \cup 0..Cooldown]
    BY <2>1 DEF GameEndedEvent
  <2>3. said' \subseteq Machines /\ electorate' \in Nat /\ target' = None /\ asked' = None
    BY <2>1 DEF GameEndedEvent
  <2>4. enabled' = enabled /\ chatCommandsActive' \in BOOLEAN
    BY <2>1 DEF GameEndedEvent
  <2>. QED BY <2>2, <2>3, <2>4 DEF DataOK
<1>4. CASE StartGame \/ ClientGameStarts
  BY <1>4 DEF StartGame, ClientGameStarts, historyVars, DataOK
<1>5. ASSUME NEW e \in Toggles, SetEnabled(e) PROVE DataOK'
  <2>1. enabled' \in [EnablingVariables -> BOOLEAN]
    BY <1>5 DEF SetEnabled, DataOK
  <2>. QED BY <1>5, <2>1 DEF SetEnabled, historyVars, DataOK
<1>6. ASSUME NEW n \in Names, OperatorKick(n) PROVE DataOK'
  BY <1>6 DEF OperatorKick, DataOK
<1>7. CASE CreateSession
  BY <1>7 DEF CreateSession, historyVars, DataOK
<1>8. CASE LeaveSession
  BY <1>8 DEF LeaveSession, historyVars, DataOK
<1>9. ASSUME NEW m \in Machines, HandleJoinRequest(m) PROVE DataOK'
  BY <1>9 DEF HandleJoinRequest, historyVars, DataOK
<1>10. ASSUME NEW m \in Machines, PlayerLeaves(m) PROVE DataOK'
  BY <1>10 DEF PlayerLeaves, historyVars, DataOK
<1>11. CASE Clock
  <2>1. /\ voteTimes' \in [Uids \cup {NoUid} -> {NotSet} \cup 0..Cooldown]
        /\ lastStart' \in [Machines -> {NotSet} \cup 0..Cooldown]
    BY <1>11, LaterType DEF Clock, DataOK
  <2>. QED BY <1>11, <2>1 DEF Clock, DataOK
<1>12. CASE UNCHANGED vars
  BY <1>12 DEF vars, historyVars, DataOK
<1>. QED
  BY <1>1, <1>2, <1>3, <1>4, <1>5, <1>6, <1>7, <1>8, <1>9, <1>10, <1>11, <1>12 DEF Next

\* Every step keeps BoundsOK.
LEMMA BoundsPreserved == MemberInv /\ VoteInv /\ BoundsOK /\ [Next]_vars => BoundsOK'
<1>. SUFFICES ASSUME MemberInv, VoteInv, BoundsOK, [Next]_vars, NEW d \in Commands
              PROVE  /\ vote'[d].elapsed \in {NotSet} \cup 0..ChatCommandVoteTime
                     /\ vote'[d].votesNeeded \in 0..MaxPlayers
  BY DEF BoundsOK
<1>. USE LimitsAssumption
<1>. DEFINE OK == /\ vote'[d].elapsed \in {NotSet} \cup 0..ChatCommandVoteTime
                  /\ vote'[d].votesNeeded \in 0..MaxPlayers
<1>1. ASSUME vote'[d] = vote[d] PROVE OK
  BY <1>1 DEF BoundsOK
<1>2. ASSUME vote'[d] = NoVote PROVE OK
  BY <1>2 DEF NoVote
<1>3. ASSUME NEW s \in Peers, HandleChatMessage(s) PROVE OK
  <2>1. ASSUME NEW c \in Voting, ProcessVote(c, s) PROVE OK
    <3>1. \A x \in Commands \ {c} : vote'[x] = vote[x]
      BY <2>1, YesShape DEF Voting
    <3>2. PICK yes : vote' = vote \/ vote'[c] = NoVote \/ vote'[c] = Counted(vote[c], yes)
      BY <2>1, YesShape DEF Voting
    <3>3. ASSUME vote'[d] = Counted(vote[d], yes) PROVE OK
      BY <3>3 DEF Counted, BoundsOK
    <3>. QED BY <1>1, <1>2, <3>1, <3>2, <3>3
  <2>2. ASSUME NEW c \in Commands, NEW arg \in Arguments(c), ProcessMessage(c, s, arg)
        PROVE  OK
    <3>1. \A x \in Commands \ {c} : vote'[x] = vote[x]
      BY <2>2, StartShape
    <3>2. PICK m \in Selected(c, arg), uid \in SenderUid(s), n \in NumbersOfPlayersInGame :
            \/ /\ vote'[c] = Started(vote[c], VotesNeeded(n), PlayerName(m))
               /\ target' = m /\ asked' = None
            \/ /\ vote'[c] = Renamed(vote[c], PlayerName(m))
               /\ UNCHANGED <<target, asked>>
      BY <2>2, StartShape
    <3>. DEFINE N == VotesNeeded(n)
                name == PlayerName(m)
    <3>3. N \in 1..MaxPlayers
      BY PlayersInGame, VotesNeededBound
    <3>6. vote'[c] = Started(vote[c], N, name) \/ vote'[c] = Renamed(vote[c], name)
      BY <3>2
    <3>. HIDE DEF N, name
    <3>4. ASSUME vote'[d] = Started(vote[d], N, name) PROVE OK
      BY <3>3, <3>4 DEF Started
    <3>5. ASSUME vote'[d] = Renamed(vote[d], name) PROVE OK
      BY <3>5 DEF Renamed, BoundsOK
    <3>. QED BY <1>1, <3>1, <3>4, <3>5, <3>6
  <2>3. ASSUME NEW c \in Commands, NEW arg, ProcessMessageThrows(c, arg) PROVE OK
    BY <1>1, <2>3 DEF ProcessMessageThrows
  <2>. QED BY <1>3, <2>1, <2>2, <2>3 DEF HandleChatMessage, CommandFrom
<1>4. CASE Tick \/ GameEnds \/ ClientGameEnds
  <2>1. vote'[d] = vote[d] \/ vote'[d] = NoVote
    BY <1>4 DEF Tick, GameEnds, ClientGameEnds, GameEndedEvent, EndVoting
  <2>. QED BY <1>1, <1>2, <2>1
<1>5. CASE Clock
  <2>1. vote'[d] = Aged(vote[d])
    BY <1>5, ClockShape
  <2>2. vote[d].elapsed \in {NotSet} \cup 0..ChatCommandVoteTime /\ ChatCommandVoteTime \in Nat
    BY DEF BoundsOK
  <2>. QED BY <2>1, <2>2, LaterType DEF Aged, BoundsOK
<1>6. CASE vote' = vote
  BY <1>1, <1>6
<1>. QED
  BY <1>3, <1>4, <1>5, <1>6
  DEF Next, StartGame, ClientGameStarts, SetEnabled, OperatorKick, CreateSession, LeaveSession,
      HandleJoinRequest, PlayerLeaves, vars

\* The invariants of this module's sections together.
ChatInv == MemberInv /\ VoteInv /\ BanInv /\ DataOK /\ BoundsOK

\* The membership stays in order, votes stay clean and within their bounds, and
\* bans stay in force.
THEOREM ChatInvariant == Spec => []ChatInv
<1>1. Init => ChatInv
  <2>. SUFFICES ASSUME Init PROVE ChatInv
    OBVIOUS
  <2>. USE LimitsAssumption, MachinesAssumption, IndexFacts
  <2>1. MemberInv
    BY DEF Init, MemberInv
  <2>2. VoteInv
    BY NoVoteIsClean DEF Init, VoteInv, Voting
  <2>3. BanInv
    BY DEF Init, BanInv, NotSet, InSession
  <2>4. DataOK
    BY DEF Init, DataOK
  <2>5. BoundsOK
    BY DEF Init, BoundsOK, NoVote
  <2>. QED BY <2>1, <2>2, <2>3, <2>4, <2>5 DEF ChatInv
<1>2. ChatInv /\ [Next]_vars => ChatInv'
  BY MemberInvPreserved, VoteInvPreserved, BanInvPreserved, DataPreserved, BoundsPreserved
     DEF ChatInv
<1>. QED
  BY <1>1, <1>2, PTL DEF Spec

\* Each variable of the chat commands keeps to its type, and the number of
\* votes a command needs never exceeds the places for players.
THEOREM ChatTypeCorrect == Spec => []TypeOK
<1>1. ChatInv => TypeOK
  <2>. SUFFICES ASSUME ChatInv PROVE TypeOK
    OBVIOUS
  <2>. DEFINE R == [currentlyVoting : BOOLEAN, elapsed : {NotSet} \cup 0..ChatCommandVoteTime,
                    yesVoters : Seq(Uids), votesNeeded : 0..MaxPlayers,
                    playerName : Names \cup {NoName}]
  <2>1. ASSUME NEW c \in Commands PROVE vote[c] \in R
    <3>1. vote[c] \in VoteRecord
      BY DEF ChatInv, VoteInv
    <3>2. /\ vote[c].elapsed \in {NotSet} \cup 0..ChatCommandVoteTime
          /\ vote[c].votesNeeded \in 0..MaxPlayers
      BY DEF ChatInv, BoundsOK
    <3>. QED BY <3>1, <3>2 DEF VoteRecord
  <2>2. vote \in [Commands -> R]
    BY <2>1 DEF ChatInv, VoteInv
  <2>. QED
    BY <2>2 DEF ChatInv, MemberInv, DataOK, BanInv, TypeOK
<1>. QED
  BY <1>1, ChatInvariant, PTL

-----------------------------------------------------------------------------
(* Whom a vote may hit.                                                    *)

\* A kick in progress keeps the name of its target, which is not the host.
TargetInv ==
  /\ target # Host
  /\ \A c \in Voting \cap Kicks : target \in Machines /\ vote[c].playerName = NameOf[target]
  /\ KickHitsItsTarget

\* No vote is left after the end of a game.
LEMMA GameEndsVotes ==
  ASSUME GameEndedEvent
  PROVE  Voting' = {}
<1>1. \A c \in Commands : ~vote'[c].currentlyVoting
  BY NoVoteIsClean DEF GameEndedEvent, EndVoting
<1>. QED
  BY <1>1 DEF Voting

\* Votes that go on or end while nobody is asked for keep TargetInv.
LEMMA SameTarget ==
  ASSUME TargetInv, UNCHANGED <<target, asked>>,
         \A c \in Voting' : c \in Voting /\ vote'[c].playerName = vote[c].playerName
  PROVE  TargetInv'
BY DEF TargetInv, KickHitsItsTarget

\* Every step keeps TargetInv.
LEMMA TargetPreserved ==
  ASSUME MemberInv, VoteInv, TargetInv, [Next]_vars
  PROVE  TargetInv'
<1>. USE MachinesAssumption
<1>1. ASSUME NEW s \in Peers, HandleChatMessage(s) PROVE TargetInv'
  <2>0. Running
    BY <1>1 DEF HandleChatMessage
  <2>1. ASSUME NEW c \in Voting, ProcessVote(c, s) PROVE TargetInv'
    <3>0. c \in Commands /\ \A d \in Voting : d = c
      BY DEF Voting, VoteInv
    <3>1. \A d \in Commands \ {c} : vote'[d] = vote[d]
      BY <2>1, <3>0, YesShape
    <3>2. PICK yes : vote' = vote \/ vote'[c] = NoVote \/ vote'[c] = Counted(vote[c], yes)
      BY <2>1, <3>0, YesShape
    <3>3. \A d \in Voting' : d \in Voting /\ vote'[d].playerName = vote[d].playerName
      BY <3>0, <3>1, <3>2, NoVoteIsClean DEF Voting, Counted
    <3>4. target' = target
      BY <2>1 DEF ProcessVote
    <3>5. CASE asked' = asked
      BY <3>3, <3>4, <3>5, SameTarget
    <3>6. CASE asked' # asked
      <4>. DEFINE name == vote[c].playerName
      <4>1. c \in Kicks /\ asked' = FindPlayerByName(name)
        BY <2>1, <3>0, <3>6 DEF ProcessVote, DoOnVotePass, Kicks
      <4>2. target \in Machines /\ name = NameOf[target] /\ target # Host
        BY <4>1 DEF TargetInv
      <4>3. asked' # None => NameOf[asked'] = name
        BY <4>1, FoundHasName
      <4>. HIDE DEF name
      <4>4. asked' # None => target \notin {Host, None} /\ NameOf[asked'] = NameOf[target]
        BY <4>2, <4>3
      <4>5. \A d \in Voting' \cap Kicks :
              target \in Machines /\ vote'[d].playerName = NameOf[target]
        BY <3>3 DEF TargetInv
      <4>. QED BY <3>4, <4>2, <4>4, <4>5 DEF TargetInv, KickHitsItsTarget
    <3>. QED BY <3>5, <3>6
  <2>2. ASSUME Voting = {}, NEW c \in Commands, NEW arg \in Arguments(c),
               ProcessMessage(c, s, arg)
        PROVE  TargetInv'
    <3>1. \A d \in Commands \ {c} : vote'[d] = vote[d]
      BY <2>2, StartShape
    <3>2. Voting' \subseteq {c}
      BY <2>2, <3>1 DEF Voting
    <3>3. PICK m \in Selected(c, arg), uid \in SenderUid(s), n \in NumbersOfPlayersInGame :
            \/ /\ vote'[c] = Started(vote[c], VotesNeeded(n), PlayerName(m))
               /\ target' = m /\ asked' = None
            \/ /\ vote'[c] = Renamed(vote[c], PlayerName(m))
               /\ UNCHANGED <<target, asked>>
      BY <2>2, StartShape
    <3>4. CASE /\ vote'[c] = Started(vote[c], VotesNeeded(n), PlayerName(m))
               /\ target' = m /\ asked' = None
      <4>1. m # Host /\ (c \in Kicks => m \in Machines)
        BY <2>0, SelectedFacts
      <4>2. vote'[c].playerName = PlayerName(m)
        BY <3>4 DEF Started
      <4>3. c \in Kicks => m \in Machines /\ vote'[c].playerName = NameOf[m]
        BY <4>1, <4>2 DEF PlayerName
      <4>. QED BY <3>2, <3>4, <4>1, <4>3 DEF TargetInv, KickHitsItsTarget
    <3>5. CASE /\ vote'[c] = Renamed(vote[c], PlayerName(m))
               /\ UNCHANGED <<target, asked>>
      <4>1. ~vote'[c].currentlyVoting
        BY <2>2, <3>5 DEF Renamed, Voting
      <4>2. Voting' = {}
        BY <3>2, <4>1 DEF Voting
      <4>. QED BY <3>5, <4>2, SameTarget
    <3>. QED BY <3>3, <3>4, <3>5
  <2>3. ASSUME NEW c \in Commands, NEW arg, ProcessMessageThrows(c, arg) PROVE TargetInv'
    <3>1. UNCHANGED <<vote, target, asked>>
      BY <2>3 DEF ProcessMessageThrows, historyVars
    <3>. QED BY <3>1, SameTarget DEF Voting
  <2>. QED BY <1>1, <2>1, <2>2, <2>3 DEF HandleChatMessage, CommandFrom
<1>2. CASE Tick
  <2>1. \A d \in Commands : vote'[d] = vote[d] \/ vote'[d] = NoVote
    BY <1>2 DEF Tick, EndVoting
  <2>2. \A d \in Voting' : d \in Voting /\ vote'[d] = vote[d]
    BY <2>1, NoVoteIsClean DEF Voting
  <2>3. UNCHANGED <<target, asked>>
    BY <1>2 DEF Tick, historyVars
  <2>. QED BY <2>2, <2>3, SameTarget
<1>3. CASE GameEnds \/ ClientGameEnds
  <2>1. GameEndedEvent
    BY <1>3 DEF GameEnds, ClientGameEnds
  <2>2. Voting' = {} /\ target' = None /\ asked' = None
    BY <2>1, GameEndsVotes DEF GameEndedEvent
  <2>. QED BY <2>2 DEF TargetInv, KickHitsItsTarget
<1>4. CASE Clock
  <2>1. ASSUME NEW d \in Commands
        PROVE  /\ vote'[d].playerName = vote[d].playerName
               /\ vote'[d].currentlyVoting = vote[d].currentlyVoting
    <3>1. vote'[d] = Aged(vote[d])
      BY <1>4, ClockShape
    <3>. QED BY <3>1 DEF Aged
  <2>2. UNCHANGED <<target, asked>>
    BY <1>4 DEF Clock
  <2>. QED BY <2>1, <2>2, SameTarget DEF Voting
<1>5. CASE UNCHANGED <<vote, target, asked>>
  BY <1>5, SameTarget DEF Voting
<1>. QED
  BY <1>1, <1>2, <1>3, <1>4, <1>5
  DEF Next, StartGame, ClientGameStarts, SetEnabled, OperatorKick, CreateSession, LeaveSession,
      HandleJoinRequest, PlayerLeaves, vars, historyVars

\* Whatever names the machines have, the engine is asked to boot only a machine
\* with the name of the one the vote was started against, which was not the host.
THEOREM KicksHitTheirTargets == Spec => []KickHitsItsTarget
<1>1. Init => TargetInv
  BY MachinesAssumption DEF Init, TargetInv, KickHitsItsTarget, Voting, NoVote
<1>2. ChatInv /\ TargetInv /\ [Next]_vars => TargetInv'
  BY TargetPreserved DEF ChatInv
<1>3. TargetInv => KickHitsItsTarget
  BY DEF TargetInv
<1>. QED
  BY <1>1, <1>2, <1>3, ChatInvariant, PTL DEF Spec

-----------------------------------------------------------------------------
(* Who started a vote, and who said yes.  The handlers look a sender's uid *)
(* up at the peer index.  That is the sender's own uid when the host plays *)
(* too, because peer i then is player i; on a dedicated server it is not.  *)

\* The uid a handler uses is the sender's own when the host plays.
LEMMA SenderIsPeer ==
  ASSUME ~Dedicated, MemberInv, NEW s \in Peers, HandleChatMessage(s)
  PROVE  SenderUid(s) = {UidOf[peer[s]]} /\ peer[s] \in Machines
<1>. USE IndexFacts, MachinesAssumption
<1>1. PeerPlayer(s) # -1
  BY DEF HandleChatMessage
<1>2. peer[s] \in Machines /\ peer[s] # None
  BY <1>1, PeerPlayerFacts
<1>3. s \in Players /\ player[s] = peer[s]
  BY <1>2 DEF MemberInv
<1>. QED
  BY <1>2, <1>3 DEF SenderUid

\* The cooldown of each uid is the time since its machine started a vote.
StartInv == \A m \in Machines : voteTimes[UidOf[m]] = lastStart[m]

\* Every step keeps StartInv.
LEMMA StartPreserved ==
  ASSUME ~Dedicated, MemberInv, VoteInv, DataOK, StartInv, [Next]_vars
  PROVE  StartInv'
<1>0. \A m \in Machines : UidOf[m] \in Uids /\ UidOf[m] \in Uids \cup {NoUid}
  BY DEF Uids
<1>1. ASSUME NEW s \in Peers, HandleChatMessage(s) PROVE StartInv'
  <2>1. ASSUME NEW c \in Voting, ProcessVote(c, s) PROVE StartInv'
    BY <2>1 DEF ProcessVote, StartInv
  <2>2. ASSUME NEW c \in Commands, NEW arg \in Arguments(c), ProcessMessage(c, s, arg)
        PROVE  StartInv'
    <3>1. \E uid \in SenderUid(s) :
            \/ /\ voteTimes' = [voteTimes EXCEPT ![uid] = 0]
               /\ lastStart' = [lastStart EXCEPT ![peer[s]] = 0]
            \/ UNCHANGED <<voteTimes, lastStart>>
      BY <2>2, StartShape
    <3>2. SenderUid(s) = {UidOf[peer[s]]} /\ peer[s] \in Machines
      BY <1>1, SenderIsPeer
    <3>3. \/ /\ voteTimes' = [voteTimes EXCEPT ![UidOf[peer[s]]] = 0]
             /\ lastStart' = [lastStart EXCEPT ![peer[s]] = 0]
          \/ UNCHANGED <<voteTimes, lastStart>>
      BY <3>1, <3>2
    <3>4. ASSUME NEW m \in Machines PROVE voteTimes'[UidOf[m]] = lastStart'[m]
      <4>1. CASE m = peer[s]
        BY <1>0, <3>2, <3>3, <4>1 DEF DataOK, StartInv
      <4>2. CASE m # peer[s]
        <5>1. UidOf[m] # UidOf[peer[s]]
          BY <3>2, <4>2, IdentityAssumption
        <5>. QED BY <1>0, <3>2, <3>3, <4>2, <5>1 DEF DataOK, StartInv
      <4>. QED BY <4>1, <4>2
    <3>. QED BY <3>4 DEF StartInv
  <2>3. ASSUME NEW c \in Commands, NEW arg, ProcessMessageThrows(c, arg) PROVE StartInv'
    BY <2>3 DEF ProcessMessageThrows, historyVars, StartInv
  <2>. QED BY <1>1, <2>1, <2>2, <2>3 DEF HandleChatMessage, CommandFrom
<1>2. CASE GameEnds \/ ClientGameEnds
  BY <1>0, <1>2 DEF GameEnds, ClientGameEnds, GameEndedEvent, StartInv
<1>3. CASE Clock
  BY <1>0, <1>3 DEF Clock, StartInv
<1>4. CASE UNCHANGED <<voteTimes, lastStart>>
  BY <1>4 DEF StartInv
<1>. QED
  BY <1>1, <1>2, <1>3, <1>4
  DEF Next, Tick, StartGame, ClientGameStarts, SetEnabled, OperatorKick, CreateSession, LeaveSession,
      HandleJoinRequest, PlayerLeaves, vars, historyVars

\* A machine starts a vote only when its own cooldown is over.
LEMMA StartIsSpaced ==
  ASSUME ~Dedicated, MemberInv, VoteInv, DataOK, StartInv, [Next]_vars,
         NEW m \in Machines, lastStart[m] # NotSet, lastStart'[m] = 0, lastStart[m] # 0
  PROVE  lastStart[m] >= Cooldown
<1>1. ASSUME NEW s \in Peers, HandleChatMessage(s) PROVE lastStart[m] >= Cooldown
  <2>1. ASSUME NEW c \in Voting, ProcessVote(c, s) PROVE FALSE
    BY <2>1 DEF ProcessVote
  <2>2. ASSUME NEW c \in Commands, NEW arg \in Arguments(c), ProcessMessage(c, s, arg)
        PROVE  lastStart[m] >= Cooldown
    <3>1. \E uid \in SenderUid(s) :
            \/ /\ MayStartVote(uid)
               /\ lastStart' = [lastStart EXCEPT ![peer[s]] = 0]
            \/ UNCHANGED <<voteTimes, lastStart>>
      BY <2>2, StartShape
    <3>2. SenderUid(s) = {UidOf[peer[s]]} /\ peer[s] \in Machines
      BY <1>1, SenderIsPeer
    <3>3. m = peer[s] /\ MayStartVote(UidOf[m])
      BY <3>1, <3>2 DEF DataOK
    <3>. QED BY <3>3 DEF MayStartVote, StartInv
  <2>3. ASSUME NEW c \in Commands, NEW arg, ProcessMessageThrows(c, arg) PROVE FALSE
    BY <2>3 DEF ProcessMessageThrows, historyVars
  <2>. QED BY <1>1, <2>1, <2>2, <2>3 DEF HandleChatMessage, CommandFrom
<1>2. CASE GameEnds \/ ClientGameEnds
  BY <1>2 DEF GameEnds, ClientGameEnds, GameEndedEvent, NotSet
<1>3. CASE Clock
  <2>1. lastStart'[m] = Later(lastStart[m], Cooldown)
    BY <1>3 DEF Clock
  <2>2. lastStart[m] \in 0..Cooldown /\ Cooldown \in Nat
    BY LimitsAssumption DEF DataOK
  <2>. QED BY <2>1, <2>2 DEF Later, NotSet
<1>4. CASE lastStart' = lastStart
  BY <1>4
<1>. QED
  BY <1>1, <1>2, <1>3, <1>4
  DEF Next, Tick, StartGame, ClientGameStarts, SetEnabled, OperatorKick, CreateSession, LeaveSession,
      HandleJoinRequest, PlayerLeaves, vars, historyVars

\* On a server whose host plays, a player does not start two votes of a game
\* within the cooldown, whatever index changes hands in between.
THEOREM StartsAreAlwaysSpaced == ~Dedicated => (Spec => StartsAreSpaced)
<1>. SUFFICES ASSUME ~Dedicated PROVE Spec => StartsAreSpaced
  OBVIOUS
<1>1. Init => StartInv
  BY DEF Init, StartInv, Uids
<1>2. ChatInv /\ StartInv /\ [Next]_vars => StartInv'
  BY StartPreserved DEF ChatInv
<1>3. ChatInv /\ StartInv /\ [Next]_vars =>
        [\A m \in Machines :
           lastStart[m] # NotSet /\ lastStart'[m] = 0 /\ lastStart[m] # 0
             => lastStart[m] >= Cooldown]_vars
  BY StartIsSpaced DEF ChatInv
<1>. QED
  BY <1>1, <1>2, <1>3, ChatInvariant, PTL DEF Spec, StartsAreSpaced

\* The yes voters of the vote in progress are exactly the machines that have
\* said yes, each once; the threshold is that of the players at its start.
YesInv ==
  \A c \in Voting :
    /\ Len(vote[c].yesVoters) = Cardinality(said)
    /\ \A m \in Machines : m \in said <=> AlreadyVoted(vote[c], UidOf[m])
    /\ electorate \in Nat \ {0}
    /\ vote[c].votesNeeded = VotesNeeded(electorate)

\* A vote whose voters and threshold stay as they were keeps its part of YesInv.
LEMMA SameVoters ==
  ASSUME YesInv, UNCHANGED <<said, electorate>>,
         \A c \in Voting' : /\ c \in Voting
                            /\ vote'[c].yesVoters = vote[c].yesVoters
                            /\ vote'[c].votesNeeded = vote[c].votesNeeded
  PROVE  YesInv'
BY DEF YesInv, AlreadyVoted

\* Appending a uid to the yes voters.
LEMMA AppendedVoter ==
  ASSUME NEW v, NEW w, NEW uid, v.yesVoters \in Seq(Uids), uid \in Uids,
         w.yesVoters = Append(v.yesVoters, uid), NEW u
  PROVE  /\ Len(w.yesVoters) = Len(v.yesVoters) + 1
         /\ AlreadyVoted(w, u) <=> AlreadyVoted(v, u) \/ u = uid
<1>. DEFINE y == v.yesVoters
            n == Len(y)
            z == w.yesVoters
<1>1. y \in Seq(Uids) /\ n \in Nat /\ z = Append(y, uid)
  OBVIOUS
<1>2. Len(z) = n + 1 /\ z[n + 1] = uid /\ \A i \in 1..n : z[i] = y[i]
  BY <1>1
<1>. HIDE DEF y, z, n
<1>3. (\E i \in 1..(n + 1) : z[i] = u) <=> (\E i \in 1..n : y[i] = u) \/ u = uid
  BY <1>1, <1>2
<1>. QED
  BY <1>2, <1>3 DEF AlreadyVoted, y, z, n

\* What a yes from peer s changes when the host plays: nothing for a machine that
\* has said yes before; otherwise its uid is new, and either enough have said
\* yes now or it is counted.
LEMMA YesFacts ==
  ASSUME ~Dedicated, MemberInv, VoteInv, DataOK, YesInv,
         NEW s \in Peers, HandleChatMessage(s), NEW c \in Voting, ProcessVote(c, s)
  PROVE  /\ said' = said \cup {peer[s]} /\ electorate' = electorate
         /\ \A d \in Commands \ {c} : vote'[d] = vote[d]
         /\ peer[s] \in said => vote' = vote
         /\ peer[s] \notin said =>
              /\ Cardinality(said') = Cardinality(said) + 1
              /\ \/ vote'[c] = NoVote /\ Cardinality(said') >= VotesNeeded(electorate)
                 \/ vote'[c] = Counted(vote[c], Append(vote[c].yesVoters, UidOf[peer[s]]))
<1>0. c \in Commands /\ vote[c].yesVoters \in Seq(Uids)
  BY DEF Voting, VoteInv, VoteRecord
<1>. DEFINE uid == UidOf[peer[s]]
<1>1. SenderUid(s) = {uid} /\ peer[s] \in Machines /\ uid \in Uids
  BY SenderIsPeer DEF Uids
<1>2. said' = said \cup {peer[s]} /\ electorate' = electorate
  BY DEF ProcessVote
<1>3. peer[s] \in said <=> AlreadyVoted(vote[c], uid)
  BY <1>1 DEF YesInv
<1>4. \A d \in Commands \ {c} : vote'[d] = vote[d]
  BY <1>0, YesShape
<1>5. \E u \in SenderUid(s) \ {NoUid} :
        \/ AlreadyVoted(vote[c], u) /\ vote' = vote
        \/ /\ ~AlreadyVoted(vote[c], u)
           /\ Len(Append(vote[c].yesVoters, u)) >= vote[c].votesNeeded
           /\ vote'[c] = NoVote
        \/ /\ ~AlreadyVoted(vote[c], u)
           /\ vote'[c] = Counted(vote[c], Append(vote[c].yesVoters, u))
  BY <1>0, YesShape
<1>6. \/ AlreadyVoted(vote[c], uid) /\ vote' = vote
      \/ /\ ~AlreadyVoted(vote[c], uid)
         /\ Len(Append(vote[c].yesVoters, uid)) >= vote[c].votesNeeded
         /\ vote'[c] = NoVote
      \/ /\ ~AlreadyVoted(vote[c], uid)
         /\ vote'[c] = Counted(vote[c], Append(vote[c].yesVoters, uid))
  BY <1>1, <1>5
<1>7. IsFiniteSet(said)
  BY MachinesAssumption, FS_Subset DEF DataOK
<1>8. peer[s] \notin said => Cardinality(said') = Cardinality(said) + 1
  BY <1>2, <1>7, FS_AddElement
<1>9. Len(Append(vote[c].yesVoters, uid)) = Cardinality(said) + 1
  BY <1>0, <1>1 DEF YesInv
<1>10. vote[c].votesNeeded = VotesNeeded(electorate)
  BY DEF YesInv
<1>. QED
  BY <1>2, <1>3, <1>4, <1>6, <1>8, <1>9, <1>10

\* Every step keeps YesInv.
LEMMA YesPreserved ==
  ASSUME ~Dedicated, MemberInv, VoteInv, DataOK, YesInv, [Next]_vars
  PROVE  YesInv'
<1>1. ASSUME NEW s \in Peers, HandleChatMessage(s) PROVE YesInv'
  <2>1. ASSUME NEW c \in Voting, ProcessVote(c, s) PROVE YesInv'
    <3>0. /\ c \in Commands /\ vote[c].yesVoters \in Seq(Uids)
          /\ \A d \in Voting : d = c
      BY DEF Voting, VoteInv, VoteRecord
    <3>1. /\ said' = said \cup {peer[s]} /\ electorate' = electorate
          /\ \A d \in Commands \ {c} : vote'[d] = vote[d]
      BY <1>1, <2>1, YesFacts
    <3>2. Voting' \subseteq {c}
      BY <3>0, <3>1 DEF Voting
    <3>3. CASE peer[s] \in said
      <4>1. vote' = vote /\ said' = said
        BY <1>1, <2>1, <3>1, <3>3, YesFacts
      <4>. QED BY <3>1, <4>1, SameVoters DEF Voting
    <3>4. CASE vote'[c] = NoVote
      <4>1. Voting' = {}
        BY <3>2, <3>4, NoVoteIsClean DEF Voting
      <4>. QED BY <4>1 DEF YesInv
    <3>5. CASE peer[s] \notin said /\ vote'[c] # NoVote
      <4>. DEFINE uid == UidOf[peer[s]]
      <4>1. /\ Cardinality(said') = Cardinality(said) + 1
            /\ vote'[c] = Counted(vote[c], Append(vote[c].yesVoters, uid))
        BY <1>1, <2>1, <3>5, YesFacts
      <4>2. peer[s] \in Machines /\ uid \in Uids
        BY <1>1, SenderIsPeer DEF Uids
      <4>3. /\ vote'[c].yesVoters = Append(vote[c].yesVoters, uid)
            /\ vote'[c].votesNeeded = vote[c].votesNeeded
        BY <4>1 DEF Counted
      <4>4. /\ Len(vote'[c].yesVoters) = Len(vote[c].yesVoters) + 1
            /\ \A u : AlreadyVoted(vote'[c], u) <=> AlreadyVoted(vote[c], u) \/ u = uid
        BY <3>0, <4>2, <4>3, AppendedVoter
      <4>5. \A m \in Machines : UidOf[m] = uid => m = peer[s]
        BY <4>2, IdentityAssumption
      <4>6. Len(vote'[c].yesVoters) = Cardinality(said')
        BY <4>1, <4>4 DEF YesInv
      <4>7. \A m \in Machines : m \in said' <=> AlreadyVoted(vote'[c], UidOf[m])
        BY <3>1, <4>2, <4>4, <4>5 DEF YesInv
      <4>8. electorate' \in Nat \ {0} /\ vote'[c].votesNeeded = VotesNeeded(electorate')
        BY <3>1, <4>3 DEF YesInv
      <4>. QED BY <3>2, <4>6, <4>7, <4>8 DEF YesInv, AlreadyVoted, VotesNeeded
    <3>. QED BY <3>3, <3>4, <3>5
  <2>2. ASSUME Voting = {}, NEW c \in Commands, NEW arg \in Arguments(c),
               ProcessMessage(c, s, arg)
        PROVE  YesInv'
    <3>1. \A d \in Commands \ {c} : vote'[d] = vote[d]
      BY <2>2, StartShape
    <3>2. Voting' \subseteq {c}
      BY <2>2, <3>1 DEF Voting
    <3>3. ~vote[c].currentlyVoting /\ vote[c].yesVoters = <<>>
      BY <2>2 DEF VoteInv, Clean, Voting
    <3>4. PICK m \in Selected(c, arg), uid \in SenderUid(s), n \in NumbersOfPlayersInGame :
            \/ /\ vote'[c] = Started(vote[c], VotesNeeded(n), PlayerName(m))
               /\ said' = {}
               /\ electorate' = n
            \/ vote'[c] = Renamed(vote[c], PlayerName(m))
      BY <2>2, StartShape
    <3>5. n \in Nat \ {0}
      BY DEF NumbersOfPlayersInGame
    <3>6. CASE vote'[c] = Renamed(vote[c], PlayerName(m))
      <4>1. ~vote'[c].currentlyVoting
        BY <3>3, <3>6 DEF Renamed
      <4>2. Voting' = {}
        BY <3>2, <4>1 DEF Voting
      <4>. QED BY <4>2 DEF YesInv
    <3>7. CASE /\ vote'[c] = Started(vote[c], VotesNeeded(n), PlayerName(m))
               /\ said' = {}
               /\ electorate' = n
      <4>1. vote'[c].yesVoters = <<>> /\ vote'[c].votesNeeded = VotesNeeded(n)
        BY <3>3, <3>7 DEF Started
      <4>2. Len(vote'[c].yesVoters) = 0 /\ Cardinality(said') = 0
        BY <3>7, <4>1, FS_EmptySet
      <4>3. \A u : ~AlreadyVoted(vote'[c], u)
        BY <4>2 DEF AlreadyVoted
      <4>. QED BY <3>2, <3>5, <3>7, <4>1, <4>2, <4>3 DEF YesInv, AlreadyVoted, VotesNeeded
    <3>. QED BY <3>4, <3>6, <3>7
  <2>3. ASSUME NEW c \in Commands, NEW arg, ProcessMessageThrows(c, arg) PROVE YesInv'
    <3>1. UNCHANGED <<vote, said, electorate>>
      BY <2>3 DEF ProcessMessageThrows, historyVars
    <3>. QED BY <3>1, SameVoters DEF Voting
  <2>. QED BY <1>1, <2>1, <2>2, <2>3 DEF HandleChatMessage, CommandFrom
<1>2. CASE Tick
  <2>1. \A d \in Commands : vote'[d] = vote[d] \/ vote'[d] = NoVote
    BY <1>2 DEF Tick, EndVoting
  <2>2. \A d \in Voting' : d \in Voting /\ vote'[d] = vote[d]
    BY <2>1, NoVoteIsClean DEF Voting
  <2>3. UNCHANGED <<said, electorate>>
    BY <1>2 DEF Tick, historyVars
  <2>. QED BY <2>2, <2>3, SameVoters
<1>5. CASE GameEnds \/ ClientGameEnds
  BY <1>5, GameEndsVotes DEF GameEnds, ClientGameEnds, YesInv
<1>3. CASE Clock
  <2>1. ASSUME NEW d \in Commands
        PROVE  /\ vote'[d].currentlyVoting = vote[d].currentlyVoting
               /\ vote'[d].yesVoters = vote[d].yesVoters
               /\ vote'[d].votesNeeded = vote[d].votesNeeded
    <3>1. vote'[d] = Aged(vote[d])
      BY <1>3, ClockShape
    <3>. QED BY <3>1 DEF Aged
  <2>2. UNCHANGED <<said, electorate>>
    BY <1>3 DEF Clock
  <2>. QED BY <2>1, <2>2, SameVoters DEF Voting
<1>4. CASE UNCHANGED <<vote, said, electorate>>
  BY <1>4, SameVoters DEF Voting
<1>. QED
  BY <1>1, <1>2, <1>3, <1>4, <1>5
  DEF Next, StartGame, ClientGameStarts, SetEnabled, OperatorKick, CreateSession, LeaveSession,
      HandleJoinRequest, PlayerLeaves, vars, historyVars

\* YesInv is an invariant of a server whose host plays.
THEOREM YesInvariant == ~Dedicated => (Spec => []YesInv)
<1>. SUFFICES ASSUME ~Dedicated PROVE Spec => []YesInv
  OBVIOUS
<1>1. Init => YesInv
  BY DEF Init, YesInv, Voting, NoVote
<1>2. ChatInv /\ YesInv /\ [Next]_vars => YesInv'
  BY YesPreserved DEF ChatInv
<1>. QED
  BY <1>1, <1>2, ChatInvariant, PTL DEF Spec

\* On a server whose host plays, nobody votes twice: a yes that changes the vote
\* comes from a machine that has not said yes in it.
THEOREM NobodyEverVotesTwice == ~Dedicated => (Spec => NobodyVotesTwice)
<1>. SUFFICES ASSUME ~Dedicated PROVE Spec => NobodyVotesTwice
  OBVIOUS
<1>1. ASSUME ChatInv, YesInv, NEW d \in Voting, NEW s \in Peers, HandleChatMessage(s),
             vote' # vote
      PROVE  said' # said
  <2>1. PICK c \in Voting : ProcessVote(c, s)
    BY <1>1 DEF HandleChatMessage
  <2>2. peer[s] \notin said /\ said' = said \cup {peer[s]}
    BY <1>1, <2>1, YesFacts DEF ChatInv
  <2>. QED BY <2>2
<1>2. ChatInv /\ YesInv /\ [Next]_vars =>
        [\A c \in Voting :
           (\E s \in Peers : HandleChatMessage(s)) /\ vote' # vote => said' # said]_vars
  BY <1>1
<1>3. Spec => []YesInv
  BY YesInvariant
<1>. QED
  BY <1>2, <1>3, ChatInvariant, PTL DEF Spec, NobodyVotesTwice

\* votesNeeded of n players is more than that percentage of n - 1.
LEMMA VotesNeededEnough ==
  ASSUME NEW n \in Nat \ {0}, NEW k \in Nat, k >= VotesNeeded(n)
  PROVE  k * 100 > VotePassPercentage * (n - 1)
<1>. DEFINE q == (n - 1) * VotePassPercentage
<1>1. q \in Int /\ q = VotePassPercentage * (n - 1)
  BY LimitsAssumption
<1>2. k >= 1 + q \div 100
  BY DEF VotesNeeded
<1>. HIDE DEF q
<1>. QED
  BY <1>1, <1>2

\* On a server whose host plays, for every percentage: a vote passes only when more
\* than VotePassPercentage of the other players counted at its start have said yes
\* themselves, whoever came or left since.
THEOREM AlwaysPassedByPercentage == ~Dedicated => (Spec => PassedByPercentage)
<1>. SUFFICES ASSUME ~Dedicated PROVE Spec => PassedByPercentage
  OBVIOUS
<1>1. ASSUME ChatInv, YesInv, NEW d \in Voting, NEW s \in Peers, HandleChatMessage(s),
             ~vote'[d].currentlyVoting
      PROVE  Cardinality(said') * 100 > VotePassPercentage * (electorate - 1)
  <2>1. PICK c \in Voting : ProcessVote(c, s)
    BY <1>1 DEF HandleChatMessage
  <2>2. c = d /\ c \in Commands /\ vote[c].currentlyVoting
    BY <1>1 DEF ChatInv, VoteInv, Voting
  <2>3. peer[s] \notin said
    BY <1>1, <2>1, <2>2, YesFacts DEF ChatInv
  <2>4. vote'[c] # Counted(vote[c], Append(vote[c].yesVoters, UidOf[peer[s]]))
    BY <1>1, <2>2 DEF Counted
  <2>5. Cardinality(said') >= VotesNeeded(electorate)
    BY <1>1, <2>1, <2>3, <2>4, YesFacts DEF ChatInv
  <2>6. electorate \in Nat \ {0}
    BY <1>1 DEF YesInv
  <2>7. Cardinality(said') \in Nat
    <3>1. said' = said \cup {peer[s]}
      BY <1>1, <2>1, YesFacts DEF ChatInv
    <3>2. IsFiniteSet(said)
      BY <1>1, MachinesAssumption, FS_Subset DEF ChatInv, DataOK
    <3>. QED BY <3>1, <3>2, FS_AddElement, FS_CardinalityType
  <2>. QED BY <2>5, <2>6, <2>7, VotesNeededEnough
<1>2. ChatInv /\ YesInv /\ [Next]_vars =>
        [\A c \in Voting :
           (\E s \in Peers : HandleChatMessage(s)) /\ ~vote'[c].currentlyVoting
             => Cardinality(said') * 100 > VotePassPercentage * (electorate - 1)]_vars
  BY <1>1
<1>3. Spec => []YesInv
  BY YesInvariant
<1>. QED
  BY <1>2, <1>3, ChatInvariant, PTL DEF Spec, PassedByPercentage
=============================================================================
