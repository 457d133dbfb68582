----------------------------- MODULE ChatCommands -----------------------------
(***************************************************************************)
(* Votes started by chat commands (ChatCommands/) and the temporary bans   *)
(* they lead to (Server/BanList.cpp).  During a game a player types        *)
(* !kick, !kickIndex, !endGame or !shuffleTeams; the others type !yes; a   *)
(* vote passes at once when enough have, fails when its time is over, and  *)
(* a passed kick boots the player and bans the address for some games.     *)
(*                                                                         *)
(* All handlers run on the game thread.  A time stamp is kept as the       *)
(* seconds since it was taken, NotSet standing for 0 or for no entry.      *)
(* Peers and players are numbered separately: a dedicated host is a peer   *)
(* that has no player.                                                     *)
(***************************************************************************)
EXTENDS Integers, Sequences, FiniteSets, FiniteSetsExt

CONSTANTS
  Machines, Host, None,   \* the machines, the host among them; nobody
  UidOf, NameOf, IpOf,    \* what the machines present
  Names, NoName,          \* display names, and the empty one
  Dedicated,              \* ElDorito::IsDedicated
  MaxPlayers,             \* player indices are 0..MaxPlayers-1, peers have one more
  Commands,               \* the names of the chat commands offered
  Toggles,                \* the Server.ChatCommand...Enabled variables changed at run time
  VotePassPercentage, ChatCommandVoteTime, TempBanDuration,
  Cooldown                \* 90 seconds between two votes started by one player

Players == 0..(MaxPlayers - 1)
Peers == 0..MaxPlayers
Uids == {UidOf[m] : m \in Machines}
Ips == {IpOf[m] : m \in Machines}
NoUid == 0
NotSet == -1

ASSUME MachinesAssumption == Host \in Machines /\ None \notin Machines /\ IsFiniteSet(Machines)
ASSUME IdentityAssumption ==
  /\ UidOf \in [Machines -> Nat \ {0}]
  /\ \A m, k \in Machines : UidOf[m] = UidOf[k] => m = k
  /\ NameOf \in [Machines -> Names] /\ NoName \notin Names
  /\ DOMAIN IpOf = Machines
ASSUME LimitsAssumption ==
  /\ Dedicated \in BOOLEAN
  /\ MaxPlayers \in Nat \ {0}
  /\ VotePassPercentage \in 0..100
  /\ ChatCommandVoteTime \in 1..200
  /\ TempBanDuration \in 1..10
  /\ Cooldown \in Nat

\* The variable that enables a command.
EnabledBy(c) == IF c \in {"kick", "kickIndex"} THEN "KickPlayer" ELSE c
EnablingVariables == {EnabledBy(c) : c \in Commands}

VARIABLES
  \* --- the engine's session
  lifecycle,              \* "None" (not a host), "PreGame", "InGame" or "Crashed"
  peer, player,           \* the machine of each peer index and player index
  \* --- ChatCommandMap.cpp
  chatCommandsActive,
  voteTimes,              \* seconds since each uid started a vote
  \* --- AbstractChatCommand, one per command
  vote,
  enabled,                \* the Server.ChatCommand...Enabled variables
  \* --- TempBanList
  ipAddresses,            \* games left of each address's ban, 0 for none
  \* --- history
  said,                   \* machines that said yes in the vote in progress
  electorate,             \* number of players when that vote started
  lastStart,              \* seconds since each machine started a vote this game
  gamesOut,               \* games seen to end since each machine was banned
  target,                 \* the machine that vote was started against, None without one
  asked                   \* the machine the engine was asked to boot when it passed

sessionVars == <<lifecycle, peer, player>>
historyVars == <<said, electorate, lastStart, gamesOut, target, asked>>
vars == <<sessionVars, chatCommandsActive, voteTimes, vote, enabled, ipAddresses, historyVars>>

-----------------------------------------------------------------------------
(* The membership.                                                         *)

\* This machine hosts a session.
Running == lifecycle \in {"PreGame", "InGame"}

InSession == {m \in Machines : \E s \in Peers : peer[s] = m}

\* GetPeerPlayer, -1 for a peer without a player.
PeerPlayer(s) ==
  IF \E i \in Players : player[i] = peer[s] /\ peer[s] # None
    THEN CHOOSE i \in Players : player[i] = peer[s]
    ELSE -1

\* What findNumberOfPlayersInGame may return for a message that has come in: it
\* leaves out peers the engine does not count as established, not the sender.
NumbersOfPlayersInGame == 1..Cardinality({s \in Peers : PeerPlayer(s) # -1})

\* The uid processMessage and processVote use for peer s:
\* PlayerSessions[s].Properties.Uid, the entry of the player whose index is s.
\* The last peer index is past the end of PlayerSessions.
SenderUid(s) ==
  IF s \notin Players THEN Uids \cup {NoUid}
  ELSE {IF player[s] = None THEN NoUid ELSE UidOf[player[s]]}

\* FindPlayerByName: the first peer whose player has the name.
FindPlayerByName(n) ==
  LET found == {s \in Peers : PeerPlayer(s) # -1 /\ NameOf[peer[s]] = n}
  IN IF found = {} THEN None ELSE peer[Min(found)]

-----------------------------------------------------------------------------
(* Kicks and temporary bans.                                               *)

\* TempBanList::AddIp extends a ban that is there.
AddIp(bans, ip) == [bans EXCEPT ![ip] = @ + TempBanDuration]

\* Mutant: a ban ends one game early.
DecrementDurationEarly(bans) == [ip \in Ips |-> IF bans[ip] < 3 THEN 0 ELSE bans[ip] - 1]

\* TempBanList::decrementDuration
DecrementDuration(bans) == [ip \in Ips |-> IF bans[ip] < 2 THEN 0 ELSE bans[ip] - 1]

\* Server.KickTempBanPlayer n.  The engine's BootPlayer may refuse, and does
\* for the host; a booted machine is out of the membership.
KickTempBanPlayer(n) ==
  LET m == FindPlayerByName(n)
  IN \/ /\ m \notin {None, Host}
        /\ peer' = [s \in Peers |-> IF peer[s] = m THEN None ELSE peer[s]]
        /\ player' = [i \in Players |-> IF player[i] = m THEN None ELSE player[i]]
        /\ ipAddresses' = AddIp(ipAddresses, IpOf[m])
        /\ gamesOut' = [gamesOut EXCEPT ![m] = 0]
     \/ UNCHANGED <<peer, player, ipAddresses, gamesOut>>

-----------------------------------------------------------------------------
(* AbstractChatCommand.                                                    *)

NoVote == [currentlyVoting |-> FALSE, elapsed |-> NotSet, yesVoters |-> <<>>,
           votesNeeded |-> 0, playerName |-> NoName]

isEnabled(c) == enabled[EnabledBy(c)]

\* What a message after "!" can ask for: a command with its argument, or "yes".
\* kickIndex takes a player index, an argument that is none (a word or a number
\* outside 0..15) or a number std::stoi has no room for.
NotAnIndex == -1
OutOfRange == -2
Arguments(c) ==
  CASE c = "kick"      -> Names
    [] c = "kickIndex" -> Players \cup {NotAnIndex, OutOfRange}
    [] OTHER           -> {NoName}

Kicks == Commands \cap {"kick", "kickIndex"}

\* Mutant: the host's index is not looked at.
SelectedHostToo(c, arg) ==
  CASE c = "kick" ->
         LET named == {s \in Peers : PeerPlayer(s) # -1 /\ NameOf[peer[s]] = arg}
         IN IF named = {} THEN {} ELSE {peer[Max(named)]}
    [] c = "kickIndex" -> IF arg \notin Players THEN {} ELSE {player[arg]} \ {None}
    [] OTHER -> {None}

\* isValidArgument: the machine a valid argument selects, None for a command that
\* has no target; {} when the argument is refused.  kick looks at the last player
\* with the name, kickIndex at the index itself.
Selected(c, arg) ==
  CASE c = "kick" ->
         LET named == {s \in Peers : PeerPlayer(s) # -1 /\ NameOf[peer[s]] = arg}
         IN IF named = {} \/ (PeerPlayer(Max(named)) = 0 /\ ~Dedicated) THEN {}
            ELSE {peer[Max(named)]}
    [] c = "kickIndex" ->
         IF arg \notin Players \/ (arg = 0 /\ ~Dedicated) THEN {}
         ELSE {player[arg]} \ {None}
    [] OTHER -> {None}

\* All that is kept of the machine a vote is started against.
PlayerName(m) == IF m = None THEN NoName ELSE NameOf[m]

\* Mutant: the time of the first vote is never renewed.
AddToVoteTimesOnce(times, uid) ==
  IF times[uid] = NotSet THEN [times EXCEPT ![uid] = 0] ELSE times

\* addToVoteTimes, when it returns true.
AddToVoteTimes(times, uid) == [times EXCEPT ![uid] = 0]

MayStartVote(uid) == voteTimes[uid] = NotSet \/ voteTimes[uid] >= Cooldown

\* Mutants: the caller is not counted as a voter of their own; the percentage
\* is taken for a number.
VotesNeededNumber(n) == 1 + (n - 1) * VotePassPercentage
VotesNeededWithoutCaller(n) == ((n - 1) * VotePassPercentage) \div 100

\* votesNeeded for n players.
VotesNeeded(n) == 1 + ((n - 1) * VotePassPercentage) \div 100

\* isValidArgument catches what std::stoi throws for a word that is no number, and
\* not what it throws for a number out of range.
Throws(c, arg) == c = "kickIndex" /\ arg = OutOfRange

\* processMessage of command c from peer s: start a vote unless the argument is
\* refused or the caller started one a moment ago.
ProcessMessage(c, s, arg) ==
  /\ isEnabled(c) /\ ~Throws(c, arg)
  /\ \E m \in Selected(c, arg), uid \in SenderUid(s), n \in NumbersOfPlayersInGame :
       IF MayStartVote(uid)
         THEN /\ voteTimes' = AddToVoteTimes(voteTimes, uid)
              /\ vote' = [vote EXCEPT ![c] =
                   [@ EXCEPT !.currentlyVoting = TRUE, !.elapsed = 0,
                             !.playerName = PlayerName(m), !.votesNeeded = VotesNeeded(n)]]
              /\ said' = {} /\ electorate' = n /\ target' = m /\ asked' = None
              /\ lastStart' = [lastStart EXCEPT ![peer[s]] = 0]
         ELSE /\ vote' = [vote EXCEPT ![c].playerName = PlayerName(m)]
              /\ UNCHANGED <<voteTimes, said, electorate, target, asked, lastStart>>
  /\ UNCHANGED <<lifecycle, peer, player, ipAddresses, gamesOut>>

\* The exception is caught nowhere, which ends the program.
ProcessMessageThrows(c, arg) ==
  /\ isEnabled(c) /\ Throws(c, arg)
  /\ lifecycle' = "Crashed"
  /\ UNCHANGED <<peer, player, voteTimes, vote, ipAddresses, historyVars>>

\* Mutants: the voters of an ended vote are kept; the vote stays in progress.
EndVotingKeepsVoters(v) == [NoVote EXCEPT !.yesVoters = v.yesVoters]
EndVotingKeepsFlag(v) == [NoVote EXCEPT !.currentlyVoting = v.currentlyVoting]

\* doOnVotePass or doOnVoteFail has cleared playerName; endVoting the rest.
EndVoting(v) == NoVote

\* doOnVotePass: a kick, or game.stop or server.shuffleteams, which change
\* nothing that is modelled here.
DoOnVotePass(c) ==
  IF c \in {"kick", "kickIndex"}
    THEN /\ KickTempBanPlayer(vote[c].playerName)
         /\ asked' = FindPlayerByName(vote[c].playerName)
    ELSE UNCHANGED <<peer, player, ipAddresses, gamesOut, asked>>

\* Mutant: nobody is told "You cannot vote twice."
NeverVoted(v, uid) == FALSE

\* uid is in yesVoters.
AlreadyVoted(v, uid) == \E i \in 1..Len(v.yesVoters) : v.yesVoters[i] = uid

\* processVote of command c: "yes" from peer s.
ProcessVote(c, s) ==
  /\ isEnabled(c)
  /\ said' = said \cup {peer[s]}
  /\ \E uid \in SenderUid(s) \ {NoUid} :
       LET yes == Append(vote[c].yesVoters, uid)
       IN IF AlreadyVoted(vote[c], uid)
            THEN UNCHANGED <<vote, peer, player, ipAddresses, gamesOut, asked>>
          ELSE IF Len(yes) >= vote[c].votesNeeded
            THEN /\ DoOnVotePass(c)
                 /\ vote' = [vote EXCEPT ![c] = EndVoting(@)]
            ELSE /\ vote' = [vote EXCEPT ![c].yesVoters = yes]
                 /\ UNCHANGED <<peer, player, ipAddresses, gamesOut, asked>>
  /\ UNCHANGED <<lifecycle, voteTimes, electorate, lastStart, target>>

-----------------------------------------------------------------------------
(* ChatCommandMap.                                                         *)

Voting == {c \in Commands : vote[c].currentlyVoting}

\* A command with an argument from peer s.
CommandFrom(s) ==
  \E c \in Commands : \E arg \in Arguments(c) :
    ProcessMessage(c, s, arg) \/ ProcessMessageThrows(c, arg)

\* handleChatMessage of a message from peer s: "yes" (c is the command being
\* voted on) or a command, which is ignored while a vote is in progress.
HandleChatMessage(s) ==
  /\ Running /\ PeerPlayer(s) # -1
  /\ chatCommandsActive
  /\ \/ \E c \in Voting : ProcessVote(c, s)
     \/ Voting = {} /\ CommandFrom(s)
  /\ UNCHANGED <<chatCommandsActive, enabled>>

\* Tick: each command whose time is over fails.
Tick ==
  /\ Running
  /\ chatCommandsActive
  /\ vote' = [c \in Commands |->
       IF isEnabled(c) /\ vote[c].elapsed # NotSet /\ vote[c].elapsed >= ChatCommandVoteTime
         THEN EndVoting(vote[c]) ELSE vote[c]]
  /\ UNCHANGED <<sessionVars, chatCommandsActive, voteTimes, enabled, ipAddresses, historyVars>>

\* OnEvent for "Game Ended", which does not ask who hosts the game.
GameEndedEvent ==
  /\ ipAddresses' = DecrementDuration(ipAddresses)
  /\ voteTimes' = [u \in Uids \cup {NoUid} |-> NotSet]
  /\ chatCommandsActive' = FALSE
  /\ vote' = [c \in Commands |-> IF vote[c].currentlyVoting THEN EndVoting(vote[c]) ELSE vote[c]]
  /\ lastStart' = [m \in Machines |-> NotSet]
  /\ gamesOut' = [m \in Machines |->
       IF gamesOut[m] \in {NotSet, TempBanDuration} THEN gamesOut[m] ELSE gamesOut[m] + 1]
  /\ said' = {} /\ electorate' = 0 /\ target' = None /\ asked' = None
  /\ UNCHANGED <<peer, player, enabled>>

GameEnds ==
  /\ lifecycle = "InGame"
  /\ lifecycle' = "PreGame"
  /\ GameEndedEvent

\* eLifeCycleStateStartGame
StartGame ==
  /\ lifecycle = "PreGame"
  /\ lifecycle' = "InGame"
  /\ chatCommandsActive' = TRUE
  /\ UNCHANGED <<peer, player, voteTimes, vote, enabled, ipAddresses, historyVars>>

\* The same two callbacks in a game this machine plays as a client, between two
\* sessions of its own.
ClientGameStarts ==
  /\ lifecycle = "None" /\ ~Dedicated
  /\ chatCommandsActive' = TRUE
  /\ UNCHANGED <<sessionVars, voteTimes, vote, enabled, ipAddresses, historyVars>>

ClientGameEnds ==
  /\ lifecycle = "None" /\ ~Dedicated
  /\ GameEndedEvent
  /\ UNCHANGED lifecycle

\* Server.ChatCommand...Enabled is changed.
SetEnabled(e) ==
  /\ lifecycle # "Crashed"
  /\ enabled' = [enabled EXCEPT ![e] = ~@]
  /\ UNCHANGED <<sessionVars, chatCommandsActive, voteTimes, vote, ipAddresses, historyVars>>

\* Server.KickTempBanPlayer typed into the server's own console, which runs it on
\* the game thread.  (rcon's runs beside the game thread: see Console.)
OperatorKick(n) ==
  /\ Running
  /\ KickTempBanPlayer(n)
  /\ UNCHANGED <<lifecycle, chatCommandsActive, voteTimes, vote, enabled, said, electorate,
                 lastStart, target, asked>>

-----------------------------------------------------------------------------
(* The engine.                                                             *)

CreateSession ==
  /\ lifecycle = "None"
  /\ lifecycle' = "PreGame"
  /\ peer' = [peer EXCEPT ![0] = Host]
  /\ player' = IF Dedicated THEN player ELSE [player EXCEPT ![0] = Host]
  /\ UNCHANGED <<chatCommandsActive, voteTimes, vote, enabled, ipAddresses, historyVars>>

\* The host leaves, in a game too; the engine then reports no end of the game.
LeaveSession ==
  /\ Running
  /\ lifecycle' = "None"
  /\ peer' = [s \in Peers |-> None]
  /\ player' = [i \in Players |-> None]
  /\ UNCHANGED <<chatCommandsActive, voteTimes, vote, enabled, ipAddresses, historyVars>>

\* A join request from an address that is not banned; the machine gets the first
\* free peer index and the first free player index.
HandleJoinRequest(m) ==
  /\ Running
  /\ m \notin InSession \cup {Host}
  /\ ipAddresses[IpOf[m]] = 0
  /\ \E i \in Players : player[i] = None
  /\ peer' = [peer EXCEPT ![Min({s \in Peers : peer[s] = None})] = m]
  /\ player' = [player EXCEPT ![Min({i \in Players : player[i] = None})] = m]
  /\ UNCHANGED <<lifecycle, chatCommandsActive, voteTimes, vote, enabled, ipAddresses,
                 historyVars>>

PlayerLeaves(m) ==
  /\ Running
  /\ m \in InSession \ {Host}
  /\ peer' = [s \in Peers |-> IF peer[s] = m THEN None ELSE peer[s]]
  /\ player' = [i \in Players |-> IF player[i] = m THEN None ELSE player[i]]
  /\ UNCHANGED <<lifecycle, chatCommandsActive, voteTimes, vote, enabled, ipAddresses,
                 historyVars>>

\* A second passes; times are not told apart beyond the one they are compared to.
Later(t, bound) == IF t = NotSet \/ t >= bound THEN t ELSE t + 1

Clock ==
  /\ vote' = [c \in Commands |-> [vote[c] EXCEPT !.elapsed = Later(@, ChatCommandVoteTime)]]
  /\ voteTimes' = [u \in Uids \cup {NoUid} |-> Later(voteTimes[u], Cooldown)]
  /\ lastStart' = [m \in Machines |-> Later(lastStart[m], Cooldown)]
  /\ UNCHANGED <<sessionVars, chatCommandsActive, enabled, ipAddresses, said, electorate,
                 gamesOut, target, asked>>

-----------------------------------------------------------------------------
Init ==
  /\ lifecycle = "None"
  /\ peer = [s \in Peers |-> None]
  /\ player = [i \in Players |-> None]
  /\ chatCommandsActive = FALSE
  /\ voteTimes = [u \in Uids \cup {NoUid} |-> NotSet]
  /\ vote = [c \in Commands |-> NoVote]
  /\ enabled = [e \in EnablingVariables |-> TRUE]
  /\ ipAddresses = [ip \in Ips |-> 0]
  /\ said = {} /\ electorate = 0
  /\ lastStart = [m \in Machines |-> NotSet]
  /\ gamesOut = [m \in Machines |-> NotSet]
  /\ target = None /\ asked = None

Next ==
  \/ \E s \in Peers : HandleChatMessage(s)
  \/ Tick
  \/ GameEnds
  \/ StartGame
  \/ ClientGameStarts
  \/ ClientGameEnds
  \/ \E e \in Toggles : SetEnabled(e)
  \/ \E n \in Names : OperatorKick(n)
  \/ CreateSession
  \/ LeaveSession
  \/ \E m \in Machines : HandleJoinRequest(m)
  \/ \E m \in Machines : PlayerLeaves(m)
  \/ Clock

Spec == Init /\ [][Next]_vars

\* The frame loop calls Tick again and again, and time passes.
FairSpec == Spec /\ WF_vars(Tick) /\ WF_vars(Clock)

-----------------------------------------------------------------------------
(* Properties.                                                             *)

\* Each variable keeps to the values the code gives it.
TypeOK ==
  /\ lifecycle \in {"None", "PreGame", "InGame", "Crashed"}
  /\ peer \in [Peers -> Machines \cup {None}]
  /\ player \in [Players -> Machines \cup {None}]
  /\ chatCommandsActive \in BOOLEAN
  /\ voteTimes \in [Uids \cup {NoUid} -> {NotSet} \cup 0..Cooldown]
  /\ vote \in [Commands ->
       [currentlyVoting : BOOLEAN, elapsed : {NotSet} \cup 0..ChatCommandVoteTime,
        yesVoters : Seq(Uids), votesNeeded : 0..MaxPlayers,
        playerName : Names \cup {NoName}]]
  /\ enabled \in [EnablingVariables -> BOOLEAN]
  /\ ipAddresses \in [Ips -> Nat]
  /\ said \subseteq Machines /\ electorate \in Nat
  /\ lastStart \in [Machines -> {NotSet} \cup 0..Cooldown]
  /\ gamesOut \in [Machines -> {NotSet} \cup 0..TempBanDuration]
  /\ target \in Machines \cup {None} /\ asked \in Machines \cup {None}

\* At most one vote is in progress, and one that is not has left no voter and
\* no clock behind for the next.
OneCleanVote ==
  /\ Cardinality(Voting) <= 1
  /\ \A c \in Commands \ Voting :
       vote[c].yesVoters = <<>> /\ vote[c].elapsed = NotSet /\ vote[c].votesNeeded = 0

\* A vote passes only when more than VotePassPercentage of the players other than
\* its caller, counted when it started, have said yes themselves.  (The division is
\* rounded down and the caller's own yes counts, so this can be fewer than the
\* percentage of all: at 60 percent one of two is enough.)
PassedByPercentage ==
  [][\A c \in Voting :
       (\E s \in Peers : HandleChatMessage(s)) /\ ~vote'[c].currentlyVoting
         => Cardinality(said') * 100 > VotePassPercentage * (electorate - 1)]_vars

\* A yes that counts is the first of its machine in this vote: "You cannot vote
\* twice."
NobodyVotesTwice ==
  [][\A c \in Voting :
       (\E s \in Peers : HandleChatMessage(s)) /\ vote' # vote => said' # said]_vars

\* A player does not start two votes of a game within the cooldown.
StartsAreSpaced ==
  [][\A m \in Machines :
       lastStart[m] # NotSet /\ lastStart'[m] = 0 /\ lastStart[m] # 0
         => lastStart[m] >= Cooldown]_vars

\* A machine that was kicked with a temporary ban is not in the session again
\* before TempBanDuration games have ended.
BanLastsItsGames ==
  \A m \in InSession : gamesOut[m] \in {NotSet, TempBanDuration}

\* Whom the engine is asked to boot when a vote passes has the name of the machine
\* the vote was started against, and that was not the host: whatever was typed
\* meanwhile, whoever came and went, and although the name is looked up by another
\* rule than when the vote started.  (Where a name is shared it can be another
\* machine than the target, even the host: "You cannot kick the host" compares the
\* target's index, and the vote keeps the name alone.)
KickHitsItsTarget ==
  asked # None => target \notin {Host, None} /\ NameOf[asked] = NameOf[target]

\* A vote comes to an end while its command stays enabled and the host stays in a
\* session.  (A vote whose command is switched off waits, longer than the seconds
\* ChatCommandVoteTime gives, and takes part again when it is switched on.)
VoteEnds ==
  \A c \in Commands :
    vote[c].currentlyVoting ~> (~vote[c].currentlyVoting \/ ~isEnabled(c) \/ ~Running)
=============================================================================
