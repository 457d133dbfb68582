---------------------------- MODULE VotingSession ----------------------------
(***************************************************************************)
(* The map vote of a whole session: the host of VotingSystem, the packets  *)
(* of Server/VotingPackets.cpp and the voting screen of every player       *)
(* (Web/Ui/VotingScreen.cpp and its page voting.js).                       *)
(*                                                                         *)
(* Every host action is the one of VotingSystem together with the message  *)
(* it broadcasts.  A message reaches a machine through its channel, which  *)
(* the engine (external) keeps reliable and in order and drops when the    *)
(* player leaves.  Players are the players on other machines than the      *)
(* host's: a host that plays hands its messages to its own screen without  *)
(* a packet, and its screen is left out.  A machine is a peer with one     *)
(* player here: the moment in which a machine is a peer and its player is  *)
(* not yet in the membership is left out.                                  *)
(***************************************************************************)
EXTENDS VotingSystem

CONSTANTS
  LocalPlayer,      \* the player on the host's own machine, if there is one
  MaxInFlight,      \* bound on the messages in flight to one player
  MaxVotesInFlight  \* bound on the votes in flight from one player

ASSUME LocalAssumption  == LocalPlayer \notin Players
ASSUME FlightAssumption == MaxInFlight \in Nat \ {0} /\ MaxVotesInFlight \in Nat \ {0}

VARIABLES
  toClient,      \* the messages in flight to each player
  toHost,        \* the votes in flight from each player
  screen,        \* the voting screen of each player
  yetToStart,    \* the players whose machine has not followed into the game
  quietBecause   \* history: "nothing", or "a reason" since something happened
                 \* after which no ballot need have been drawn

packetVars == <<toClient, toHost>>
sessionVars == <<packetVars, screen, yetToStart, quietBecause>>
allVars == <<vars, sessionVars>>

-----------------------------------------------------------------------------
(* Messages.                                                               *)

NoMessage == [type |-> "none"]

\* The display names a packet carries of an option; StartVoting gives Revote one.
Shown(o) == IF o = NoOption THEN <<"Revote", "">> ELSE DisplayOf(o)

\* GenerateVotingOptionsMessage: what is displayed of each option, in order.
VotingOptions(options) ==
  [type |-> "VotingOptions",
   ballot |-> [i \in 1..Len(options) |-> Shown(options[i].option)]]

\* Mutant: the position after sorting instead of the number on the ballot.
WinnerAtPosition(options) ==
  [type |-> "Winner", winner |-> Len(options), chosen |-> Shown(options[Len(options)].option)]

\* The message of findWinner.  "chosen" is not in the packet: it is how the
\* option looks that goes to Game.Map and Game.GameType, kept to compare with.
Winner(options) ==
  [type |-> "Winner", winner |-> options[Len(options)].index,
   chosen |-> Shown(options[Len(options)].option)]

\* Mutant: the count before this vote.
VoteTallyBefore(options, votes) ==
  [type |-> "VoteTally", votes |-> [i \in 1..Len(options) |-> VotesFor(mapVotes, i)]]

\* The message of LogVote: the counts the ballot has before they are set back.
VoteTally(options, votes) ==
  [type |-> "VoteTally",
   votes |-> [i \in 1..Len(options) |-> CountVotes(options, votes)[i].Count]]

\* A tally none of whose numbers is displayed.
Blank == <<>>

EmptyScreen ==
  [shown |-> FALSE, ballot |-> <<>>, tally |-> Blank, winner |-> 0, selected |-> 0]

\* Mutant: the page keeps the old ballot's selection.
MessageReceivedKeepsSelection(s, m) ==
  CASE m.type = "VotingOptions" ->
         [s EXCEPT !.shown = TRUE, !.ballot = m.ballot, !.tally = Blank, !.winner = 0]
    [] m.type = "Winner"    -> [s EXCEPT !.winner = m.winner]
    [] m.type = "VoteTally" -> [s EXCEPT !.tally = m.votes]
    [] OTHER -> s

\* VotingOutputHandler::MessageReceived and what the page does with the event:
\* new options rebuild the page, the other two mark what is displayed.
MessageReceived(s, m) ==
  CASE m.type = "VotingOptions" ->
         [shown |-> TRUE, ballot |-> m.ballot, tally |-> Blank, winner |-> 0,
          selected |-> 0]
    [] m.type = "Winner"    -> [s EXCEPT !.winner = m.winner]
    [] m.type = "VoteTally" -> [s EXCEPT !.tally = m.votes]
    [] OTHER -> s

\* BroadcastVotingMessage: one packet to every peer.
BroadcastVotingMessage(m) ==
  toClient' = [p \in Players |->
                 IF p \in players /\ m # NoMessage
                   THEN Append(toClient[p], m) ELSE toClient[p]]

\* No channel is at its bound.
Room == \A p \in Players : Len(toClient[p]) < MaxInFlight

-----------------------------------------------------------------------------
(* The host's steps with what they send.                                   *)

\* Tick passes StartVoting, and the draw succeeds.
TickDraws ==
  /\ gameThread' = "running"
  /\ \/ idle /\ ~idle' /\ mapName = "mainmenu"
     \/ ~idle /\ players # {} /\ revoteFlag

\* Tick chooses a winner.
TickChooses ==
  ~TickDraws /\ selected' # NoOption /\ winnerElapsed = NotSet /\ winnerElapsed' = 0

\* Game.Start was due and SetSessionMode refused it.
StartRefused ==
  /\ ~idle /\ players # {} /\ winnerElapsed > TimeBetweenVoteEndAndGameStart
  /\ ~startRequested'

HostTick ==
  /\ Room /\ Tick
  /\ BroadcastVotingMessage(
       IF TickDraws THEN VotingOptions(currentVotingOptions')
       ELSE IF TickChooses THEN Winner(currentVotingOptions') ELSE NoMessage)
  /\ quietBecause' = IF TickDraws THEN "nothing"
                     ELSE IF StartRefused THEN "a reason" ELSE quietBecause
  /\ UNCHANGED <<toHost, screen, yetToStart>>

\* The early returns of LogVote.
VoteRefused(vote) ==
  ~VotingActive \/ voteElapsed = NotSet \/ vote > numOptions + 1

\* ReceivedVotingMessage for a Vote of a player: logged or refused, never handed
\* on to the screens.
ReceivedVote(p, vote) ==
  \/ LogVote(p, vote) /\ BroadcastVotingMessage(VoteTally(currentVotingOptions, mapVotes'))
  \/ VoteRefused(vote) /\ UNCHANGED <<vars, toClient>>

HostReceivesVote(p) ==
  /\ gameThread = "running" /\ toHost[p] # <<>> /\ Room
  /\ ReceivedVote(p, Head(toHost[p]))
  /\ toHost' = [toHost EXCEPT ![p] = Tail(@)]
  /\ UNCHANGED <<screen, yetToStart, quietBecause>>

\* The commands of the operator; none of them sends anything.
HostOperator ==
  /\ \/ CancelVoteInProgress
     \/ \E doc \in VotingJsons : Enable(doc)
     \/ Disable
  /\ quietBecause' = "a reason"
  /\ UNCHANGED <<packetVars, screen, yetToStart>>

HostSetsNumberOfVotingOptions ==
  /\ \E n \in OptionCounts : SetNumberOfVotingOptions(n)
  /\ UNCHANGED sessionVars

\* StartNewVote has drawn a ballot in this step.
NewVoteDraws(est) == est /\ votingEnabled /\ ~idle /\ gameThread' = "running"

HostCreatesSession(online, est, bound) ==
  /\ CreateSession(online, est, bound)
  /\ BroadcastVotingMessage(IF online /\ ~infoSocketOpen /\ NewVoteDraws(est)
                              THEN VotingOptions(currentVotingOptions') ELSE NoMessage)
  /\ quietBecause' = IF online /\ est THEN "nothing" ELSE "a reason"
  /\ UNCHANGED <<toHost, screen, yetToStart>>

MenuLoads ==
  /\ Room /\ MapLoaded
  /\ BroadcastVotingMessage(IF infoSocketOpen /\ NewVoteDraws(hosting)
                              THEN VotingOptions(currentVotingOptions') ELSE NoMessage)
  /\ quietBecause' = CASE ~infoSocketOpen -> "a reason"
                       [] infoSocketOpen /\ votingEnabled -> "nothing"
                       [] infoSocketOpen /\ ~votingEnabled -> quietBecause
  /\ UNCHANGED <<toHost, screen, yetToStart>>

HostLeaves == LeaveSession /\ UNCHANGED sessionVars

\* The session is gone with its channels.
SessionCloses ==
  /\ SessionGone
  /\ toClient' = [p \in Players |-> <<>>] /\ toHost' = [p \in Players |-> <<>>]
  /\ yetToStart' = {}
  /\ UNCHANGED <<screen, quietBecause>>

HostStartsGame ==
  /\ StartGame
  /\ yetToStart' = players
  /\ UNCHANGED <<packetVars, screen, quietBecause>>

HostGameGoesOn == (GameRuns \/ GameEnds) /\ UNCHANGED sessionVars

\* Mutant: who joins a vote in progress is told nothing.
NothingForJoiner(p) == NoMessage

\* PlayerJoinedVoteInProgress: the ballot as it is, to that player only, unless
\* it is the local one.
MessageForJoiner(p) ==
  IF VotingActive /\ voteElapsed # NotSet /\ p # LocalPlayer
    THEN VotingOptions(currentVotingOptions) ELSE NoMessage

SendTo(p, m) == IF m = NoMessage THEN toClient[p] ELSE Append(toClient[p], m)

Joins(p) ==
  /\ PlayerJoins(p)
  /\ toClient' = [toClient EXCEPT ![p] = SendTo(p, MessageForJoiner(p))]
  /\ UNCHANGED <<toHost, screen, yetToStart, quietBecause>>

\* A player's properties are applied again, which counts as joining.
UpdatesProperties(p) ==
  /\ gameThread = "running" /\ p \in players /\ Room
  /\ MessageForJoiner(p) # NoMessage
  /\ toClient' = [toClient EXCEPT ![p] = SendTo(p, MessageForJoiner(p))]
  /\ UNCHANGED <<vars, toHost, screen, yetToStart, quietBecause>>

Leaves(p) ==
  /\ PlayerLeaves(p)
  /\ toClient' = [toClient EXCEPT ![p] = <<>>]
  /\ toHost' = [toHost EXCEPT ![p] = <<>>]
  /\ yetToStart' = yetToStart \ {p}
  /\ UNCHANGED <<screen, quietBecause>>

Second == Clock /\ UNCHANGED sessionVars

-----------------------------------------------------------------------------
(* The players' machines.                                                  *)

\* HandlePacket on the machine of p.
ClientReceives(p) ==
  /\ toClient[p] # <<>>
  /\ screen' = [screen EXCEPT ![p] = MessageReceived(@, Head(toClient[p]))]
  /\ toClient' = [toClient EXCEPT ![p] = Tail(@)]
  /\ UNCHANGED <<vars, toHost, yetToStart, quietBecause>>

\* A click on option i: the page marks it and Server.SubmitVote sends it.
SubmitVote(p, i) ==
  /\ p \in players /\ screen[p].shown /\ i \in DOMAIN screen[p].ballot
  /\ Len(toHost[p]) < MaxVotesInFlight
  /\ screen' = [screen EXCEPT ![p].selected = i]
  /\ toHost' = [toHost EXCEPT ![p] = Append(@, i)]
  /\ UNCHANGED <<vars, toClient, yetToStart, quietBecause>>

\* The close button of the page.  (Where the host plays it also is
\* Server.CancelVote, see HostOperator.)
CloseScreen(p) ==
  /\ screen[p].shown
  /\ screen' = [screen EXCEPT ![p].shown = FALSE]
  /\ UNCHANGED <<vars, packetVars, yetToStart, quietBecause>>

\* LifeCycleStateChanged on the machine of p, which follows the host into the game.
ClientStartsGame(p) ==
  /\ p \in yetToStart
  /\ yetToStart' = yetToStart \ {p}
  /\ screen' = [screen EXCEPT ![p].shown = FALSE]
  /\ UNCHANGED <<vars, packetVars, quietBecause>>

-----------------------------------------------------------------------------
SessionInit ==
  /\ Init
  /\ toClient = [p \in Players |-> <<>>] /\ toHost = [p \in Players |-> <<>>]
  /\ screen = [p \in Players |-> EmptyScreen]
  /\ yetToStart = {}
  /\ quietBecause = "nothing"

HostStep ==
  \/ HostTick \/ HostOperator \/ HostSetsNumberOfVotingOptions
  \/ \E online, est, bound \in BOOLEAN : HostCreatesSession(online, est, bound)
  \/ MenuLoads \/ HostLeaves \/ SessionCloses \/ HostStartsGame \/ HostGameGoesOn
  \/ Second

PlayerStep(p) ==
  \/ Joins(p) \/ UpdatesProperties(p) \/ Leaves(p)
  \/ HostReceivesVote(p) \/ ClientReceives(p)
  \/ \E i \in Votes : SubmitVote(p, i)
  \/ CloseScreen(p) \/ ClientStartsGame(p)

SessionNext == HostStep \/ \E p \in Players : PlayerStep(p)

SessionSpec == SessionInit /\ [][SessionNext]_allVars

-----------------------------------------------------------------------------
(* Properties.                                                             *)

\* Nothing is on its way to player p.
UpToDate(p) == p \in players /\ toClient[p] = <<>>

\* During a vote everybody in the session who has nothing left to receive is
\* looking at the ballot the host counts for, however the vote was started and
\* whenever they joined.
ScreenShowsBallot ==
  voteElapsed # NotSet =>
    \A p \in Players : UpToDate(p) =>
      screen[p].ballot = [i \in 1..Len(currentVotingOptions) |->
                            Shown(currentVotingOptions[i].option)]

\* The tally a screen displays during a vote is the host's count.  (StartNewVote
\* clears the votes before a draw that may never end.)
TallyIsCurrent ==
  voteElapsed # NotSet /\ gameThread = "running" =>
    \A p \in Players : UpToDate(p) /\ screen[p].tally # Blank =>
      screen[p].tally = [i \in 1..Len(currentVotingOptions) |-> VotesFor(mapVotes, i)]

\* A selection that is displayed during a vote is the vote the host has logged,
\* once nothing is on its way in either direction.  (With the number of options
\* left alone: see SetNumberOfVotingOptions.)
SelectionIsCounted ==
  voteElapsed # NotSet /\ gameThread = "running" =>
    \A p \in Players : UpToDate(p) /\ toHost[p] = <<>> /\ screen[p].selected # 0 =>
      mapVotes[NameOf[p]] = screen[p].selected

\* The option a screen marks as the winner is the one the host has given to
\* Game.Map and Game.GameType: the number survives the sort of findWinner.
WinnerIsMarked ==
  [][\A p \in Players :
       toClient[p] # <<>> /\ toClient'[p] = Tail(toClient[p]) /\ p \in players'
         /\ Head(toClient[p]).type = "Winner" =>
       screen'[p].ballot[screen'[p].winner] = Head(toClient[p]).chosen]_allVars

\* A lobby with players in which nothing is under way has been brought there by
\* the operator, by a refused Game.Start, by a session created before the
\* engine counted it as established or offline, or by an info server that found
\* no port; the vote itself never just stops.
LobbyIsQuietForAReason ==
  /\ hosting /\ lifecycle = "PreGame" /\ menuLoaded /\ votingEnabled
  /\ ~idle /\ players # {} /\ gameThread = "running"
  /\ voteElapsed = NotSet /\ winnerElapsed = NotSet /\ ~revoteFlag /\ ~startRequested
  => quietBecause # "nothing"

=============================================================================
