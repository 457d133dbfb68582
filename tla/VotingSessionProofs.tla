-------------------------- MODULE VotingSessionProofs --------------------------
(***************************************************************************)
(* What the players' screens show of a vote, and why a lobby is quiet, for *)
(* all players, pools, times and channel bounds.                           *)
(***************************************************************************)
EXTENDS VotingSession, VotingSystemProofs

-----------------------------------------------------------------------------
(* Types.                                                                  *)

Entries == {Shown(o) : o \in Option \cup {NoOption}}

Messages ==
  [type : {"VotingOptions"}, ballot : Seq(Entries)]
    \cup [type : {"Winner"}, winner : Nat, chosen : Entries]
    \cup [type : {"VoteTally"}, votes : Seq(Nat)]

Screens == [shown : BOOLEAN, ballot : Seq(Entries), tally : Seq(Nat), winner : Nat,
            selected : Nat]

SessionTypeOK ==
  /\ toClient \in [Players -> Seq(Messages)]
  /\ toHost \in [Players -> Seq(Votes)]
  /\ screen \in [Players -> Screens]

\* What is displayed of a ballot is a sequence of options.
LEMMA VotingOptionsType ==
  ASSUME NEW options \in Seq(BallotEntry)
  PROVE  /\ VotingOptions(options) \in Messages
         /\ VotingOptions(options).type = "VotingOptions"
         /\ VotingOptions(options).ballot = [i \in 1..Len(options) |-> Shown(options[i].option)]
         /\ VotingOptions(options) # NoMessage
<1> DEFINE b == [i \in 1..Len(options) |-> Shown(options[i].option)]
<1>1. b \in [1..Len(options) -> Entries]
  <2>1. \A i \in 1..Len(options) : options[i] \in BallotEntry
    OBVIOUS
  <2>2. QED BY <2>1 DEF BallotEntry, Entries
<1>2. Len(options) \in Nat
  OBVIOUS
<1> HIDE DEF b
<1>3. b \in Seq(Entries)
  BY <1>1, <1>2, FunctionIsSequence
<1>4. VotingOptions(options) = [type |-> "VotingOptions", ballot |-> b]
  BY DEF VotingOptions, b
<1>5. VotingOptions(options) # NoMessage
  <2>1. VotingOptions(options).type # NoMessage.type
    BY <1>4 DEF NoMessage
  <2>2. QED BY <2>1
<1> QED BY <1>3, <1>4, <1>5 DEF Messages, b

\* The tally of a clean ballot has the logged votes of every option.
LEMMA VoteTallyType ==
  ASSUME NEW options \in Seq(BallotEntry), NEW votes,
         \A i \in 1..Len(options) : options[i].Count = 0
  PROVE  /\ VoteTally(options, votes) \in Messages
         /\ VoteTally(options, votes).type = "VoteTally"
         /\ VoteTally(options, votes).votes = [i \in 1..Len(options) |-> VotesFor(votes, i)]
         /\ VoteTally(options, votes) # NoMessage
<1> DEFINE t == [i \in 1..Len(options) |-> CountVotes(options, votes)[i].Count]
           tally(i) == VotesFor(votes, i)
           u == [i \in 1..Len(options) |-> tally(i)]
<1>1. \A i \in 1..Len(options) : CountVotes(options, votes)[i].Count = 0 + tally(i)
  BY CountVotesType
<1>2. \A i \in 1..Len(options) : tally(i) \in Nat
  BY VotesForType
<1> HIDE DEF tally
<1>3. \A i \in 1..Len(options) : CountVotes(options, votes)[i].Count = tally(i)
  BY <1>1, <1>2
<1>4. t = u
  BY <1>3
<1>5. u \in [1..Len(options) -> Nat]
  BY <1>2
<1>6. Len(options) \in Nat
  OBVIOUS
<1>7. VoteTally(options, votes) = [type |-> "VoteTally", votes |-> t]
  BY DEF VoteTally
<1> HIDE DEF t, u
<1>8. u \in Seq(Nat)
  BY <1>5, <1>6, FunctionIsSequence
<1>9. VoteTally(options, votes) # NoMessage
  <2>1. VoteTally(options, votes).type # NoMessage.type
    BY <1>7 DEF NoMessage
  <2>2. QED BY <2>1
<1> QED BY <1>4, <1>7, <1>8, <1>9 DEF Messages, u, tally

\* A screen stays a screen whatever message it receives.
LEMMA MessageReceivedType ==
  ASSUME NEW s \in Screens, NEW m \in Messages
  PROVE  /\ MessageReceived(s, m) \in Screens
         /\ m.type = "VotingOptions" =>
              /\ MessageReceived(s, m).ballot = m.ballot
              /\ MessageReceived(s, m).tally = Blank
              /\ MessageReceived(s, m).selected = 0
         /\ m.type = "Winner" =>
              /\ MessageReceived(s, m).ballot = s.ballot
              /\ MessageReceived(s, m).tally = s.tally
              /\ MessageReceived(s, m).selected = s.selected
              /\ MessageReceived(s, m).winner = m.winner
         /\ m.type = "VoteTally" =>
              /\ MessageReceived(s, m).ballot = s.ballot
              /\ MessageReceived(s, m).tally = m.votes
              /\ MessageReceived(s, m).selected = s.selected
         /\ m.type \in {"VotingOptions", "Winner", "VoteTally"}
<1>1. CASE m \in [type : {"VotingOptions"}, ballot : Seq(Entries)]
  BY <1>1 DEF Screens, MessageReceived, Blank
<1>2. CASE m \in [type : {"Winner"}, winner : Nat, chosen : Entries]
  BY <1>2 DEF Screens, MessageReceived
<1>3. CASE m \in [type : {"VoteTally"}, votes : Seq(Nat)]
  BY <1>3 DEF Screens, MessageReceived
<1> QED BY <1>1, <1>2, <1>3 DEF Messages

-----------------------------------------------------------------------------
(* The steps of the host, as the screens can tell them apart.              *)

\* One packet to every player of the session.
Sends(m) ==
  toClient' = [p \in Players |->
                 IF p \in players THEN Append(toClient[p], m) ELSE toClient[p]]

\* A ballot is drawn and sent.
HostDraws ==
  /\ voteElapsed' # NotSet
  /\ currentVotingOptions' \in Seq(BallotEntry)
  /\ Len(currentVotingOptions') <= numOptions + 1 /\ numOptions' = numOptions
  /\ Sends(VotingOptions(currentVotingOptions'))
  /\ UNCHANGED <<players, toHost, screen>>

\* A vote ends, and the number and the option of its winner are sent.
HostChooses ==
  /\ voteElapsed # NotSet /\ voteElapsed' = NotSet
  /\ \E k \in 1..Len(currentVotingOptions) :
       Sends([type |-> "Winner", winner |-> k, chosen |-> Shown(currentVotingOptions[k].option)])
  /\ UNCHANGED <<players, toHost, screen>>

\* Nothing is sent: the vote that runs afterwards, if any, has been running with
\* the same ballot and, unless the thread has stopped, the same votes.
HostIsSilent ==
  /\ voteElapsed' # NotSet =>
       /\ voteElapsed # NotSet /\ currentVotingOptions' = currentVotingOptions
       /\ gameThread' = "running" => gameThread = "running" /\ mapVotes' = mapVotes
  /\ UNCHANGED <<players, toClient, toHost, screen>>

\* The session is gone.
HostCloses ==
  /\ voteElapsed' = NotSet /\ players' = {}
  /\ toClient' = [p \in Players |-> <<>>] /\ toHost' = [p \in Players |-> <<>>]
  /\ UNCHANGED screen

HostKinds == HostDraws \/ HostChooses \/ HostIsSilent \/ HostCloses

\* BroadcastVotingMessage sends a message, and nothing when there is none.
LEMMA Broadcasts ==
  ASSUME SessionTypeOK, NEW m, BroadcastVotingMessage(m)
  PROVE  /\ m # NoMessage => Sends(m)
         /\ m = NoMessage => toClient' = toClient
BY DEF SessionTypeOK, BroadcastVotingMessage, Sends

\* A draw that leaves the thread running opens a vote with at most one option
\* more than the operator asked for.
LEMMA DrawOpens ==
  ASSUME TypeOK, NEW used \in Nat, StartVoting(used), gameThread' = "running"
  PROVE  /\ voteElapsed' = 0 /\ gameThread' = gameThread
         /\ currentVotingOptions' \in Seq(BallotEntry)
         /\ Len(currentVotingOptions') <= numOptions + 1
<1>1. /\ voteElapsed' = 0 /\ gameThread' = gameThread
      /\ BallotFor(currentVotingOptions', used)
  BY StartVotingStep
<1>2. PICK b \in Ballots(numOptions) :
        currentVotingOptions' = BallotOptions(b, numOptions, used)
  BY <1>1, Zenon DEF StartVoting
<1>3. numOptions \in Nat
  BY OptionsAssumption DEF TypeOK
<1>4. Len(BallotOptions(b, numOptions, used)) <= numOptions + 1
  <2> DEFINE drawn == [i \in 1..numOptions |->
                         [option |-> b[i], index |-> i, isRevoteOption |-> FALSE, Count |-> 0]]
             revote == [option |-> NoOption, index |-> numOptions + 1,
                        isRevoteOption |-> TRUE, Count |-> 0]
  <2>1. BallotOptions(b, numOptions, used) \in {Append(drawn, revote), drawn}
    BY DEF BallotOptions
  <2>2. /\ drawn \in Seq({drawn[i] : i \in 1..numOptions})
        /\ Len(drawn) = numOptions
    <3>1. drawn \in [1..numOptions -> {drawn[i] : i \in 1..numOptions}]
      OBVIOUS
    <3> HIDE DEF drawn
    <3>2. QED BY <1>3, <3>1, FunctionIsSequence
  <2> HIDE DEF drawn, revote
  <2>3. Len(Append(drawn, revote)) = numOptions + 1
    BY <2>2
  <2> QED BY <1>3, <2>1, <2>2, <2>3
<1> QED BY <1>1, <1>2, <1>4 DEF BallotFor

\* The same for a handler that starts a vote of its own.
LEMMA NewVoteKinds ==
  ASSUME VotingInv, gameThread = "running", NEW est, StartNewVote(est)
  PROVE  \/ /\ est /\ votingEnabled /\ ~idle /\ gameThread' = "running"
            /\ voteElapsed' = 0
            /\ currentVotingOptions' \in Seq(BallotEntry)
            /\ Len(currentVotingOptions') <= numOptions + 1
         \/ /\ ~(est /\ votingEnabled /\ ~idle /\ gameThread' = "running")
            /\ voteElapsed' # NotSet =>
                 /\ voteElapsed # NotSet /\ currentVotingOptions' = currentVotingOptions
                 /\ gameThread' = "running" => gameThread = "running" /\ mapVotes' = mapVotes
<1>1. TypeOK
  BY DEF VotingInv
<1>2. CASE ~(est /\ votingEnabled)
  BY <1>2 DEF StartNewVote, voteVars
<1>3. CASE est /\ votingEnabled /\ idle
  BY <1>3 DEF StartNewVote, Reset
<1>4. CASE est /\ votingEnabled /\ ~idle
  <2>1. StartVoting(0)
    BY <1>4 DEF StartNewVote
  <2>2. CASE gameThread' = "running"
    BY <1>1, <1>4, <2>1, <2>2, DrawOpens
  <2>3. CASE gameThread' # "running"
    <3>1. voteElapsed' = voteElapsed /\ currentVotingOptions' = currentVotingOptions
      BY <1>1, <2>1, <2>3, StartVotingStep
    <3>2. QED BY <2>3, <3>1
  <2> QED BY <2>2, <2>3
<1> QED BY <1>2, <1>3, <1>4

\* A frame of the host.
LEMMA TickKinds ==
  ASSUME VotingInv, SessionTypeOK, HostTick
  PROVE  HostKinds
<1>1. /\ TypeOK /\ Tick
      /\ gameThread = "running" /\ UNCHANGED <<players, numOptions, toHost, screen>>
  BY DEF VotingInv, HostTick, Tick, TickWakeUp, TickGoIdle, TickVote, TickGate, engineVars,
         configVars
<1>2. CASE TickDraws
  <2>1. \E used \in Nat : StartVoting(used)
    <3>1. CASE idle /\ ~idle' /\ mapName = "mainmenu"
      <4>1. TickWakeUp
        BY <1>1, <3>1 DEF Tick, TickGoIdle, TickVote
      <4>2. QED BY <1>1, <3>1, <4>1 DEF TickWakeUp, TypeOK
    <3>2. CASE ~idle /\ players # {} /\ revoteFlag
      <4>1. TickVote
        BY <1>1, <3>2 DEF Tick, TickGoIdle, TickWakeUp
      <4>2. winnerElapsed = NotSet
        BY <3>2 DEF VotingInv, WinnerWaitsAlone
      <4>3. QED BY <1>1, <3>2, <4>1, <4>2 DEF TickVote, TypeOK
    <3> QED BY <1>2, <3>1, <3>2 DEF TickDraws
  <2>2. gameThread' = "running"
    BY <1>2 DEF TickDraws
  <2>3. /\ voteElapsed' = 0 /\ currentVotingOptions' \in Seq(BallotEntry)
        /\ Len(currentVotingOptions') <= numOptions + 1
    BY <1>1, <2>1, <2>2, DrawOpens
  <2>4. BroadcastVotingMessage(VotingOptions(currentVotingOptions'))
    BY <1>2 DEF HostTick
  <2>5. Sends(VotingOptions(currentVotingOptions'))
    BY <2>3, <2>4, Broadcasts, VotingOptionsType
  <2> QED BY <1>1, <2>3, <2>5 DEF HostKinds, HostDraws, NotSet
<1>3. CASE ~TickDraws /\ TickChooses
  <2>1. /\ TickVote /\ voteElapsed # NotSet
        /\ FindWinner(numberOfRevotesUsed, mapVotes)
    <3>1. winnerElapsed = NotSet /\ winnerElapsed' # NotSet
      BY <1>3 DEF TickChooses, NotSet
    <3>2. Next
      BY <1>1 DEF Next
    <3>3. QED BY <3>1, <3>2, WinnerAppears
  <2>2. /\ currentVotingOptions \in Seq(BallotEntry) /\ Len(currentVotingOptions) \in 1..5
        /\ \A i \in 1..Len(currentVotingOptions) : currentVotingOptions[i].index = i
    BY <1>1, <2>1 DEF VotingInv, TypeOK, BallotIsClean
  <2> DEFINE counted == CountVotes(currentVotingOptions, mapVotes)
             sorted == Sorted(counted)
  <2>3. PICK k \in 1..Len(currentVotingOptions) : sorted[Len(sorted)] = counted[k]
    BY <2>2, WinningOption
  <2>4. counted[k].index = k /\ counted[k].option = currentVotingOptions[k].option
    BY <2>2, CountVotesType
  <2>5. currentVotingOptions' = sorted /\ voteElapsed' = NotSet
    BY <2>1 DEF FindWinner
  <2> HIDE DEF counted, sorted
  <2>6. Winner(currentVotingOptions')
          = [type |-> "Winner", winner |-> k, chosen |-> Shown(currentVotingOptions[k].option)]
    BY <2>3, <2>4, <2>5 DEF Winner
  <2>7. BroadcastVotingMessage(Winner(currentVotingOptions'))
    BY <1>3 DEF HostTick
  <2>8. Winner(currentVotingOptions') # NoMessage
    <3>1. Winner(currentVotingOptions').type # NoMessage.type
      BY <2>6 DEF NoMessage
    <3>2. QED BY <3>1
  <2>9. Sends([type |-> "Winner", winner |-> k, chosen |-> Shown(currentVotingOptions[k].option)])
    BY <2>6, <2>7, <2>8, Broadcasts
  <2> QED BY <1>1, <2>1, <2>5, <2>9 DEF HostKinds, HostChooses
<1>4. CASE ~TickDraws /\ ~TickChooses
  <2>1. BroadcastVotingMessage(NoMessage)
    BY <1>4 DEF HostTick
  <2>2. toClient' = toClient
    BY <2>1, Broadcasts
  <2>3. ASSUME voteElapsed' # NotSet
        PROVE  /\ voteElapsed # NotSet /\ currentVotingOptions' = currentVotingOptions
               /\ gameThread' = "running" => mapVotes' = mapVotes
    <3>1. CASE TickWakeUp
      <4>1. voteElapsed = NotSet
        BY <3>1 DEF TickWakeUp, VotingInv
      <4>2. mapName = "mainmenu" /\ StartVoting(numberOfRevotesUsed)
        BY <2>3, <3>1, <4>1 DEF TickWakeUp, voteVars
      <4>3. gameThread' # "running"
        BY <1>4, <3>1, <4>2 DEF TickWakeUp, TickDraws
      <4>4. QED BY <1>1, <2>3, <4>1, <4>2, <4>3, StartVotingStep DEF TypeOK
    <3>2. CASE TickGoIdle
      BY <2>3, <3>2 DEF TickGoIdle, Reset
    <3>3. CASE TickVote /\ revoteFlag
      <4>1. winnerElapsed = NotSet
        BY <3>3 DEF VotingInv, WinnerWaitsAlone
      <4>2. StartVoting(numberOfRevotesUsed)
        BY <3>3, <4>1 DEF TickVote
      <4>3. gameThread' # "running"
        BY <1>4, <3>3 DEF TickVote, TickDraws
      <4>4. voteElapsed' = voteElapsed /\ currentVotingOptions' = currentVotingOptions
        BY <1>1, <4>2, <4>3, StartVotingStep DEF TypeOK
      <4> QED BY <2>3, <4>3, <4>4
    <3>4. CASE TickVote /\ ~revoteFlag
      BY <2>3, <3>4 DEF TickVote, FindWinner
    <3> QED BY <1>1, <3>1, <3>2, <3>3, <3>4 DEF Tick
  <2> QED BY <1>1, <2>2, <2>3 DEF HostKinds, HostIsSilent
<1> QED BY <1>2, <1>3, <1>4

\* create_session and the loading of the main menu.
LEMMA NewSessionKinds ==
  ASSUME VotingInv, SessionTypeOK, NEW online \in BOOLEAN, NEW est \in BOOLEAN,
         NEW bound \in BOOLEAN, HostCreatesSession(online, est, bound)
  PROVE  HostKinds
<1>1. /\ gameThread = "running" /\ UNCHANGED <<players, numOptions, toHost, screen>>
  BY DEF HostCreatesSession, CreateSession, configVars
<1>2. CASE online /\ ~infoSocketOpen
  <2>1. StartNewVote(est)
    BY <1>2 DEF HostCreatesSession, CreateSession
  <2>2. CASE NewVoteDraws(est)
    <3>1. /\ voteElapsed' = 0 /\ currentVotingOptions' \in Seq(BallotEntry)
          /\ Len(currentVotingOptions') <= numOptions + 1
      BY <1>1, <2>1, <2>2, NewVoteKinds DEF NewVoteDraws
    <3>2. BroadcastVotingMessage(VotingOptions(currentVotingOptions'))
      BY <1>2, <2>2 DEF HostCreatesSession
    <3>3. Sends(VotingOptions(currentVotingOptions'))
      BY <3>1, <3>2, Broadcasts, VotingOptionsType
    <3> QED BY <1>1, <3>1, <3>3 DEF HostKinds, HostDraws, NotSet
  <2>3. CASE ~NewVoteDraws(est)
    <3>1. BroadcastVotingMessage(NoMessage)
      BY <2>3 DEF HostCreatesSession
    <3>2. toClient' = toClient
      BY <3>1, Broadcasts
    <3>3. voteElapsed' # NotSet =>
            /\ voteElapsed # NotSet /\ currentVotingOptions' = currentVotingOptions
            /\ gameThread' = "running" => gameThread = "running" /\ mapVotes' = mapVotes
      BY <1>1, <2>1, <2>3, NewVoteKinds DEF NewVoteDraws
    <3> QED BY <1>1, <3>2, <3>3 DEF HostKinds, HostIsSilent
  <2> QED BY <2>2, <2>3
<1>3. CASE ~(online /\ ~infoSocketOpen)
  <2>1. BroadcastVotingMessage(NoMessage)
    BY <1>3 DEF HostCreatesSession
  <2>2. toClient' = toClient
    BY <2>1, Broadcasts
  <2>3. UNCHANGED <<voteVars, currentVotingOptions, gameThread>>
    BY <1>3 DEF HostCreatesSession, CreateSession
  <2> QED BY <1>1, <2>2, <2>3 DEF HostKinds, HostIsSilent, voteVars
<1> QED BY <1>2, <1>3

\* MapLoadedCallback.
LEMMA MenuKinds ==
  ASSUME VotingInv, SessionTypeOK, MenuLoads
  PROVE  HostKinds
<1>1. /\ gameThread = "running" /\ UNCHANGED <<players, numOptions, toHost, screen>>
  BY DEF MenuLoads, MapLoaded, configVars
<1>2. CASE infoSocketOpen
  <2>1. StartNewVote(hosting)
    BY <1>2 DEF MenuLoads, MapLoaded
  <2>2. CASE NewVoteDraws(hosting)
    <3>1. /\ voteElapsed' = 0 /\ currentVotingOptions' \in Seq(BallotEntry)
          /\ Len(currentVotingOptions') <= numOptions + 1
      BY <1>1, <2>1, <2>2, NewVoteKinds DEF NewVoteDraws
    <3>2. BroadcastVotingMessage(VotingOptions(currentVotingOptions'))
      BY <1>2, <2>2 DEF MenuLoads
    <3>3. Sends(VotingOptions(currentVotingOptions'))
      BY <3>1, <3>2, Broadcasts, VotingOptionsType
    <3> QED BY <1>1, <3>1, <3>3 DEF HostKinds, HostDraws, NotSet
  <2>3. CASE ~NewVoteDraws(hosting)
    <3>1. BroadcastVotingMessage(NoMessage)
      BY <2>3 DEF MenuLoads
    <3>2. toClient' = toClient
      BY <3>1, Broadcasts
    <3>3. voteElapsed' # NotSet =>
            /\ voteElapsed # NotSet /\ currentVotingOptions' = currentVotingOptions
            /\ gameThread' = "running" => gameThread = "running" /\ mapVotes' = mapVotes
      BY <1>1, <2>1, <2>3, NewVoteKinds DEF NewVoteDraws
    <3> QED BY <1>1, <3>2, <3>3 DEF HostKinds, HostIsSilent
  <2> QED BY <2>2, <2>3
<1>3. CASE ~infoSocketOpen
  <2>1. BroadcastVotingMessage(NoMessage)
    BY <1>3 DEF MenuLoads
  <2>2. toClient' = toClient
    BY <2>1, Broadcasts
  <2>3. UNCHANGED <<voteVars, currentVotingOptions, gameThread>>
    BY <1>3 DEF MenuLoads, MapLoaded
  <2> QED BY <1>1, <2>2, <2>3 DEF HostKinds, HostIsSilent, voteVars
<1> QED BY <1>2, <1>3

\* Every step of the host is of one of the four kinds.
LEMMA HostStepKinds ==
  ASSUME VotingInv, SessionTypeOK, HostStep
  PROVE  HostKinds
<1> USE DEF sessionVars, packetVars
<1>1. CASE HostOperator
  BY <1>1 DEF HostOperator, CancelVoteInProgress, Enable, Disable, Reset, engineVars,
              HostKinds, HostIsSilent
<1>2. CASE HostSetsNumberOfVotingOptions
  BY <1>2 DEF HostSetsNumberOfVotingOptions, SetNumberOfVotingOptions, engineVars, voteVars,
              HostKinds, HostIsSilent
<1>3. CASE HostLeaves \/ HostGameGoesOn
  BY <1>3 DEF HostLeaves, LeaveSession, HostGameGoesOn, GameRuns, GameEnds, voteVars,
              HostKinds, HostIsSilent
<1>4. CASE SessionCloses
  BY <1>4 DEF SessionCloses, SessionGone, Reset, HostKinds, HostCloses
<1>5. CASE HostStartsGame
  BY <1>5 DEF HostStartsGame, StartGame, Reset, HostKinds, HostIsSilent
<1>6. CASE Second
  BY <1>6 DEF Second, Clock, Elapse, engineVars, HostKinds, HostIsSilent
<1> QED
  BY <1>1, <1>2, <1>3, <1>4, <1>5, <1>6, TickKinds, NewSessionKinds, MenuKinds DEF HostStep

-----------------------------------------------------------------------------
(* The session runs the host of VotingSystem.                              *)

\* Every step of the session is a step of the host or leaves the host alone.
LEMMA SessionRunsHost ==
  ASSUME SessionTypeOK, [SessionNext]_allVars
  PROVE  [Next]_vars
<1>1. ASSUME HostStep PROVE Next
  BY <1>1
     DEF HostStep, HostTick, HostOperator, HostSetsNumberOfVotingOptions,
         HostCreatesSession, MenuLoads, HostLeaves, SessionCloses, HostStartsGame,
         HostGameGoesOn, Second, Next, Operator, Engine
<1>2. ASSUME NEW p \in Players, PlayerStep(p) PROVE [Next]_vars
  <2>1. CASE Joins(p) \/ Leaves(p)
    BY <2>1 DEF Joins, Leaves, Next, Engine
  <2>2. CASE HostReceivesVote(p)
    <3>1. toHost[p] \in Seq(Votes) /\ toHost[p] # <<>>
      BY <2>2 DEF SessionTypeOK, HostReceivesVote
    <3>2. Head(toHost[p]) \in Votes
      BY <3>1
    <3>3. LogVote(p, Head(toHost[p])) \/ UNCHANGED vars
      BY <2>2 DEF HostReceivesVote, ReceivedVote
    <3> QED BY <3>2, <3>3 DEF Next
  <2>3. CASE UpdatesProperties(p) \/ ClientReceives(p) \/ CloseScreen(p) \/ ClientStartsGame(p)
    BY <2>3 DEF UpdatesProperties, ClientReceives, CloseScreen, ClientStartsGame
  <2>4. ASSUME NEW i \in Votes, SubmitVote(p, i) PROVE UNCHANGED vars
    BY <2>4 DEF SubmitVote
  <2> QED BY <1>2, <2>1, <2>2, <2>3, <2>4 DEF PlayerStep
<1> QED BY <1>1, <1>2 DEF SessionNext, allVars

\* A vote runs only on a host that counts as one and has voting enabled, so
\* that nobody who joins meanwhile is told nothing and no vote is ignored.
ActiveInv == voteElapsed # NotSet => VotingActive

\* It takes Reset to disable voting and to be no host any more.
LEMMA ActiveStep ==
  ASSUME VotingInv, ActiveInv, [Next]_vars
  PROVE  ActiveInv'
<1> USE DEF ActiveInv, VotingActive, engineVars, configVars, voteVars
<1>1. TypeOK
  BY DEF VotingInv
<1>2. CASE Tick
  BY <1>2 DEF Tick, TickWakeUp, TickGoIdle, TickVote, TickGate
<1>3. ASSUME NEW p \in Players, NEW vote \in Votes, LogVote(p, vote) PROVE ActiveInv'
  BY <1>3 DEF LogVote
<1>4. CASE Operator
  BY <1>4 DEF Operator, CancelVoteInProgress, Enable, Disable, Reset,
              SetNumberOfVotingOptions
<1>5. CASE Clock
  BY <1>5 DEF Clock, Elapse
<1>6. CASE UNCHANGED vars
  BY <1>6 DEF vars
<1>7. CASE Engine
  <2>1. ASSUME NEW est, StartNewVote(est), voteElapsed' # NotSet
        PROVE  voteElapsed # NotSet \/ (est /\ votingEnabled)
    BY <2>1 DEF StartNewVote, Reset
  <2>2. ASSUME NEW online \in BOOLEAN, NEW est \in BOOLEAN, NEW bound \in BOOLEAN,
               CreateSession(online, est, bound)
        PROVE  ActiveInv'
    BY <2>1, <2>2 DEF CreateSession
  <2>3. CASE MapLoaded
    BY <2>1, <2>3 DEF MapLoaded
  <2>4. CASE LeaveSession \/ SessionGone \/ StartGame \/ GameRuns \/ GameEnds
    BY <2>4 DEF LeaveSession, SessionGone, StartGame, GameRuns, GameEnds, Reset
  <2>5. ASSUME NEW p \in Players, PlayerJoins(p) \/ PlayerLeaves(p) PROVE ActiveInv'
    BY <2>5 DEF PlayerJoins, PlayerLeaves
  <2> QED BY <1>7, <2>2, <2>3, <2>4, <2>5 DEF Engine
<1> QED BY <1>2, <1>3, <1>4, <1>5, <1>6, <1>7 DEF Next

-----------------------------------------------------------------------------
(* The steps of the players, as the channels can tell them apart.          *)

\* The vote of the host is left alone.
SameVoteGoesOn == UNCHANGED <<voteElapsed, currentVotingOptions, mapVotes, gameThread>>

\* Player p is sent the ballot of the vote that runs.
Greets(p) ==
  /\ voteElapsed # NotSet /\ SameVoteGoesOn
  /\ toClient' = [toClient EXCEPT ![p] = Append(@, VotingOptions(currentVotingOptions))]
  /\ players' = players \cup {p}
  /\ UNCHANGED <<toHost, screen>>

\* Player p joins while there is no vote.
JoinsQuietly(p) ==
  /\ voteElapsed = NotSet /\ SameVoteGoesOn
  /\ UNCHANGED <<toClient, toHost, screen>>

\* Player p leaves with all that was on its way.
Departs(p) ==
  /\ SameVoteGoesOn /\ players' = players \ {p}
  /\ toClient' = [toClient EXCEPT ![p] = <<>>]
  /\ toHost' = [toHost EXCEPT ![p] = <<>>]
  /\ UNCHANGED screen

\* The vote of player p is logged.
Logs(p) ==
  /\ voteElapsed # NotSet /\ p \in players /\ gameThread = "running" /\ toHost[p] # <<>>
  /\ mapVotes' = [mapVotes EXCEPT ![NameOf[p]] = Head(toHost[p])]
  /\ currentVotingOptions' = TallyBroadcast(currentVotingOptions, mapVotes')
  /\ Sends(VoteTally(currentVotingOptions, mapVotes'))
  /\ toHost' = [toHost EXCEPT ![p] = Tail(@)]
  /\ UNCHANGED <<voteElapsed, gameThread, players, screen>>

\* It is refused, which takes a number that is not on the ballot when a vote runs.
Refuses(p) ==
  /\ toHost[p] # <<>>
  /\ voteElapsed # NotSet => Head(toHost[p]) > numOptions + 1
  /\ SameVoteGoesOn
  /\ toHost' = [toHost EXCEPT ![p] = Tail(@)]
  /\ UNCHANGED <<players, toClient, screen>>

\* A page is closed, or leaves with its game.
Hides(p) ==
  /\ screen' = [screen EXCEPT ![p].shown = FALSE]
  /\ SameVoteGoesOn /\ UNCHANGED <<players, toClient, toHost>>

PlayerKinds(p) ==
  \/ Greets(p) \/ JoinsQuietly(p) \/ Departs(p) \/ Logs(p) \/ Refuses(p) \/ Hides(p)
  \/ ClientReceives(p) \/ \E i \in Votes : SubmitVote(p, i)

\* Every step of a player is of one of these kinds.
LEMMA PlayerStepKinds ==
  ASSUME VotingInv, SessionTypeOK, ActiveInv, NEW p \in Players, PlayerStep(p)
  PROVE  PlayerKinds(p)
<1> USE DEF SameVoteGoesOn, voteVars
<1>1. voteElapsed # NotSet => currentVotingOptions \in Seq(BallotEntry)
  BY DEF VotingInv, TypeOK
<1>2. MessageForJoiner(p) = IF voteElapsed # NotSet THEN VotingOptions(currentVotingOptions)
                                                    ELSE NoMessage
  BY LocalAssumption DEF MessageForJoiner, ActiveInv
<1>3. voteElapsed # NotSet => VotingOptions(currentVotingOptions) # NoMessage
  BY <1>1, VotingOptionsType
<1>4. /\ voteElapsed # NotSet =>
           SendTo(p, MessageForJoiner(p))
             = Append(toClient[p], VotingOptions(currentVotingOptions))
      /\ voteElapsed = NotSet => SendTo(p, MessageForJoiner(p)) = toClient[p]
  BY <1>2, <1>3 DEF SendTo
<1>5. CASE Joins(p)
  <2>1. UNCHANGED <<voteVars, currentVotingOptions, gameThread, toHost, screen>>
        /\ players' = players \cup {p}
        /\ toClient' = [toClient EXCEPT ![p] = SendTo(p, MessageForJoiner(p))]
    BY <1>5 DEF Joins, PlayerJoins
  <2>2. CASE voteElapsed # NotSet
    BY <1>4, <2>1, <2>2 DEF Greets, PlayerKinds
  <2>3. CASE voteElapsed = NotSet
    BY <1>4, <2>1, <2>3 DEF JoinsQuietly, PlayerKinds, SessionTypeOK
  <2> QED BY <2>2, <2>3
<1>6. CASE UpdatesProperties(p)
  <2>1. voteElapsed # NotSet /\ p \in players
    BY <1>2, <1>6 DEF UpdatesProperties
  <2> QED BY <1>4, <1>6, <2>1 DEF UpdatesProperties, Greets, PlayerKinds, vars, engineVars
<1>7. CASE Leaves(p)
  BY <1>7 DEF Leaves, PlayerLeaves, Departs, PlayerKinds
<1>8. CASE HostReceivesVote(p)
  <2>1. CASE LogVote(p, Head(toHost[p]))
             /\ BroadcastVotingMessage(VoteTally(currentVotingOptions, mapVotes'))
    <3>1. /\ voteElapsed # NotSet /\ p \in players /\ gameThread = "running"
          /\ mapVotes' = [mapVotes EXCEPT ![NameOf[p]] = Head(toHost[p])]
          /\ currentVotingOptions' = TallyBroadcast(currentVotingOptions, mapVotes')
          /\ UNCHANGED <<voteElapsed, gameThread, players>>
      BY <2>1 DEF LogVote, RecordVote, engineVars
    <3>2. \A i \in 1..Len(currentVotingOptions) : currentVotingOptions[i].Count = 0
      BY <3>1 DEF VotingInv, BallotIsClean
    <3>3. Sends(VoteTally(currentVotingOptions, mapVotes'))
      BY <1>1, <2>1, <3>1, <3>2, Broadcasts, VoteTallyType
    <3> QED BY <1>8, <3>1, <3>3 DEF HostReceivesVote, Logs, PlayerKinds
  <2>2. CASE VoteRefused(Head(toHost[p])) /\ UNCHANGED <<vars, toClient>>
    <3>1. voteElapsed # NotSet => Head(toHost[p]) > numOptions + 1
      BY <2>2 DEF VoteRefused, ActiveInv
    <3> QED BY <1>8, <2>2, <3>1 DEF HostReceivesVote, Refuses, PlayerKinds, vars, engineVars
  <2> QED BY <1>8, <2>1, <2>2 DEF HostReceivesVote, ReceivedVote
<1>9. CASE CloseScreen(p) \/ ClientStartsGame(p)
  BY <1>9 DEF CloseScreen, ClientStartsGame, Hides, PlayerKinds, vars, engineVars, packetVars
<1>10. CASE ClientReceives(p) \/ \E i \in Votes : SubmitVote(p, i)
  BY <1>10 DEF PlayerKinds
<1> QED BY <1>5, <1>6, <1>7, <1>8, <1>9, <1>10 DEF PlayerStep

-----------------------------------------------------------------------------
(* Types are kept.                                                         *)

\* The positions of a channel with one message more.
LEMMA AppendAt ==
  ASSUME NEW S, NEW ch \in Seq(S), NEW m \in S
  PROVE  /\ Append(ch, m) \in Seq(S)
         /\ Len(ch) \in Nat /\ Len(Append(ch, m)) = Len(ch) + 1
         /\ \A i \in 1..Len(ch) : Append(ch, m)[i] = ch[i]
         /\ Append(ch, m)[Len(ch) + 1] = m
OBVIOUS

\* The positions of a channel whose first message is taken.
LEMMA TailAt ==
  ASSUME NEW S, NEW ch \in Seq(S), ch # <<>>
  PROVE  /\ Tail(ch) \in Seq(S) /\ Head(ch) \in S /\ Head(ch) = ch[1]
         /\ Len(ch) \in Nat \ {0} /\ Len(Tail(ch)) = Len(ch) - 1
         /\ \A i \in 1..(Len(ch) - 1) : Tail(ch)[i] = ch[i + 1]
OBVIOUS

\* What the host sends is a message.
LEMMA SendsType ==
  ASSUME SessionTypeOK, NEW m \in Messages, Sends(m)
  PROVE  toClient' \in [Players -> Seq(Messages)]
<1>1. \A p \in Players : Append(toClient[p], m) \in Seq(Messages)
  BY AppendAt DEF SessionTypeOK
<1> QED BY <1>1 DEF SessionTypeOK, Sends

\* The message about a winner.
LEMMA WinnerType ==
  ASSUME VotingInv, voteElapsed # NotSet, NEW k \in 1..Len(currentVotingOptions)
  PROVE  [type |-> "Winner", winner |-> k, chosen |-> Shown(currentVotingOptions[k].option)]
           \in Messages
<1>1. currentVotingOptions \in Seq(BallotEntry)
  BY DEF VotingInv, TypeOK
<1>2. currentVotingOptions[k] \in BallotEntry /\ k \in Nat
  BY <1>1
<1>3. Shown(currentVotingOptions[k].option) \in Entries
  BY <1>2 DEF BallotEntry, Entries
<1> QED BY <1>2, <1>3 DEF Messages

\* The message about a tally.
LEMMA TallyType ==
  ASSUME VotingInv, voteElapsed # NotSet, NEW votes
  PROVE  /\ currentVotingOptions \in Seq(BallotEntry)
         /\ VoteTally(currentVotingOptions, votes) \in Messages
         /\ VoteTally(currentVotingOptions, votes).type = "VoteTally"
         /\ VoteTally(currentVotingOptions, votes).votes
              = [i \in 1..Len(currentVotingOptions) |-> VotesFor(votes, i)]
<1>1. currentVotingOptions \in Seq(BallotEntry)
  BY DEF VotingInv, TypeOK
<1>2. \A i \in 1..Len(currentVotingOptions) : currentVotingOptions[i].Count = 0
  BY DEF VotingInv, BallotIsClean
<1> QED BY <1>1, <1>2, VoteTallyType

\* Type correctness of the channels and the screens.
LEMMA SessionTypeStep ==
  ASSUME VotingInv, SessionTypeOK, ActiveInv, [SessionNext]_allVars
  PROVE  SessionTypeOK'
<1>0. <<>> \in Seq(Messages) /\ <<>> \in Seq(Votes)
  OBVIOUS
<1>1. ASSUME HostKinds PROVE SessionTypeOK'
  <2>1. CASE HostDraws
    <3>1. VotingOptions(currentVotingOptions') \in Messages
      BY <2>1, VotingOptionsType DEF HostDraws
    <3>2. toClient' \in [Players -> Seq(Messages)]
      BY <2>1, <3>1, SendsType DEF HostDraws
    <3> QED BY <2>1, <3>2 DEF HostDraws, SessionTypeOK
  <2>2. CASE HostChooses
    <3>1. toClient' \in [Players -> Seq(Messages)]
      BY <2>2, WinnerType, SendsType DEF HostChooses
    <3> QED BY <2>2, <3>1 DEF HostChooses, SessionTypeOK
  <2>3. CASE HostIsSilent
    BY <2>3 DEF HostIsSilent, SessionTypeOK
  <2>4. CASE HostCloses
    BY <1>0, <2>4 DEF HostCloses, SessionTypeOK
  <2> QED BY <1>1, <2>1, <2>2, <2>3, <2>4 DEF HostKinds
<1>2. ASSUME NEW p \in Players, PlayerKinds(p) PROVE SessionTypeOK'
  <2>1. CASE Greets(p)
    <3>1. currentVotingOptions \in Seq(BallotEntry)
      BY <2>1 DEF Greets, VotingInv, TypeOK
    <3>2. Append(toClient[p], VotingOptions(currentVotingOptions)) \in Seq(Messages)
      BY <3>1, VotingOptionsType, AppendAt DEF SessionTypeOK
    <3> QED BY <2>1, <3>2 DEF Greets, SessionTypeOK
  <2>2. CASE Logs(p)
    <3>1. toClient' \in [Players -> Seq(Messages)]
      BY <2>2, TallyType, SendsType DEF Logs
    <3>2. Tail(toHost[p]) \in Seq(Votes)
      BY <2>2, TailAt DEF Logs, SessionTypeOK
    <3> QED BY <2>2, <3>1, <3>2 DEF Logs, SessionTypeOK
  <2>3. CASE Refuses(p)
    <3>1. Tail(toHost[p]) \in Seq(Votes)
      BY <2>3, TailAt DEF Refuses, SessionTypeOK
    <3> QED BY <2>3, <3>1 DEF Refuses, SessionTypeOK
  <2>4. CASE ClientReceives(p)
    <3>1. Tail(toClient[p]) \in Seq(Messages) /\ Head(toClient[p]) \in Messages
      BY <2>4, TailAt DEF ClientReceives, SessionTypeOK
    <3>2. MessageReceived(screen[p], Head(toClient[p])) \in Screens
      BY <3>1, MessageReceivedType DEF SessionTypeOK
    <3> QED BY <2>4, <3>1, <3>2 DEF ClientReceives, SessionTypeOK
  <2>5. ASSUME NEW i \in Votes, SubmitVote(p, i) PROVE SessionTypeOK'
    <3>1. i \in Nat
      BY VotesAssumption
    <3>2. Append(toHost[p], i) \in Seq(Votes)
      BY AppendAt DEF SessionTypeOK
    <3>3. [screen[p] EXCEPT !.selected = i] \in Screens
      BY <3>1 DEF SessionTypeOK, Screens
    <3> QED BY <2>5, <3>2, <3>3 DEF SubmitVote, SessionTypeOK
  <2>6. CASE Hides(p)
    <3>1. [screen[p] EXCEPT !.shown = FALSE] \in Screens
      BY DEF SessionTypeOK, Screens
    <3> QED BY <2>6, <3>1 DEF Hides, SessionTypeOK
  <2>7. CASE JoinsQuietly(p)
    BY <2>7 DEF JoinsQuietly, SessionTypeOK
  <2>8. CASE Departs(p)
    BY <1>0, <2>8 DEF Departs, SessionTypeOK
  <2> QED BY <1>2, <2>1, <2>2, <2>3, <2>4, <2>5, <2>6, <2>7, <2>8 DEF PlayerKinds
<1>3. CASE UNCHANGED allVars
  BY <1>3 DEF allVars, sessionVars, packetVars, SessionTypeOK
<1> QED BY <1>1, <1>2, <1>3, HostStepKinds, PlayerStepKinds DEF SessionNext

-----------------------------------------------------------------------------
(* What a screen will show.                                                *)

\* No ballot is among the first i messages of channel ch.
NoBallot(ch, i) == \A j \in 1..i : ch[j].type # "VotingOptions"

\* A screen with ballot s shows ballot b when it has handled the first i messages
\* of channel ch.
Shows(ch, i, s, b) ==
  \/ NoBallot(ch, i) /\ s = b
  \/ \E j \in 1..i : /\ ch[j].type = "VotingOptions" /\ ch[j].ballot = b
                     /\ \A k \in 1..i : k > j => ch[k].type # "VotingOptions"

\* Handling the first message takes one message off what is to come.
LEMMA ShowsTail ==
  ASSUME NEW ch \in Seq(Messages), ch # <<>>, NEW s \in Screens, NEW b,
         NEW i \in 1..Len(ch), Shows(ch, i, s.ballot, b)
  PROVE  Shows(Tail(ch), i - 1, MessageReceived(s, Head(ch)).ballot, b)
<1> DEFINE t == Tail(ch)
           r == MessageReceived(s, Head(ch)).ballot
<1>1. /\ Head(ch) \in Messages /\ Head(ch) = ch[1] /\ Len(ch) \in Nat \ {0}
      /\ Len(t) = Len(ch) - 1
      /\ \A k \in 1..(Len(ch) - 1) : t[k] = ch[k + 1]
  BY TailAt
<1>2. /\ ch[1].type = "VotingOptions" => r = ch[1].ballot
      /\ ch[1].type # "VotingOptions" => r = s.ballot
  BY <1>1, MessageReceivedType
<1> HIDE DEF t, r
<1>3. \A k \in 1..(i - 1) : t[k] = ch[k + 1] /\ k + 1 \in 1..i
  BY <1>1
<1>4. CASE NoBallot(ch, i) /\ s.ballot = b
  <2>1. NoBallot(t, i - 1)
    BY <1>3, <1>4 DEF NoBallot
  <2>2. ch[1].type # "VotingOptions"
    BY <1>4 DEF NoBallot
  <2> QED BY <1>2, <1>4, <2>1, <2>2 DEF Shows, t, r
<1>5. ASSUME NEW j \in 1..i, ch[j].type = "VotingOptions", ch[j].ballot = b,
             \A k \in 1..i : k > j => ch[k].type # "VotingOptions"
      PROVE  Shows(t, i - 1, r, b)
  <2>1. CASE j = 1
    <3>1. NoBallot(t, i - 1)
      BY <1>3, <1>5, <2>1 DEF NoBallot
    <3> QED BY <1>2, <1>5, <2>1, <3>1 DEF Shows
  <2>2. CASE j # 1
    <3>1. j - 1 \in 1..(i - 1) /\ t[j - 1] = ch[j]
      BY <1>3, <2>2
    <3>2. \A k \in 1..(i - 1) : k > j - 1 => t[k].type # "VotingOptions"
      BY <1>3, <1>5
    <3> QED BY <1>5, <3>1, <3>2 DEF Shows
  <2> QED BY <2>1, <2>2
<1> QED BY <1>4, <1>5 DEF Shows, t, r

\* A message at the end changes nothing about the ones before it.
LEMMA ShowsBefore ==
  ASSUME NEW ch \in Seq(Messages), NEW m \in Messages, NEW s, NEW b,
         NEW i \in 0..Len(ch), Shows(ch, i, s, b)
  PROVE  Shows(Append(ch, m), i, s, b)
<1> DEFINE a == Append(ch, m)
<1>1. \A k \in 1..i : a[k] = ch[k]
  BY AppendAt
<1> HIDE DEF a
<1>2. CASE NoBallot(ch, i) /\ s = b
  BY <1>1, <1>2 DEF Shows, NoBallot, a
<1>3. CASE \E j \in 1..i : /\ ch[j].type = "VotingOptions" /\ ch[j].ballot = b
                           /\ \A k \in 1..i : k > j => ch[k].type # "VotingOptions"
  BY <1>1, <1>3 DEF Shows, a
<1> QED BY <1>2, <1>3 DEF Shows

\* A ballot at the end is what will be shown.
LEMMA ShowsBallot ==
  ASSUME NEW ch \in Seq(Messages), NEW m \in Messages, NEW s, m.type = "VotingOptions"
  PROVE  Shows(Append(ch, m), Len(Append(ch, m)), s, m.ballot)
<1>1. /\ Len(ch) \in Nat /\ Len(Append(ch, m)) = Len(ch) + 1
      /\ Append(ch, m)[Len(ch) + 1] = m
  BY AppendAt
<1> QED BY <1>1 DEF Shows

\* Another message at the end leaves what will be shown.
LEMMA ShowsOther ==
  ASSUME NEW ch \in Seq(Messages), NEW m \in Messages, NEW s, NEW b,
         m.type # "VotingOptions", Shows(ch, Len(ch), s, b)
  PROVE  Shows(Append(ch, m), Len(Append(ch, m)), s, b)
<1> DEFINE a == Append(ch, m)
           n == Len(ch)
<1>1. /\ n \in Nat /\ Len(a) = n + 1 /\ a[n + 1] = m
      /\ \A k \in 1..n : a[k] = ch[k]
  BY AppendAt
<1> HIDE DEF a, n
<1>2. \A k \in 1..(n + 1) : k \in 1..n \/ k = n + 1
  BY <1>1
<1>3. CASE NoBallot(ch, n) /\ s = b
  BY <1>1, <1>2, <1>3 DEF Shows, NoBallot, a
<1>4. ASSUME NEW j \in 1..n, ch[j].type = "VotingOptions", ch[j].ballot = b,
             \A k \in 1..n : k > j => ch[k].type # "VotingOptions"
      PROVE  Shows(a, n + 1, s, b)
  <2>1. j \in 1..(n + 1) /\ a[j] = ch[j]
    BY <1>1
  <2>2. \A k \in 1..(n + 1) : k > j => a[k].type # "VotingOptions"
    BY <1>1, <1>2, <1>4
  <2> QED BY <1>4, <2>1, <2>2 DEF Shows
<1> QED BY <1>1, <1>3, <1>4 DEF Shows, a, n

-----------------------------------------------------------------------------
(* Everybody is shown the ballot the host counts for.                      *)

\* What is displayed of the options of a vote.
BallotOf(options) == [i \in 1..Len(options) |-> Shown(options[i].option)]

\* While a vote runs, every player of the session will look at its ballot when
\* all that is on its way has arrived.
BallotInv ==
  voteElapsed # NotSet =>
    \A p \in players :
      Shows(toClient[p], Len(toClient[p]), screen[p].ballot, BallotOf(currentVotingOptions))

\* Logging a vote leaves the ballot that is displayed.
LEMMA LogKeepsBallot ==
  ASSUME NEW options \in Seq(BallotEntry), NEW votes
  PROVE  /\ BallotOf(TallyBroadcast(options, votes)) = BallotOf(options)
         /\ Len(TallyBroadcast(options, votes)) = Len(options)
<1> DEFINE back == TallyBroadcast(options, votes)
<1>1. /\ Len(back) = Len(options)
      /\ \A i \in 1..Len(options) : back[i].option = options[i].option
  BY TallyBroadcastType
<1> HIDE DEF back
<1> QED BY <1>1 DEF BallotOf, back

\* The host's steps: a ballot is drawn and sent in one step.
LEMMA BallotHostStep ==
  ASSUME VotingInv, SessionTypeOK, BallotInv, HostKinds
  PROVE  BallotInv'
<1> SUFFICES ASSUME voteElapsed' # NotSet, NEW p \in players'
             PROVE  Shows(toClient'[p], Len(toClient'[p]), screen'[p].ballot,
                          BallotOf(currentVotingOptions'))
  BY DEF BallotInv
<1>1. CASE HostDraws
  <2>1. p \in players /\ p \in Players
    BY <1>1 DEF HostDraws, VotingInv, TypeOK
  <2> DEFINE m == VotingOptions(currentVotingOptions')
  <2>2. /\ m \in Messages /\ m.type = "VotingOptions"
        /\ m.ballot = BallotOf(currentVotingOptions')
    BY <1>1, VotingOptionsType DEF HostDraws, BallotOf
  <2>3. toClient'[p] = Append(toClient[p], m)
    BY <1>1, <2>1 DEF HostDraws, Sends
  <2>4. toClient[p] \in Seq(Messages)
    BY <2>1 DEF SessionTypeOK
  <2> HIDE DEF m
  <2>5. Shows(Append(toClient[p], m), Len(Append(toClient[p], m)), screen'[p].ballot, m.ballot)
    BY <2>2, <2>4, ShowsBallot
  <2> QED BY <2>2, <2>3, <2>5
<1>2. CASE HostIsSilent
  BY <1>2 DEF HostIsSilent, BallotInv
<1> QED BY <1>1, <1>2 DEF HostKinds, HostChooses, HostCloses

\* The players' steps: who joins a vote is sent its ballot, and messages are
\* handled in the order they were sent.
LEMMA BallotPlayerStep ==
  ASSUME VotingInv, SessionTypeOK, BallotInv, NEW q \in Players, PlayerKinds(q)
  PROVE  BallotInv'
<1> SUFFICES ASSUME voteElapsed' # NotSet, NEW p \in players'
             PROVE  Shows(toClient'[p], Len(toClient'[p]), screen'[p].ballot,
                          BallotOf(currentVotingOptions'))
  BY DEF BallotInv
<1> USE DEF SameVoteGoesOn
<1>1. players \subseteq Players
  BY DEF VotingInv, TypeOK
<1>2. \A r \in Players : toClient[r] \in Seq(Messages) /\ screen[r] \in Screens
  BY DEF SessionTypeOK
<1>3. CASE Greets(q)
  <2>1. currentVotingOptions \in Seq(BallotEntry)
    BY <1>3 DEF Greets, VotingInv, TypeOK
  <2> DEFINE m == VotingOptions(currentVotingOptions)
  <2>2. /\ m \in Messages /\ m.type = "VotingOptions"
        /\ m.ballot = BallotOf(currentVotingOptions)
    BY <2>1, VotingOptionsType DEF BallotOf
  <2>3. toClient' = [toClient EXCEPT ![q] = Append(toClient[q], m)]
    BY <1>3 DEF Greets
  <2> HIDE DEF m
  <2>4. CASE p = q
    <3>1. toClient'[p] = Append(toClient[q], m)
      BY <2>3, <2>4 DEF SessionTypeOK
    <3>2. Shows(Append(toClient[q], m), Len(Append(toClient[q], m)), screen'[p].ballot, m.ballot)
      BY <1>2, <2>2, ShowsBallot
    <3> QED BY <1>3, <2>2, <3>1, <3>2 DEF Greets
  <2>5. CASE p # q
    <3>1. p \in players /\ toClient'[p] = toClient[p]
      BY <1>1, <1>3, <2>3, <2>5 DEF Greets, SessionTypeOK
    <3> QED BY <1>3, <3>1 DEF Greets, BallotInv
  <2> QED BY <2>4, <2>5
<1>4. CASE Logs(q)
  <2>1. p \in players /\ p \in Players
    BY <1>1, <1>4 DEF Logs
  <2> DEFINE m == VoteTally(currentVotingOptions, mapVotes')
  <2>2. m \in Messages /\ m.type # "VotingOptions"
    BY <1>4, TallyType DEF Logs
  <2>3. toClient'[p] = Append(toClient[p], m)
    BY <1>4, <2>1 DEF Logs, Sends
  <2>4. BallotOf(currentVotingOptions') = BallotOf(currentVotingOptions)
    BY <1>4, TallyType, LogKeepsBallot DEF Logs
  <2>5. Shows(toClient[p], Len(toClient[p]), screen[p].ballot, BallotOf(currentVotingOptions))
    BY <1>4, <2>1 DEF Logs, BallotInv
  <2> HIDE DEF m
  <2>6. Shows(Append(toClient[p], m), Len(Append(toClient[p], m)), screen[p].ballot,
              BallotOf(currentVotingOptions))
    BY <1>2, <2>1, <2>2, <2>5, ShowsOther
  <2> QED BY <1>4, <2>3, <2>4, <2>6 DEF Logs
<1>5. CASE ClientReceives(q)
  <2>1. UNCHANGED <<players, voteElapsed, currentVotingOptions>>
    BY <1>5 DEF ClientReceives, vars, engineVars, voteVars
  <2>2. p \in Players /\ Shows(toClient[p], Len(toClient[p]), screen[p].ballot,
                               BallotOf(currentVotingOptions))
    BY <1>1, <2>1 DEF BallotInv
  <2>3. CASE p = q
    <3>1. /\ toClient[q] # <<>> /\ toClient'[q] = Tail(toClient[q])
          /\ screen'[q] = MessageReceived(screen[q], Head(toClient[q]))
      BY <1>5 DEF ClientReceives, SessionTypeOK
    <3>2. /\ Len(toClient[q]) \in 1..Len(toClient[q])
          /\ Len(Tail(toClient[q])) = Len(toClient[q]) - 1
      BY <1>2, <3>1, TailAt
    <3>3. Shows(Tail(toClient[q]), Len(toClient[q]) - 1,
                MessageReceived(screen[q], Head(toClient[q])).ballot,
                BallotOf(currentVotingOptions))
      BY <1>2, <2>2, <2>3, <3>1, <3>2, ShowsTail
    <3> QED BY <2>1, <2>3, <3>1, <3>2, <3>3
  <2>4. CASE p # q
    <3>1. toClient'[p] = toClient[p] /\ screen'[p] = screen[p]
      BY <1>5, <2>2, <2>4 DEF ClientReceives, SessionTypeOK
    <3> QED BY <2>1, <2>2, <3>1
  <2> QED BY <2>3, <2>4
<1>6. ASSUME NEW i \in Votes, SubmitVote(q, i)
      PROVE  Shows(toClient'[p], Len(toClient'[p]), screen'[p].ballot,
                   BallotOf(currentVotingOptions'))
  <2>1. UNCHANGED <<players, voteElapsed, currentVotingOptions, toClient>>
    BY <1>6 DEF SubmitVote, vars, engineVars, voteVars
  <2>2. screen'[p].ballot = screen[p].ballot
    BY <1>1, <1>2, <1>6, <2>1 DEF SubmitVote, SessionTypeOK, Screens
  <2> QED BY <2>1, <2>2 DEF BallotInv
<1>7. CASE Hides(q)
  <2>1. screen'[p].ballot = screen[p].ballot
    BY <1>1, <1>2, <1>7 DEF Hides, SessionTypeOK, Screens
  <2> QED BY <1>7, <2>1 DEF Hides, BallotInv
<1>8. CASE JoinsQuietly(q) \/ Refuses(q)
  BY <1>8 DEF JoinsQuietly, Refuses, BallotInv
<1>9. CASE Departs(q)
  <2>1. p \in players /\ p # q /\ p \in Players
    BY <1>1, <1>9 DEF Departs
  <2>2. toClient'[p] = toClient[p]
    BY <1>9, <2>1 DEF Departs, SessionTypeOK
  <2> QED BY <1>9, <2>1, <2>2 DEF Departs, BallotInv
<1> QED BY <1>3, <1>4, <1>5, <1>6, <1>7, <1>8, <1>9 DEF PlayerKinds

-----------------------------------------------------------------------------
(* The winner is marked on the ballot it won.                              *)

\* Every winner on its way in channel ch arrives at a screen that shows the
\* ballot on which its number stands for the option that was chosen.
WinnersFit(ch, s) ==
  \A i \in 1..Len(ch) : ch[i].type = "Winner" =>
    \E b : Shows(ch, i - 1, s, b) /\ b[ch[i].winner] = ch[i].chosen

WinnerInv == \A p \in Players : WinnersFit(toClient[p], screen[p].ballot)

\* Handling a message.
LEMMA WinnersFitTail ==
  ASSUME NEW ch \in Seq(Messages), ch # <<>>, NEW s \in Screens, WinnersFit(ch, s.ballot)
  PROVE  WinnersFit(Tail(ch), MessageReceived(s, Head(ch)).ballot)
<1> SUFFICES ASSUME NEW i \in 1..Len(Tail(ch)), Tail(ch)[i].type = "Winner"
             PROVE  \E b : /\ Shows(Tail(ch), i - 1, MessageReceived(s, Head(ch)).ballot, b)
                           /\ b[Tail(ch)[i].winner] = Tail(ch)[i].chosen
  BY DEF WinnersFit
<1>1. /\ i \in 1..Len(ch) /\ i + 1 \in 1..Len(ch) /\ Tail(ch)[i] = ch[i + 1]
      /\ (i + 1) - 1 = i
  BY TailAt
<1>2. PICK b : Shows(ch, (i + 1) - 1, s.ballot, b) /\ b[ch[i + 1].winner] = ch[i + 1].chosen
  BY <1>1, Zenon DEF WinnersFit
<1>3. Shows(Tail(ch), i - 1, MessageReceived(s, Head(ch)).ballot, b)
  BY <1>1, <1>2, ShowsTail
<1> QED BY <1>1, <1>2, <1>3

\* A message at the end, which fits if it is about a winner.
LEMMA WinnersFitAppend ==
  ASSUME NEW ch \in Seq(Messages), NEW m \in Messages, NEW s, WinnersFit(ch, s),
         m.type = "Winner" =>
           \E b : Shows(ch, Len(ch), s, b) /\ b[m.winner] = m.chosen
  PROVE  WinnersFit(Append(ch, m), s)
<1> DEFINE a == Append(ch, m)
<1> SUFFICES ASSUME NEW i \in 1..Len(a), a[i].type = "Winner"
             PROVE  \E b : Shows(a, i - 1, s, b) /\ b[a[i].winner] = a[i].chosen
  BY DEF WinnersFit
<1>1. /\ Len(ch) \in Nat /\ Len(a) = Len(ch) + 1 /\ a[Len(ch) + 1] = m
      /\ \A k \in 1..Len(ch) : a[k] = ch[k]
  BY AppendAt
<1>2. ASSUME NEW b, Shows(ch, i - 1, s, b) PROVE Shows(a, i - 1, s, b)
  <2>1. i - 1 \in 0..Len(ch)
    BY <1>1
  <2> QED BY <1>2, <2>1, ShowsBefore
<1> HIDE DEF a
<1>3. CASE i \in 1..Len(ch)
  <2>1. a[i] = ch[i]
    BY <1>1, <1>3
  <2>2. PICK b : Shows(ch, i - 1, s, b) /\ b[ch[i].winner] = ch[i].chosen
    BY <1>3, <2>1, Zenon DEF WinnersFit
  <2> QED BY <1>2, <2>1, <2>2
<1>4. CASE i = Len(ch) + 1
  <2>1. a[i] = m /\ i - 1 = Len(ch)
    BY <1>1, <1>4
  <2>2. PICK b : Shows(ch, Len(ch), s, b) /\ b[m.winner] = m.chosen
    BY <2>1
  <2>3. Shows(ch, i - 1, s, b)
    BY <2>1, <2>2
  <2> QED BY <1>2, <2>1, <2>2, <2>3
<1> QED BY <1>1, <1>3, <1>4

\* findWinner sends the number the option has on the ballot everybody is, or
\* will be, looking at.
LEMMA WinnerHostStep ==
  ASSUME VotingInv, SessionTypeOK, BallotInv, WinnerInv, HostKinds
  PROVE  WinnerInv'
<1> SUFFICES ASSUME NEW p \in Players
             PROVE  WinnersFit(toClient'[p], screen'[p].ballot)
  BY DEF WinnerInv
<1>1. toClient[p] \in Seq(Messages) /\ WinnersFit(toClient[p], screen[p].ballot)
  BY DEF SessionTypeOK, WinnerInv
<1>2. CASE HostDraws
  <2> DEFINE m == VotingOptions(currentVotingOptions')
  <2>1. m \in Messages /\ m.type = "VotingOptions"
    BY <1>2, VotingOptionsType DEF HostDraws
  <2>2. toClient'[p] = IF p \in players THEN Append(toClient[p], m) ELSE toClient[p]
    BY <1>2 DEF HostDraws, Sends
  <2> HIDE DEF m
  <2>3. WinnersFit(Append(toClient[p], m), screen[p].ballot)
    BY <1>1, <2>1, WinnersFitAppend
  <2> QED BY <1>1, <1>2, <2>2, <2>3 DEF HostDraws
<1>3. CASE HostChooses
  <2>1. PICK k \in 1..Len(currentVotingOptions) :
          Sends([type |-> "Winner", winner |-> k, chosen |-> Shown(currentVotingOptions[k].option)])
    BY <1>3 DEF HostChooses
  <2> DEFINE m == [type |-> "Winner", winner |-> k,
                   chosen |-> Shown(currentVotingOptions[k].option)]
  <2>2. m \in Messages
    BY <1>3, WinnerType DEF HostChooses
  <2>3. BallotOf(currentVotingOptions)[m.winner] = m.chosen
    BY DEF BallotOf
  <2>4. toClient'[p] = IF p \in players THEN Append(toClient[p], m) ELSE toClient[p]
    BY <2>1 DEF Sends
  <2> HIDE DEF m
  <2>5. CASE p \in players
    <3>1. Shows(toClient[p], Len(toClient[p]), screen[p].ballot, BallotOf(currentVotingOptions))
      BY <1>3, <2>5 DEF HostChooses, BallotInv
    <3>2. WinnersFit(Append(toClient[p], m), screen[p].ballot)
      BY <1>1, <2>2, <2>3, <3>1, WinnersFitAppend
    <3> QED BY <1>3, <2>4, <2>5, <3>2 DEF HostChooses
  <2>6. CASE p \notin players
    BY <1>1, <1>3, <2>4, <2>6 DEF HostChooses
  <2> QED BY <2>5, <2>6
<1>4. CASE HostIsSilent
  BY <1>1, <1>4 DEF HostIsSilent
<1>5. CASE HostCloses
  <2>1. toClient'[p] = <<>>
    BY <1>5 DEF HostCloses
  <2> QED BY <2>1 DEF WinnersFit
<1> QED BY <1>2, <1>3, <1>4, <1>5 DEF HostKinds

\* The players' steps send no winner and keep the order of the messages.
LEMMA WinnerPlayerStep ==
  ASSUME VotingInv, SessionTypeOK, WinnerInv, NEW q \in Players, PlayerKinds(q)
  PROVE  WinnerInv'
<1> SUFFICES ASSUME NEW p \in Players
             PROVE  WinnersFit(toClient'[p], screen'[p].ballot)
  BY DEF WinnerInv
<1>1. /\ toClient[p] \in Seq(Messages) /\ screen[p] \in Screens
      /\ WinnersFit(toClient[p], screen[p].ballot)
  BY DEF SessionTypeOK, WinnerInv
<1>2. CASE Greets(q)
  <2> DEFINE m == VotingOptions(currentVotingOptions)
  <2>1. m \in Messages /\ m.type = "VotingOptions"
    BY <1>2, VotingOptionsType DEF Greets, VotingInv, TypeOK
  <2>2. toClient'[p] = IF p = q THEN Append(toClient[p], m) ELSE toClient[p]
    BY <1>2 DEF Greets, SessionTypeOK
  <2> HIDE DEF m
  <2>3. WinnersFit(Append(toClient[p], m), screen[p].ballot)
    BY <1>1, <2>1, WinnersFitAppend
  <2> QED BY <1>1, <1>2, <2>2, <2>3 DEF Greets
<1>3. CASE Logs(q)
  <2> DEFINE m == VoteTally(currentVotingOptions, mapVotes')
  <2>1. m \in Messages /\ m.type = "VoteTally"
    BY <1>3, TallyType DEF Logs
  <2>2. toClient'[p] = IF p \in players THEN Append(toClient[p], m) ELSE toClient[p]
    BY <1>3 DEF Logs, Sends
  <2> HIDE DEF m
  <2>3. WinnersFit(Append(toClient[p], m), screen[p].ballot)
    BY <1>1, <2>1, WinnersFitAppend
  <2> QED BY <1>1, <1>3, <2>2, <2>3 DEF Logs
<1>4. CASE ClientReceives(q)
  <2>1. CASE p = q
    <3>1. /\ toClient[p] # <<>> /\ toClient'[p] = Tail(toClient[p])
          /\ screen'[p] = MessageReceived(screen[p], Head(toClient[p]))
      BY <1>4, <2>1 DEF ClientReceives, SessionTypeOK
    <3> QED BY <1>1, <3>1, WinnersFitTail
  <2>2. CASE p # q
    BY <1>1, <1>4, <2>2 DEF ClientReceives, SessionTypeOK
  <2> QED BY <2>1, <2>2
<1>5. CASE Departs(q)
  <2>1. toClient'[p] = IF p = q THEN <<>> ELSE toClient[p]
    BY <1>5 DEF Departs, SessionTypeOK
  <2>2. WinnersFit(<<>>, screen[p].ballot)
    BY DEF WinnersFit
  <2> QED BY <1>1, <1>5, <2>1, <2>2 DEF Departs
<1>6. ASSUME NEW i \in Votes, SubmitVote(q, i)
      PROVE  WinnersFit(toClient'[p], screen'[p].ballot)
  <2>1. toClient' = toClient /\ screen'[p].ballot = screen[p].ballot
    BY <1>1, <1>6 DEF SubmitVote, SessionTypeOK, Screens
  <2> QED BY <1>1, <2>1
<1>7. CASE Hides(q)
  <2>1. toClient' = toClient /\ screen'[p].ballot = screen[p].ballot
    BY <1>1, <1>7 DEF Hides, SessionTypeOK, Screens
  <2> QED BY <1>1, <2>1
<1>8. CASE JoinsQuietly(q) \/ Refuses(q)
  BY <1>1, <1>8 DEF JoinsQuietly, Refuses
<1> QED BY <1>2, <1>3, <1>4, <1>5, <1>6, <1>7, <1>8 DEF PlayerKinds

\* A channel gets shorter at its front only when its player receives.
LEMMA OnlyClientTakes ==
  ASSUME VotingInv, SessionTypeOK, ActiveInv, [SessionNext]_allVars,
         NEW p \in Players, p \in players', toClient[p] # <<>>,
         toClient'[p] = Tail(toClient[p])
  PROVE  ClientReceives(p)
<1>1. /\ toClient[p] \in Seq(Messages)
      /\ \A m \in Messages : Append(toClient[p], m) # Tail(toClient[p])
      /\ toClient[p] # Tail(toClient[p])
  <2>1. toClient[p] \in Seq(Messages)
    BY DEF SessionTypeOK
  <2>2. Len(toClient[p]) \in Nat /\ Len(Tail(toClient[p])) = Len(toClient[p]) - 1
    BY <2>1, TailAt
  <2>3. \A m \in Messages : Len(Append(toClient[p], m)) = Len(toClient[p]) + 1
    BY <2>1, AppendAt
  <2>4. toClient[p] # Tail(toClient[p])
    <3>1. Len(toClient[p]) # Len(Tail(toClient[p]))
      BY <2>2
    <3> QED BY <3>1, Zenon
  <2>5. ASSUME NEW m \in Messages PROVE Append(toClient[p], m) # Tail(toClient[p])
    BY <2>2, <2>3
  <2> QED BY <2>1, <2>4, <2>5
<1>2. ASSUME NEW m \in Messages, Sends(m) PROVE FALSE
  BY <1>1, <1>2 DEF Sends
<1>3. ASSUME HostKinds PROVE FALSE
  <2>1. CASE HostDraws
    BY <1>2, <2>1, VotingOptionsType DEF HostDraws
  <2>2. CASE HostChooses
    BY <1>2, <2>2, WinnerType DEF HostChooses
  <2>3. CASE HostIsSilent \/ HostCloses
    BY <1>1, <2>3 DEF HostIsSilent, HostCloses
  <2> QED BY <1>3, <2>1, <2>2, <2>3 DEF HostKinds
<1>4. ASSUME NEW q \in Players, PlayerKinds(q) PROVE ClientReceives(p)
  <2>1. CASE Greets(q)
    <3>1. VotingOptions(currentVotingOptions) \in Messages
      BY <2>1, VotingOptionsType DEF Greets, VotingInv, TypeOK
    <3> QED BY <1>1, <2>1, <3>1 DEF Greets, SessionTypeOK
  <2>2. CASE Logs(q)
    BY <1>2, <2>2, TallyType DEF Logs
  <2>3. CASE ClientReceives(q)
    <3>1. p = q
      BY <1>1, <2>3 DEF ClientReceives, SessionTypeOK
    <3> QED BY <2>3, <3>1
  <2>4. CASE Departs(q)
    BY <1>1, <2>4 DEF Departs, SessionTypeOK
  <2>5. ASSUME NEW i \in Votes, SubmitVote(q, i) PROVE FALSE
    BY <1>1, <2>5 DEF SubmitVote
  <2>6. CASE JoinsQuietly(q) \/ Refuses(q) \/ Hides(q)
    BY <1>1, <2>6 DEF JoinsQuietly, Refuses, Hides
  <2> QED BY <1>4, <2>1, <2>2, <2>3, <2>4, <2>5, <2>6 DEF PlayerKinds
<1>5. ~UNCHANGED allVars
  BY <1>1 DEF allVars, sessionVars, packetVars
<1> QED BY <1>3, <1>4, <1>5, HostStepKinds, PlayerStepKinds DEF SessionNext

-----------------------------------------------------------------------------
(* The tally on the screens is the host's count.                           *)

\* The count of every option of a vote.
TallyFor(options, votes) == [i \in 1..Len(options) |-> VotesFor(votes, i)]

\* Handling all of channel ch, a screen with tally t comes to display the tally
\* "now" or none: the last ballot or tally on its way decides.
Tallies(ch, t, now) ==
  \/ (\A j \in 1..Len(ch) : ch[j].type = "Winner") /\ t \in {Blank, now}
  \/ \E j \in 1..Len(ch) :
       /\ ch[j].type = "VotingOptions" \/ (ch[j].type = "VoteTally" /\ ch[j].votes = now)
       /\ \A k \in 1..Len(ch) : k > j => ch[k].type = "Winner"

TallyInv ==
  voteElapsed # NotSet /\ gameThread = "running" =>
    \A p \in players :
      Tallies(toClient[p], screen[p].tally, TallyFor(currentVotingOptions, mapVotes))

\* A new ballot or the new tally at the end of a channel decides.
LEMMA TalliesAppend ==
  ASSUME NEW ch \in Seq(Messages), NEW m \in Messages, NEW t, NEW now,
         m.type = "VotingOptions" \/ (m.type = "VoteTally" /\ m.votes = now)
  PROVE  Tallies(Append(ch, m), t, now)
<1> DEFINE a == Append(ch, m)
           n == Len(ch) + 1
<1>1. Len(ch) \in Nat /\ Len(a) = n /\ a[n] = m
  BY AppendAt
<1>2. n \in 1..n /\ \A k \in 1..n : ~(k > n)
  BY <1>1
<1> HIDE DEF a, n
<1> QED BY <1>1, <1>2 DEF Tallies, a

\* Handling the first message of a channel.
LEMMA TalliesTail ==
  ASSUME NEW ch \in Seq(Messages), ch # <<>>, NEW s \in Screens, NEW now,
         Tallies(ch, s.tally, now)
  PROVE  Tallies(Tail(ch), MessageReceived(s, Head(ch)).tally, now)
<1> DEFINE a == Tail(ch)
           n == Len(ch) - 1
           r == MessageReceived(s, Head(ch)).tally
<1>1. /\ Head(ch) \in Messages /\ Head(ch) = ch[1] /\ n \in Nat /\ Len(ch) = n + 1
      /\ Len(a) = n /\ \A k \in 1..n : a[k] = ch[k + 1]
  BY TailAt
<1>2. /\ ch[1].type = "VotingOptions" => r = Blank
      /\ ch[1].type = "Winner" => r = s.tally
      /\ ch[1].type = "VoteTally" => r = ch[1].votes
  BY <1>1, MessageReceivedType
<1> HIDE DEF a, n, r
<1>3. 1 \in 1..(n + 1) /\ \A k \in 1..n : k + 1 \in 1..(n + 1)
  BY <1>1
<1>4. CASE (\A j \in 1..Len(ch) : ch[j].type = "Winner") /\ s.tally \in {Blank, now}
  BY <1>1, <1>2, <1>3, <1>4 DEF Tallies, a, r
<1>5. ASSUME NEW j \in 1..Len(ch),
             ch[j].type = "VotingOptions" \/ (ch[j].type = "VoteTally" /\ ch[j].votes = now),
             \A k \in 1..Len(ch) : k > j => ch[k].type = "Winner"
      PROVE  Tallies(a, r, now)
  <2>1. CASE j = 1
    <3>1. \A k \in 1..n : a[k].type = "Winner"
      BY <1>1, <1>3, <1>5, <2>1
    <3>2. r \in {Blank, now}
      BY <1>2, <1>5, <2>1
    <3> QED BY <1>1, <3>1, <3>2 DEF Tallies
  <2>2. CASE j # 1
    <3>1. j - 1 \in 1..n /\ a[j - 1] = ch[j]
      BY <1>1, <2>2
    <3>2. \A k \in 1..n : k > j - 1 => a[k].type = "Winner"
      BY <1>1, <1>3, <1>5
    <3> QED BY <1>1, <1>5, <3>1, <3>2 DEF Tallies
  <2> QED BY <2>1, <2>2
<1> QED BY <1>4, <1>5 DEF Tallies, a, r

\* The host's steps: the votes are cleared only together with the ballot.
LEMMA TallyHostStep ==
  ASSUME VotingInv, SessionTypeOK, TallyInv, HostKinds
  PROVE  TallyInv'
<1> SUFFICES ASSUME voteElapsed' # NotSet, gameThread' = "running", NEW p \in players'
             PROVE  Tallies(toClient'[p], screen'[p].tally,
                            TallyFor(currentVotingOptions', mapVotes'))
  BY DEF TallyInv
<1>1. CASE HostDraws
  <2>1. p \in players /\ p \in Players
    BY <1>1 DEF HostDraws, VotingInv, TypeOK
  <2> DEFINE m == VotingOptions(currentVotingOptions')
  <2>2. m \in Messages /\ m.type = "VotingOptions"
    BY <1>1, VotingOptionsType DEF HostDraws
  <2>3. toClient'[p] = Append(toClient[p], m) /\ toClient[p] \in Seq(Messages)
    BY <1>1, <2>1 DEF HostDraws, Sends, SessionTypeOK
  <2> HIDE DEF m
  <2> QED BY <2>2, <2>3, TalliesAppend
<1>2. CASE HostIsSilent
  BY <1>2 DEF HostIsSilent, TallyInv
<1> QED BY <1>1, <1>2 DEF HostKinds, HostChooses, HostCloses

\* The players' steps: a logged vote is broadcast as the new tally.
LEMMA TallyPlayerStep ==
  ASSUME VotingInv, SessionTypeOK, TallyInv, NEW q \in Players, PlayerKinds(q)
  PROVE  TallyInv'
<1> SUFFICES ASSUME voteElapsed' # NotSet, gameThread' = "running", NEW p \in players'
             PROVE  Tallies(toClient'[p], screen'[p].tally,
                            TallyFor(currentVotingOptions', mapVotes'))
  BY DEF TallyInv
<1> USE DEF SameVoteGoesOn
<1>1. players \subseteq Players
  BY DEF VotingInv, TypeOK
<1>2. \A r \in Players : toClient[r] \in Seq(Messages) /\ screen[r] \in Screens
  BY DEF SessionTypeOK
<1>3. CASE Greets(q)
  <2> DEFINE m == VotingOptions(currentVotingOptions)
  <2>1. m \in Messages /\ m.type = "VotingOptions"
    BY <1>3, VotingOptionsType DEF Greets, VotingInv, TypeOK
  <2>2. toClient' = [toClient EXCEPT ![q] = Append(toClient[q], m)]
    BY <1>3 DEF Greets
  <2> HIDE DEF m
  <2>3. CASE p = q
    <3>1. toClient'[p] = Append(toClient[q], m)
      BY <2>2, <2>3 DEF SessionTypeOK
    <3> QED BY <1>2, <2>1, <3>1, TalliesAppend
  <2>4. CASE p # q
    <3>1. p \in players /\ toClient'[p] = toClient[p]
      BY <1>1, <1>3, <2>2, <2>4 DEF Greets, SessionTypeOK
    <3> QED BY <1>3, <3>1 DEF Greets, TallyInv
  <2> QED BY <2>3, <2>4
<1>4. CASE Logs(q)
  <2>1. p \in players /\ p \in Players
    BY <1>1, <1>4 DEF Logs
  <2> DEFINE m == VoteTally(currentVotingOptions, mapVotes')
  <2>2. /\ m \in Messages /\ m.type = "VoteTally"
        /\ m.votes = TallyFor(currentVotingOptions, mapVotes')
    BY <1>4, TallyType DEF Logs, TallyFor
  <2>3. toClient'[p] = Append(toClient[p], m)
    BY <1>4, <2>1 DEF Logs, Sends
  <2>4. Len(currentVotingOptions') = Len(currentVotingOptions)
    BY <1>4, TallyType, LogKeepsBallot DEF Logs
  <2>5. TallyFor(currentVotingOptions', mapVotes') = TallyFor(currentVotingOptions, mapVotes')
    BY <2>4 DEF TallyFor
  <2> HIDE DEF m
  <2> QED BY <1>2, <2>1, <2>2, <2>3, <2>5, TalliesAppend
<1>5. CASE ClientReceives(q)
  <2>1. UNCHANGED <<players, voteElapsed, currentVotingOptions, mapVotes, gameThread>>
    BY <1>5 DEF ClientReceives, vars, engineVars, voteVars
  <2>2. p \in Players /\ Tallies(toClient[p], screen[p].tally,
                                 TallyFor(currentVotingOptions, mapVotes))
    BY <1>1, <2>1 DEF TallyInv
  <2>3. CASE p = q
    <3>1. /\ toClient[q] # <<>> /\ toClient'[q] = Tail(toClient[q])
          /\ screen'[q] = MessageReceived(screen[q], Head(toClient[q]))
      BY <1>5 DEF ClientReceives, SessionTypeOK
    <3>2. Tallies(Tail(toClient[q]), MessageReceived(screen[q], Head(toClient[q])).tally,
                  TallyFor(currentVotingOptions, mapVotes))
      BY <1>2, <2>2, <2>3, <3>1, TalliesTail
    <3> QED BY <2>1, <2>3, <3>1, <3>2
  <2>4. CASE p # q
    <3>1. toClient'[p] = toClient[p] /\ screen'[p] = screen[p]
      BY <1>5, <2>2, <2>4 DEF ClientReceives, SessionTypeOK
    <3> QED BY <2>1, <2>2, <3>1
  <2> QED BY <2>3, <2>4
<1>6. ASSUME NEW i \in Votes, SubmitVote(q, i)
      PROVE  Tallies(toClient'[p], screen'[p].tally,
                     TallyFor(currentVotingOptions', mapVotes'))
  <2>1. UNCHANGED <<players, voteElapsed, currentVotingOptions, mapVotes, gameThread, toClient>>
    BY <1>6 DEF SubmitVote, vars, engineVars, voteVars
  <2>2. screen'[p].tally = screen[p].tally
    BY <1>1, <1>2, <1>6, <2>1 DEF SubmitVote, SessionTypeOK, Screens
  <2> QED BY <2>1, <2>2 DEF TallyInv
<1>7. CASE Hides(q)
  <2>1. screen'[p].tally = screen[p].tally
    BY <1>1, <1>2, <1>7 DEF Hides, SessionTypeOK, Screens
  <2> QED BY <1>7, <2>1 DEF Hides, TallyInv
<1>8. CASE JoinsQuietly(q) \/ Refuses(q)
  BY <1>8 DEF JoinsQuietly, Refuses, TallyInv
<1>9. CASE Departs(q)
  <2>1. p \in players /\ p # q /\ p \in Players
    BY <1>1, <1>9 DEF Departs
  <2>2. toClient'[p] = toClient[p]
    BY <1>9, <2>1 DEF Departs, SessionTypeOK
  <2> QED BY <1>9, <2>1, <2>2 DEF Departs, TallyInv
<1> QED BY <1>3, <1>4, <1>5, <1>6, <1>7, <1>8, <1>9 DEF PlayerKinds

-----------------------------------------------------------------------------
(* The invariant of the session.                                           *)

SessionInv ==
  /\ VotingInv /\ SessionTypeOK /\ ActiveInv
  /\ BallotInv /\ WinnerInv /\ TallyInv

\* It holds at the start, when no vote runs and nothing is on its way.
LEMMA SessionInitInv == SessionInit => SessionInv
<1> SUFFICES ASSUME SessionInit PROVE SessionInv
  OBVIOUS
<1>1. VotingInv /\ voteElapsed = NotSet
  BY InitInv DEF SessionInit, Init
<1>2. SessionTypeOK
  <2>1. <<>> \in Seq(Messages) /\ <<>> \in Seq(Votes) /\ <<>> \in Seq(Entries)
        /\ <<>> \in Seq(Nat)
    OBVIOUS
  <2>2. EmptyScreen \in Screens
    BY <2>1 DEF EmptyScreen, Screens, Blank
  <2> QED BY <2>1, <2>2 DEF SessionInit, SessionTypeOK
<1>3. WinnerInv
  BY DEF SessionInit, WinnerInv, WinnersFit
<1> QED BY <1>1, <1>2, <1>3 DEF SessionInv, ActiveInv, BallotInv, TallyInv

\* Every step keeps it.
LEMMA SessionStepInv ==
  ASSUME SessionInv, [SessionNext]_allVars
  PROVE  SessionInv'
<1>1. VotingInv /\ SessionTypeOK /\ ActiveInv /\ BallotInv /\ WinnerInv /\ TallyInv
  BY DEF SessionInv
<1>2. [Next]_vars
  BY <1>1, SessionRunsHost
<1>3. VotingInv' /\ ActiveInv' /\ SessionTypeOK'
  BY <1>1, <1>2, NextInv, ActiveStep, SessionTypeStep
<1>4. ASSUME HostStep PROVE BallotInv' /\ WinnerInv' /\ TallyInv'
  BY <1>1, <1>4, HostStepKinds, BallotHostStep, WinnerHostStep, TallyHostStep
<1>5. ASSUME NEW p \in Players, PlayerStep(p) PROVE BallotInv' /\ WinnerInv' /\ TallyInv'
  BY <1>1, <1>5, PlayerStepKinds, BallotPlayerStep, WinnerPlayerStep, TallyPlayerStep
<1>6. ASSUME UNCHANGED allVars PROVE BallotInv' /\ WinnerInv' /\ TallyInv'
  BY <1>1, <1>6 DEF allVars, vars, engineVars, voteVars, sessionVars, packetVars,
                    BallotInv, WinnerInv, TallyInv
<1> QED BY <1>3, <1>4, <1>5, <1>6 DEF SessionInv, SessionNext

\* The inductive invariant of the host, the packets and the screens.
THEOREM SessionInvariant == SessionSpec => []SessionInv
<1>1. SessionInv /\ [SessionNext]_allVars => SessionInv'
  BY SessionStepInv
<1> QED BY <1>1, SessionInitInv, PTL DEF SessionSpec

\* The host of a session is the host of VotingSystem, whatever the packets and the
\* screens do, so all that is proved of that one holds of it; in particular it
\* implements the abstract map vote.
THEOREM SessionImplementsHost == SessionSpec => Spec /\ ImplementsMapVote
<1>1. SessionInit => Init
  BY DEF SessionInit
<1>2. SessionInv /\ [SessionNext]_allVars => [Next]_vars
  BY SessionRunsHost DEF SessionInv
<1>3. SessionSpec => Spec
  BY <1>1, <1>2, SessionInvariant, PTL DEF SessionSpec, Spec
<1> QED BY <1>3, HostImplementsMapVote, PTL

\* During a vote everybody in the session who has nothing left to receive is
\* looking at the ballot the host counts for.
THEOREM ScreensAlwaysShowBallot == SessionSpec => []ScreenShowsBallot
<1>1. SessionInv => ScreenShowsBallot
  BY DEF SessionInv, ScreenShowsBallot, UpToDate, BallotInv, Shows, BallotOf
<1> QED BY <1>1, SessionInvariant, PTL

\* The tally a screen displays during a vote is the host's count.
THEOREM TallyIsAlwaysCurrent == SessionSpec => []TallyIsCurrent
<1>1. SessionInv => TallyIsCurrent
  BY DEF SessionInv, TallyIsCurrent, UpToDate, TallyInv, Tallies, TallyFor
<1> QED BY <1>1, SessionInvariant, PTL

\* The option a screen marks as the winner is the one the host has chosen.
THEOREM WinnerIsAlwaysMarked == SessionSpec => WinnerIsMarked
<1>1. ASSUME SessionInv, [SessionNext]_allVars, NEW p \in Players, toClient[p] # <<>>,
             toClient'[p] = Tail(toClient[p]), p \in players',
             Head(toClient[p]).type = "Winner"
      PROVE  screen'[p].ballot[screen'[p].winner] = Head(toClient[p]).chosen
  <2>1. ClientReceives(p)
    BY <1>1, OnlyClientTakes DEF SessionInv
  <2>2. /\ toClient[p] \in Seq(Messages) /\ screen[p] \in Screens
        /\ screen'[p] = MessageReceived(screen[p], Head(toClient[p]))
        /\ WinnersFit(toClient[p], screen[p].ballot)
    BY <1>1, <2>1 DEF ClientReceives, SessionInv, SessionTypeOK, WinnerInv
  <2>3. /\ Head(toClient[p]) \in Messages /\ Head(toClient[p]) = toClient[p][1]
        /\ 1 \in 1..Len(toClient[p])
    BY <1>1, <2>2, TailAt
  <2>4. screen'[p].ballot = screen[p].ballot /\ screen'[p].winner = toClient[p][1].winner
    BY <1>1, <2>2, <2>3, MessageReceivedType
  <2>5. PICK b : Shows(toClient[p], 1 - 1, screen[p].ballot, b)
                 /\ b[toClient[p][1].winner] = toClient[p][1].chosen
    BY <1>1, <2>2, <2>3, Zenon DEF WinnersFit
  <2>6. screen[p].ballot = b
    BY <2>5 DEF Shows
  <2> QED BY <2>3, <2>4, <2>5, <2>6
<1>2. SessionInv /\ [SessionNext]_allVars
        => [\A p \in Players :
              toClient[p] # <<>> /\ toClient'[p] = Tail(toClient[p]) /\ p \in players'
                /\ Head(toClient[p]).type = "Winner" =>
              screen'[p].ballot[screen'[p].winner] = Head(toClient[p]).chosen]_allVars
  BY <1>1
<1> QED BY <1>2, SessionInvariant, PTL DEF SessionSpec, WinnerIsMarked

-----------------------------------------------------------------------------
(* A selection is the vote that is counted.                                *)

\* The operator leaves the number of options alone.
OneOptionCount == \E n : OptionCounts = {n}

\* What a page has selected is on its ballot, and the ballot of a vote is no
\* longer than the votes LogVote accepts.
RangeInv ==
  /\ \A p \in Players : screen[p].selected # 0 =>
       screen[p].selected \in 1..Len(screen[p].ballot)
  /\ voteElapsed # NotSet => Len(currentVotingOptions) <= numOptions + 1

\* The last vote on its way is sel or, with none on its way, the logged one is.
Arrives(sel, sent, log) ==
  /\ sent = <<>> => log = sel
  /\ sent # <<>> => sent[Len(sent)] = sel

\* A selection on the ballot of the vote that runs is logged or on its way.
SelectionInv ==
  voteElapsed # NotSet /\ gameThread = "running" =>
    \A p \in players :
      screen[p].selected # 0 /\ NoBallot(toClient[p], Len(toClient[p])) =>
        Arrives(screen[p].selected, toHost[p], mapVotes[NameOf[p]])

\* The bounds on selections and ballots are kept.
LEMMA RangeStep ==
  ASSUME OneOptionCount, SessionInv, SessionInv', RangeInv, [SessionNext]_allVars
  PROVE  RangeInv'
<1>0. /\ VotingInv /\ SessionTypeOK /\ ActiveInv
      /\ numOptions' = numOptions
  BY DEF SessionInv, VotingInv, TypeOK, OneOptionCount
<1>1. ASSUME HostKinds PROVE RangeInv'
  BY <1>0, <1>1 DEF HostKinds, HostDraws, HostChooses, HostIsSilent, HostCloses, RangeInv
<1>2. ASSUME NEW q \in Players, PlayerKinds(q) PROVE RangeInv'
  <2>1. voteElapsed' # NotSet =>
          voteElapsed # NotSet /\ Len(currentVotingOptions') = Len(currentVotingOptions)
    <3>1. CASE Logs(q)
      BY <1>0, <3>1, TallyType, LogKeepsBallot DEF Logs
    <3>2. CASE ClientReceives(q) \/ \E i \in Votes : SubmitVote(q, i)
      BY <3>2 DEF ClientReceives, SubmitVote, vars, voteVars
    <3>3. CASE Greets(q) \/ JoinsQuietly(q) \/ Departs(q) \/ Refuses(q) \/ Hides(q)
      BY <3>3 DEF Greets, JoinsQuietly, Departs, Refuses, Hides, SameVoteGoesOn
    <3> QED BY <1>2, <3>1, <3>2, <3>3 DEF PlayerKinds
  <2>2. ASSUME NEW p \in Players, screen'[p].selected # 0
        PROVE  screen'[p].selected \in 1..Len(screen'[p].ballot)
    <3>0. screen[p] \in Screens /\ toClient[p] \in Seq(Messages)
      BY <1>0 DEF SessionTypeOK
    <3>1. CASE ClientReceives(q)
      <4>1. CASE p = q
        <5>1. /\ toClient[p] # <<>>
              /\ screen'[p] = MessageReceived(screen[p], Head(toClient[p]))
          BY <1>0, <3>1, <4>1 DEF ClientReceives, SessionTypeOK
        <5>2. Head(toClient[p]) \in Messages
          BY <3>0, <5>1, TailAt
        <5>3. /\ screen'[p].selected = screen[p].selected
              /\ screen'[p].ballot = screen[p].ballot
          BY <2>2, <3>0, <5>1, <5>2, MessageReceivedType
        <5> QED BY <2>2, <5>3 DEF RangeInv
      <4>2. CASE p # q
        BY <1>0, <2>2, <3>1, <4>2 DEF ClientReceives, SessionTypeOK, RangeInv
      <4> QED BY <4>1, <4>2
    <3>2. ASSUME NEW i \in Votes, SubmitVote(q, i)
          PROVE  screen'[p].selected \in 1..Len(screen'[p].ballot)
      <4>1. CASE p = q
        <5>1. i \in DOMAIN screen[p].ballot /\ screen' = [screen EXCEPT ![p].selected = i]
          BY <3>2, <4>1 DEF SubmitVote
        <5>2. screen'[p] = [screen[p] EXCEPT !.selected = i]
          BY <1>0, <5>1 DEF SessionTypeOK
        <5>3. screen'[p].selected = i /\ screen'[p].ballot = screen[p].ballot
          BY <3>0, <5>2 DEF Screens
        <5>4. DOMAIN screen[p].ballot = 1..Len(screen[p].ballot)
          BY <3>0 DEF Screens
        <5> QED BY <5>1, <5>3, <5>4
      <4>2. CASE p # q
        BY <1>0, <2>2, <3>2, <4>2 DEF SubmitVote, SessionTypeOK, RangeInv
      <4> QED BY <4>1, <4>2
    <3>3. CASE Hides(q)
      <4>1. /\ screen'[p].selected = screen[p].selected
            /\ screen'[p].ballot = screen[p].ballot
        BY <1>0, <3>0, <3>3 DEF Hides, SessionTypeOK, Screens
      <4> QED BY <2>2, <4>1 DEF RangeInv
    <3>4. CASE Greets(q) \/ JoinsQuietly(q) \/ Departs(q) \/ Refuses(q) \/ Logs(q)
      BY <2>2, <3>4 DEF Greets, JoinsQuietly, Departs, Refuses, Logs, RangeInv
    <3> QED BY <1>2, <3>1, <3>2, <3>3, <3>4 DEF PlayerKinds
  <2> QED BY <1>0, <2>1, <2>2 DEF RangeInv
<1>3. CASE UNCHANGED allVars
  BY <1>0, <1>3 DEF allVars, vars, voteVars, sessionVars, RangeInv
<1> QED BY <1>0, <1>1, <1>2, <1>3, HostStepKinds, PlayerStepKinds DEF SessionNext

\* Taking the first vote leaves the last one, unless it was that.
LEMMA LastOfTail ==
  ASSUME NEW sent \in Seq(Votes), sent # <<>>
  PROVE  /\ Tail(sent) = <<>> => Head(sent) = sent[Len(sent)]
         /\ Tail(sent) # <<>> => Tail(sent)[Len(Tail(sent))] = sent[Len(sent)]
<1> DEFINE t == Tail(sent)
           n == Len(sent)
<1>1. /\ t \in Seq(Votes) /\ Head(sent) = sent[1] /\ n \in Nat \ {0} /\ Len(t) = n - 1
      /\ \A i \in 1..(n - 1) : t[i] = sent[i + 1]
  BY TailAt
<1> HIDE DEF t, n
<1>2. t = <<>> => Head(sent) = sent[n]
  BY <1>1
<1>3. ASSUME t # <<>> PROVE t[Len(t)] = sent[n]
  <2>1. Len(t) # 0
    BY <1>1, <1>3
  <2>2. n - 1 \in 1..(n - 1) /\ (n - 1) + 1 = n
    BY <1>1, <2>1
  <2> QED BY <1>1, <2>2
<1> QED BY <1>2, <1>3 DEF t, n

\* A screen with no ballot on its way shows the ballot of the vote that runs.
LEMMA ShowsNow ==
  ASSUME VotingInv, BallotInv, voteElapsed # NotSet, NEW p \in players,
         NoBallot(toClient[p], Len(toClient[p]))
  PROVE  Len(screen[p].ballot) = Len(currentVotingOptions)
<1>1. screen[p].ballot = BallotOf(currentVotingOptions)
  BY DEF BallotInv, Shows, NoBallot
<1>2. currentVotingOptions \in Seq(BallotEntry)
  BY DEF VotingInv, TypeOK
<1> QED BY <1>1, <1>2 DEF BallotOf

\* The host's steps: a new ballot makes what was selected irrelevant.
LEMMA SelectionHostStep ==
  ASSUME SessionInv, SelectionInv, HostKinds
  PROVE  SelectionInv'
<1>1. CASE HostDraws
  <2> SUFFICES ASSUME NEW p \in players'
               PROVE  ~NoBallot(toClient'[p], Len(toClient'[p]))
    BY DEF SelectionInv
  <2>1. p \in players /\ p \in Players
    BY <1>1 DEF HostDraws, SessionInv, VotingInv, TypeOK
  <2> DEFINE m == VotingOptions(currentVotingOptions')
  <2>2. m \in Messages /\ m.type = "VotingOptions"
    BY <1>1, VotingOptionsType DEF HostDraws
  <2>3. toClient'[p] = Append(toClient[p], m) /\ toClient[p] \in Seq(Messages)
    BY <1>1, <2>1 DEF HostDraws, Sends, SessionInv, SessionTypeOK
  <2> HIDE DEF m
  <2>4. /\ Len(toClient'[p]) = Len(toClient[p]) + 1 /\ Len(toClient[p]) \in Nat
        /\ toClient'[p][Len(toClient[p]) + 1] = m
    BY <2>2, <2>3, AppendAt
  <2> QED BY <2>2, <2>4 DEF NoBallot
<1>2. CASE HostIsSilent
  BY <1>2 DEF HostIsSilent, SelectionInv
<1> QED BY <1>1, <1>2 DEF HostKinds, HostChooses, HostCloses, SelectionInv

\* The players' steps: votes are logged in the order they were sent, under a name
\* nobody else has, and none that is on the ballot is refused.
LEMMA SelectionPlayerStep ==
  ASSUME DistinctNames, SessionInv, RangeInv, SelectionInv, NEW q \in Players,
         PlayerKinds(q)
  PROVE  SelectionInv'
<1> SUFFICES ASSUME voteElapsed' # NotSet, gameThread' = "running", NEW p \in players',
                    screen'[p].selected # 0, NoBallot(toClient'[p], Len(toClient'[p]))
             PROVE  Arrives(screen'[p].selected, toHost'[p], mapVotes'[NameOf[p]])
  BY DEF SelectionInv
<1> USE DEF SameVoteGoesOn
<1>1. players \subseteq Players /\ VotingInv /\ SessionTypeOK /\ BallotInv
  BY DEF SessionInv, VotingInv, TypeOK
<1>2. \A r \in Players : /\ toClient[r] \in Seq(Messages) /\ screen[r] \in Screens
                         /\ toHost[r] \in Seq(Votes)
  BY DEF SessionInv, SessionTypeOK
<1>3. ASSUME p \in players, voteElapsed # NotSet, gameThread = "running",
             screen[p].selected # 0, NoBallot(toClient[p], Len(toClient[p]))
      PROVE  Arrives(screen[p].selected, toHost[p], mapVotes[NameOf[p]])
  BY <1>3 DEF SelectionInv
<1>4. CASE Greets(q)
  <2> DEFINE m == VotingOptions(currentVotingOptions)
  <2>1. m \in Messages /\ m.type = "VotingOptions"
    BY <1>1, <1>4, VotingOptionsType DEF Greets, VotingInv, TypeOK
  <2>2. toClient' = [toClient EXCEPT ![q] = Append(toClient[q], m)]
    BY <1>4 DEF Greets
  <2> HIDE DEF m
  <2>3. p # q
    <3> SUFFICES ASSUME p = q PROVE FALSE
      OBVIOUS
    <3>1. toClient'[p] = Append(toClient[q], m)
      BY <1>1, <2>2 DEF SessionTypeOK
    <3>2. /\ Len(toClient'[p]) = Len(toClient[q]) + 1 /\ Len(toClient[q]) \in Nat
          /\ toClient'[p][Len(toClient[q]) + 1] = m
      BY <1>2, <2>1, <3>1, AppendAt
    <3> QED BY <2>1, <3>2 DEF NoBallot
  <2>4. p \in players /\ toClient'[p] = toClient[p]
    BY <1>1, <1>4, <2>2, <2>3 DEF Greets, SessionTypeOK
  <2> QED BY <1>3, <1>4, <2>4 DEF Greets
<1>5. CASE Logs(q)
  <2>1. p \in players /\ p \in Players
    BY <1>1, <1>5 DEF Logs
  <2> DEFINE m == VoteTally(currentVotingOptions, mapVotes')
  <2>2. m \in Messages
    BY <1>1, <1>5, TallyType DEF Logs
  <2>3. toClient'[p] = Append(toClient[p], m)
    BY <1>5, <2>1 DEF Logs, Sends
  <2> HIDE DEF m
  <2>4. /\ Len(toClient'[p]) = Len(toClient[p]) + 1 /\ Len(toClient[p]) \in Nat
        /\ \A k \in 1..Len(toClient[p]) : toClient'[p][k] = toClient[p][k]
    BY <1>2, <2>1, <2>2, <2>3, AppendAt
  <2>5. NoBallot(toClient[p], Len(toClient[p]))
    BY <2>4 DEF NoBallot
  <2>6. Arrives(screen[p].selected, toHost[p], mapVotes[NameOf[p]])
    BY <1>3, <1>5, <2>1, <2>5 DEF Logs
  <2>7. /\ mapVotes \in [Names -> {NoVote} \cup Votes]
        /\ NameOf[p] \in Names /\ NameOf[q] \in Names
    BY <1>1, <2>1, NamesAssumption DEF VotingInv, TypeOK
  <2>8. CASE p = q
    <3>1. /\ toHost'[p] = Tail(toHost[p]) /\ toHost[p] # <<>>
          /\ mapVotes'[NameOf[p]] = Head(toHost[p])
      BY <1>1, <1>5, <2>7, <2>8 DEF Logs, SessionTypeOK
    <3>2. screen'[p] = screen[p]
      BY <1>5 DEF Logs
    <3> QED BY <1>2, <2>1, <2>6, <3>1, <3>2, LastOfTail DEF Arrives
  <2>9. CASE p # q
    <3>1. NameOf[p] # NameOf[q]
      BY <2>1, <2>9 DEF DistinctNames
    <3>2. mapVotes'[NameOf[p]] = mapVotes[NameOf[p]] /\ toHost'[p] = toHost[p]
      BY <1>1, <1>5, <2>1, <2>7, <2>9, <3>1 DEF Logs, SessionTypeOK
    <3> QED BY <1>5, <2>6, <3>2 DEF Logs
  <2> QED BY <2>8, <2>9
<1>6. CASE Refuses(q)
  <2>1. /\ p \in players /\ p \in Players
        /\ Arrives(screen[p].selected, toHost[p], mapVotes[NameOf[p]])
    BY <1>1, <1>3, <1>6 DEF Refuses
  <2>2. CASE p = q
    <3>1. /\ toHost'[p] = Tail(toHost[p]) /\ toHost[p] # <<>>
          /\ Head(toHost[p]) > numOptions + 1 /\ UNCHANGED <<screen, mapVotes>>
      BY <1>1, <1>6, <2>2 DEF Refuses, SessionTypeOK
    <3>2. Tail(toHost[p]) # <<>>
      <4> SUFFICES ASSUME Tail(toHost[p]) = <<>> PROVE FALSE
        OBVIOUS
      <4>1. Head(toHost[p]) = screen[p].selected
        BY <1>2, <2>1, <3>1, LastOfTail DEF Arrives
      <4>2. screen[p].selected \in 1..Len(currentVotingOptions)
        BY <1>1, <1>6, <2>1, ShowsNow DEF RangeInv, Refuses
      <4>3. /\ Len(currentVotingOptions) \in 1..5 /\ numOptions \in Nat
            /\ Len(currentVotingOptions) <= numOptions + 1
        BY <1>1, <1>6, OptionsAssumption DEF RangeInv, VotingInv, TypeOK, Refuses
      <4> QED BY <3>1, <4>1, <4>2, <4>3
    <3> QED BY <1>2, <2>1, <3>1, <3>2, LastOfTail DEF Arrives
  <2>3. CASE p # q
    <3>1. toHost'[p] = toHost[p]
      BY <1>1, <1>6, <2>1, <2>3 DEF Refuses, SessionTypeOK
    <3> QED BY <1>6, <2>1, <3>1 DEF Refuses
  <2> QED BY <2>2, <2>3
<1>7. CASE ClientReceives(q)
  <2>1. UNCHANGED <<players, voteElapsed, mapVotes, gameThread, toHost>>
    BY <1>7 DEF ClientReceives, vars, engineVars, voteVars
  <2>2. p \in players /\ p \in Players
    BY <1>1, <2>1
  <2>3. CASE p = q
    <3>1. /\ toClient[p] # <<>> /\ toClient'[p] = Tail(toClient[p])
          /\ screen'[p] = MessageReceived(screen[p], Head(toClient[p]))
      BY <1>1, <1>7, <2>3 DEF ClientReceives, SessionTypeOK
    <3>2. /\ Head(toClient[p]) \in Messages /\ Head(toClient[p]) = toClient[p][1]
          /\ Len(toClient[p]) \in Nat \ {0} /\ Len(toClient'[p]) = Len(toClient[p]) - 1
          /\ \A k \in 1..(Len(toClient[p]) - 1) : toClient'[p][k] = toClient[p][k + 1]
      BY <1>2, <2>2, <3>1, TailAt
    <3>3. toClient[p][1].type # "VotingOptions" /\ screen'[p].selected = screen[p].selected
      BY <1>2, <2>2, <3>1, <3>2, MessageReceivedType
    <3>4. \A k \in 1..Len(toClient[p]) :
            k = 1 \/ (k - 1 \in 1..Len(toClient'[p]) /\ toClient[p][k] = toClient'[p][k - 1])
      BY <3>2
    <3>5. NoBallot(toClient[p], Len(toClient[p]))
      BY <3>3, <3>4 DEF NoBallot
    <3> QED BY <1>3, <2>1, <2>2, <3>3, <3>5
  <2>4. CASE p # q
    <3>1. toClient'[p] = toClient[p] /\ screen'[p] = screen[p]
      BY <1>1, <1>7, <2>2, <2>4 DEF ClientReceives, SessionTypeOK
    <3> QED BY <1>3, <2>1, <2>2, <3>1
  <2> QED BY <2>3, <2>4
<1>8. ASSUME NEW i \in Votes, SubmitVote(q, i)
      PROVE  Arrives(screen'[p].selected, toHost'[p], mapVotes'[NameOf[p]])
  <2>1. UNCHANGED <<players, voteElapsed, mapVotes, gameThread, toClient>>
    BY <1>8 DEF SubmitVote, vars, engineVars, voteVars
  <2>2. p \in players /\ p \in Players
    BY <1>1, <2>1
  <2>3. CASE p = q
    <3>1. toHost'[p] = Append(toHost[p], i) /\ screen'[p].selected = i
      BY <1>1, <1>2, <1>8, <2>2, <2>3 DEF SubmitVote, SessionTypeOK, Screens
    <3>2. /\ Len(toHost[p]) \in Nat /\ Len(toHost'[p]) = Len(toHost[p]) + 1
          /\ toHost'[p][Len(toHost[p]) + 1] = i
      BY <1>2, <2>2, <3>1, AppendAt
    <3>3. toHost'[p] # <<>>
      BY <3>2
    <3> QED BY <3>1, <3>2, <3>3 DEF Arrives
  <2>4. CASE p # q
    <3>1. toHost'[p] = toHost[p] /\ screen'[p] = screen[p]
      BY <1>1, <1>8, <2>2, <2>4 DEF SubmitVote, SessionTypeOK
    <3> QED BY <1>3, <2>1, <2>2, <3>1
  <2> QED BY <2>3, <2>4
<1>9. CASE Hides(q)
  <2>1. p \in players /\ p \in Players /\ screen'[p].selected = screen[p].selected
    BY <1>1, <1>2, <1>9 DEF Hides, SessionTypeOK, Screens
  <2> QED BY <1>3, <1>9, <2>1 DEF Hides
<1>10. CASE JoinsQuietly(q)
  BY <1>10 DEF JoinsQuietly
<1>11. CASE Departs(q)
  <2>1. p \in players /\ p # q /\ p \in Players
    BY <1>1, <1>11 DEF Departs
  <2>2. toClient'[p] = toClient[p] /\ toHost'[p] = toHost[p]
    BY <1>1, <1>11, <2>1 DEF Departs, SessionTypeOK
  <2> QED BY <1>3, <1>11, <2>1, <2>2 DEF Departs
<1> QED BY <1>4, <1>5, <1>6, <1>7, <1>8, <1>9, <1>10, <1>11 DEF PlayerKinds

\* Where no two players share a name and the number of options is left alone, a
\* selection that is displayed during a vote is the vote the host has logged, once
\* nothing is on its way in either direction.
THEOREM SelectionIsAlwaysCounted ==
  DistinctNames /\ OneOptionCount => (SessionSpec => []SelectionIsCounted)
<1> SUFFICES ASSUME DistinctNames, OneOptionCount PROVE SessionSpec => []SelectionIsCounted
  OBVIOUS
<1>1. SessionInit => RangeInv /\ SelectionInv
  <2> SUFFICES ASSUME SessionInit PROVE RangeInv /\ SelectionInv
    OBVIOUS
  <2>1. voteElapsed = NotSet
    BY DEF SessionInit, Init
  <2>2. \A p \in Players : screen[p].selected = 0
    BY DEF SessionInit, EmptyScreen
  <2> QED BY <2>1, <2>2 DEF RangeInv, SelectionInv
<1>2. ASSUME SessionInv, SessionInv', RangeInv, SelectionInv, [SessionNext]_allVars
      PROVE  RangeInv' /\ SelectionInv'
  <2>1. RangeInv'
    BY <1>2, RangeStep
  <2>2. VotingInv /\ SessionTypeOK /\ ActiveInv
    BY <1>2 DEF SessionInv
  <2>3. ASSUME HostStep PROVE SelectionInv'
    BY <1>2, <2>2, <2>3, HostStepKinds, SelectionHostStep
  <2>4. ASSUME NEW p \in Players, PlayerStep(p) PROVE SelectionInv'
    BY <1>2, <2>2, <2>4, PlayerStepKinds, SelectionPlayerStep
  <2>5. ASSUME UNCHANGED allVars PROVE SelectionInv'
    BY <1>2, <2>5 DEF allVars, vars, engineVars, voteVars, sessionVars, packetVars,
                      SelectionInv
  <2> QED BY <1>2, <2>1, <2>3, <2>4, <2>5 DEF SessionNext
<1>3. SelectionInv => SelectionIsCounted
  BY DEF SelectionInv, SelectionIsCounted, UpToDate, NoBallot, Arrives
<1> QED BY <1>1, <1>2, <1>3, SessionInvariant, PTL DEF SessionSpec

-----------------------------------------------------------------------------
(* A lobby is quiet for a reason.                                          *)

\* Where the session is: an info server runs only with a session, the main menu
\* is not loaded during a game, and a lobby is on the main menu.
PlaceInv ==
  /\ lifecycle \in {"None", "Leaving"} => ~infoSocketOpen
  /\ lifecycle \in {"StartGame", "InGame"} => ~menuLoaded /\ mapName = "ingame"
  /\ lifecycle \in {"None", "PreGame"} => mapName = "mainmenu"

\* Nothing of a vote is under way in a lobby where one could be.
Quiet ==
  /\ hosting /\ lifecycle = "PreGame" /\ menuLoaded /\ votingEnabled
  /\ ~idle /\ gameThread = "running"
  /\ voteElapsed = NotSet /\ winnerElapsed = NotSet /\ ~revoteFlag /\ ~startRequested

QuietInv == Quiet => quietBecause # "nothing"

\* Every step of the host knows where it is.
LEMMA PlaceStep ==
  ASSUME PlaceInv, [Next]_vars
  PROVE  PlaceInv'
<1> USE DEF PlaceInv, engineVars
<1>1. CASE Tick
  BY <1>1 DEF Tick, TickWakeUp, TickGoIdle, TickVote
<1>2. ASSUME NEW p \in Players, NEW vote \in Votes, LogVote(p, vote) PROVE PlaceInv'
  BY <1>2 DEF LogVote
<1>3. CASE Operator
  BY <1>3 DEF Operator, CancelVoteInProgress, Enable, Disable, SetNumberOfVotingOptions
<1>4. CASE Clock
  BY <1>4 DEF Clock
<1>5. CASE UNCHANGED vars
  BY <1>5 DEF vars
<1>6. CASE Engine
  <2>1. ASSUME NEW online \in BOOLEAN, NEW est \in BOOLEAN, NEW bound \in BOOLEAN,
               CreateSession(online, est, bound)
        PROVE  PlaceInv'
    BY <2>1 DEF CreateSession
  <2>2. CASE LeaveSession \/ SessionGone
    BY <2>2 DEF LeaveSession, SessionGone
  <2>3. CASE StartGame \/ GameRuns \/ GameEnds
    BY <2>3 DEF StartGame, GameRuns, GameEnds
  <2>4. CASE MapLoaded
    BY <2>4 DEF MapLoaded
  <2>5. ASSUME NEW p \in Players, PlayerJoins(p) \/ PlayerLeaves(p) PROVE PlaceInv'
    BY <2>5 DEF PlayerJoins, PlayerLeaves
  <2> QED BY <1>6, <2>1, <2>2, <2>3, <2>4, <2>5 DEF Engine
<1> QED BY <1>1, <1>2, <1>3, <1>4, <1>5, <1>6 DEF Next

\* A vote that is started in a lobby leaves it quiet only when the host is idle.
LEMMA NewVoteIsHeard ==
  ASSUME VotingInv, NEW est, StartNewVote(est), est, votingEnabled, ~idle,
         gameThread = "running", gameThread' = "running"
  PROVE  voteElapsed' # NotSet
<1>1. voteElapsed' = 0
  BY NewVoteKinds, Zenon
<1> QED BY <1>1 DEF NotSet

\* A frame: what ends a vote leaves a winner, a revote or a refused start.
LEMMA QuietTick ==
  ASSUME VotingInv, PlaceInv, QuietInv, HostTick
  PROVE  QuietInv'
<1> SUFFICES ASSUME Quiet', quietBecause' = "nothing" PROVE FALSE
  BY DEF QuietInv
<1>1. /\ TypeOK /\ Tick /\ UNCHANGED <<engineVars, configVars>>
      /\ gameThread = "running" /\ gameThread' = "running" /\ ~idle'
      /\ voteElapsed' = NotSet /\ winnerElapsed' = NotSet
      /\ ~revoteFlag' /\ ~startRequested'
  BY DEF VotingInv, HostTick, Tick, TickWakeUp, TickGoIdle, TickVote, TickGate, Quiet
<1>2. mapName = "mainmenu"
  BY <1>1 DEF PlaceInv, Quiet, engineVars
<1>3. ASSUME NEW used \in Nat, StartVoting(used) PROVE FALSE
  BY <1>1, <1>3, DrawOpens DEF NotSet
<1>4. CASE TickWakeUp
  BY <1>1, <1>2, <1>3, <1>4 DEF TickWakeUp, TypeOK
<1>5. CASE TickGoIdle
  BY <1>1, <1>5 DEF TickGoIdle
<1>6. CASE TickVote
  <2>1. ~idle /\ players # {} /\ ~revoteFlag
    <3> SUFFICES ASSUME revoteFlag PROVE FALSE
      BY <1>6 DEF TickVote
    <3>1. winnerElapsed = NotSet
      BY DEF VotingInv, WinnerWaitsAlone
    <3> QED BY <1>1, <1>3, <1>6, <3>1 DEF TickVote, TypeOK
  <2>2. ~TickDraws
    BY <2>1 DEF TickDraws
  <2>3. CASE winnerElapsed # NotSet /\ winnerElapsed > TimeBetweenVoteEndAndGameStart
    <3>1. StartRefused
      BY <1>1, <2>1, <2>3 DEF StartRefused
    <3> QED BY <2>2, <3>1 DEF HostTick
  <2>4. CASE ~(winnerElapsed # NotSet /\ winnerElapsed > TimeBetweenVoteEndAndGameStart)
    <3>1. winnerElapsed = NotSet /\ voteElapsed = NotSet /\ ~startRequested
      BY <1>1, <1>6, <2>1, <2>4 DEF TickVote, FindWinner, NotSet
    <3>2. Quiet
      BY <1>1, <2>1, <3>1 DEF Quiet, engineVars, configVars
    <3>3. ~StartRefused
      BY <3>1, TimesAssumption DEF StartRefused, NotSet
    <3>4. quietBecause' = quietBecause
      BY <2>2, <3>3 DEF HostTick
    <3> QED BY <3>2, <3>4 DEF QuietInv
  <2> QED BY <2>3, <2>4
<1> QED BY <1>1, <1>4, <1>5, <1>6 DEF Tick

\* The other steps.
LEMMA QuietStep ==
  ASSUME VotingInv, SessionTypeOK, PlaceInv, QuietInv, [SessionNext]_allVars
  PROVE  QuietInv'
<1> USE DEF QuietInv, Quiet, engineVars, configVars, voteVars, sessionVars, packetVars
<1>0. TypeOK
  BY DEF VotingInv
<1>1. CASE HostOperator
  BY <1>1 DEF HostOperator
<1>2. CASE HostSetsNumberOfVotingOptions
  BY <1>2 DEF HostSetsNumberOfVotingOptions, SetNumberOfVotingOptions
<1>3. ASSUME NEW online \in BOOLEAN, NEW est \in BOOLEAN, NEW bound \in BOOLEAN,
             HostCreatesSession(online, est, bound)
      PROVE  QuietInv'
  <2>1. CASE ~(online /\ est)
    BY <1>3, <2>1 DEF HostCreatesSession
  <2>2. CASE online /\ est
    <3>1. StartNewVote(est) /\ gameThread = "running" /\ UNCHANGED <<votingEnabled, idle>>
      BY <1>3, <2>2 DEF HostCreatesSession, CreateSession, PlaceInv
    <3> QED BY <2>2, <3>1, NewVoteIsHeard
  <2> QED BY <2>1, <2>2
<1>4. CASE MenuLoads
  <2>1. gameThread = "running" /\ UNCHANGED <<votingEnabled, idle, hosting>>
    BY <1>4 DEF MenuLoads, MapLoaded
  <2>2. CASE ~infoSocketOpen
    BY <1>4, <2>2 DEF MenuLoads
  <2>3. CASE infoSocketOpen
    <3>1. StartNewVote(hosting)
      BY <1>4, <2>3 DEF MenuLoads, MapLoaded
    <3> QED BY <2>1, <3>1, NewVoteIsHeard
  <2> QED BY <2>2, <2>3
<1>5. CASE HostLeaves \/ SessionCloses \/ HostStartsGame
  BY <1>5 DEF HostLeaves, LeaveSession, SessionCloses, SessionGone, HostStartsGame, StartGame
<1>6. CASE HostGameGoesOn
  BY <1>6 DEF HostGameGoesOn, GameRuns, GameEnds, PlaceInv
<1>7. CASE Second
  <2>1. /\ voteElapsed' = NotSet => voteElapsed = NotSet
        /\ winnerElapsed' = NotSet => winnerElapsed = NotSet
    BY <1>0, <1>7, TimesAssumption DEF Second, Clock, Elapse, TypeOK, NotSet
  <2> QED BY <1>7, <2>1 DEF Second, Clock
<1>8. ASSUME NEW p \in Players, PlayerStep(p) PROVE QuietInv'
  <2>1. CASE Joins(p) \/ Leaves(p)
    BY <2>1 DEF Joins, PlayerJoins, Leaves, PlayerLeaves
  <2>2. CASE HostReceivesVote(p)
    <3>1. quietBecause' = quietBecause
      BY <2>2 DEF HostReceivesVote
    <3>2. CASE LogVote(p, Head(toHost[p]))
      BY <3>2 DEF LogVote
    <3>3. CASE UNCHANGED vars
      BY <3>1, <3>3 DEF vars
    <3> QED BY <2>2, <3>2, <3>3 DEF HostReceivesVote, ReceivedVote
  <2>3. CASE UpdatesProperties(p) \/ ClientReceives(p) \/ CloseScreen(p) \/ ClientStartsGame(p)
    BY <2>3 DEF UpdatesProperties, ClientReceives, CloseScreen, ClientStartsGame, vars
  <2>4. ASSUME NEW i \in Votes, SubmitVote(p, i) PROVE QuietInv'
    BY <2>4 DEF SubmitVote, vars
  <2> QED BY <1>8, <2>1, <2>2, <2>3, <2>4 DEF PlayerStep
<1>9. CASE UNCHANGED allVars
  BY <1>9 DEF allVars, vars
<1> HIDE DEF QuietInv
<1>10. CASE HostTick
  BY <1>10, QuietTick
<1> QED
  BY <1>1, <1>2, <1>3, <1>4, <1>5, <1>6, <1>7, <1>8, <1>9, <1>10 DEF SessionNext, HostStep

\* A lobby with players in which nothing is under way has been brought there by
\* the operator, by a refused Game.Start, by a session created offline or before
\* the engine counted it as established, or by an info server without a port.
THEOREM LobbyIsAlwaysQuietForAReason == SessionSpec => []LobbyIsQuietForAReason
<1>1. SessionInit => PlaceInv /\ QuietInv
  BY DEF SessionInit, Init, PlaceInv, QuietInv, Quiet
<1>2. ASSUME SessionInv, PlaceInv, QuietInv, [SessionNext]_allVars
      PROVE  PlaceInv' /\ QuietInv'
  <2>1. VotingInv /\ SessionTypeOK
    BY <1>2 DEF SessionInv
  <2>2. [Next]_vars
    BY <1>2, <2>1, SessionRunsHost
  <2> QED BY <1>2, <2>1, <2>2, PlaceStep, QuietStep
<1>3. QuietInv => LobbyIsQuietForAReason
  BY DEF QuietInv, Quiet, LobbyIsQuietForAReason
<1> QED BY <1>1, <1>2, <1>3, SessionInvariant, PTL DEF SessionSpec

=============================================================================
