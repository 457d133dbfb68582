----------------------------- MODULE VotingSystem -----------------------------
(***************************************************************************)
(* The map vote of a host (Server/VotingSystem.cpp).  Between two games    *)
(* the host draws a ballot of map/gametype pairs, broadcasts it, logs one  *)
(* vote per player name, and when the voting time is over either selects   *)
(* the winner (the game starts some seconds later) or, when the "Revote"   *)
(* option wins, draws another ballot.                                      *)
(*                                                                         *)
(* Everything here runs on the game thread, once per frame or in a         *)
(* callback of the engine, so each handler is one atomic step.  The two    *)
(* time stamps are kept as the seconds elapsed since they were taken,      *)
(* NotSet standing for the code's 0, because the code only ever uses the   *)
(* difference to the current time.                                         *)
(***************************************************************************)
EXTENDS Integers, FiniteSets, Sequences

CONSTANTS
  Players,                \* players that may be in the session
  Names,                  \* display names
  NameOf,                 \* the display name of each player
  Votes,                  \* option numbers a Vote message may carry (1..5)
  Maps,                   \* maps a Voting.json may name
  MapDisplayName,         \* mapDisplayName of each map, as the file gives it
  TypeDisplayName,        \* typeDisplayName of each gametype's name
  KnownMaps,              \* the maps that exist: MapList and CustomMapList
  DefaultMaps,            \* the maps loadDefaultMapsAndTypes finds an id for
  DefaultTypes,           \* the gametypes it adds, each with its own maps
  VotingJsons,            \* contents a Voting.json may have, see LoadVotingJson
  OptionCounts,           \* values given to Server.NumberOfVotingOptions
  MapVotingTime,          \* Server.MapVotingTime, seconds
  TimeBetweenVoteEndAndGameStart,
  NumberOfRevotesAllowed,
  VotingDuplicationLevel  \* 0, 1 or 2

GameTypes == [name : STRING, specificMaps : SUBSET Maps]

ASSUME NamesAssumption    == NameOf \in [Players -> Names] /\ IsFiniteSet(Names)
ASSUME VotesAssumption    == Votes \subseteq 1..5
ASSUME MapsAssumption     == KnownMaps \subseteq Maps /\ DefaultMaps \subseteq KnownMaps
ASSUME TypesAssumption    == DefaultTypes \subseteq GameTypes
ASSUME OptionsAssumption  == OptionCounts \subseteq 1..4
ASSUME TimesAssumption    == /\ MapVotingTime \in Nat
                             /\ TimeBetweenVoteEndAndGameStart \in Nat
ASSUME RevotesAssumption  == NumberOfRevotesAllowed \in Nat
ASSUME LevelAssumption    == VotingDuplicationLevel \in 0..2
ASSUME JsonAssumption     ==
  \A doc \in VotingJsons :
    /\ doc.readable \in BOOLEAN
    /\ doc.maps \subseteq Maps
    /\ doc.types \subseteq GameTypes
ASSUME DisplayAssumption  ==
  /\ DOMAIN MapDisplayName = Maps
  /\ \A t \in DefaultTypes \cup UNION {doc.types : doc \in VotingJsons} :
       t.name \in DOMAIN TypeDisplayName

NotSet == -1              \* a time stamp that is 0 in the code
NoVote == 0               \* a name that is not a key of mapVotes

VARIABLES
  \* --- the engine's session, as the voting code reads it
  hosting,                \* the session is established and this peer is its host
  lifecycle,              \* Blam::Network::LifeCycleState
  mapName,                \* the map the game is on: "mainmenu" or "ingame"
  menuLoaded,             \* the main menu has finished loading
  infoSocketOpen,         \* Patches::Network::infoSocketOpen
  players,                \* the players in the membership
  startRequested,         \* Game.Start has set the session mode
  \* --- Server.* variables the operator changes while the server runs
  votingEnabled,
  numOptions,             \* Server.NumberOfVotingOptions
  \* --- the state of VotingSystem.cpp
  haloMaps, gameTypes,    \* the pool
  idle,
  revoteFlag,
  numberOfRevotesUsed,
  voteElapsed,            \* time since voteStartedTime
  winnerElapsed,          \* time since winnerChosenTime
  currentVotingOptions,
  mapVotes,
  selected,               \* the option given to Game.Map and Game.GameType
  gameThread,             \* "running", "hung" in a loop or "crashed"
  cast                    \* history: the vote each player cast since mapVotes
                          \* was last cleared

engineVars == <<hosting, lifecycle, mapName, menuLoaded, infoSocketOpen, players>>
configVars == <<votingEnabled, numOptions>>
poolVars   == <<haloMaps, gameTypes>>
voteVars   == <<voteElapsed, winnerElapsed, numberOfRevotesUsed, mapVotes, cast>>
vars == <<engineVars, startRequested, configVars, poolVars, idle, revoteFlag,
          voteVars, currentVotingOptions, selected, gameThread>>

-----------------------------------------------------------------------------
(* The pool and the ballots drawn from it.                                 *)

Option == [map : Maps, type : STRING]
NoOption == [map |-> "none", type |-> "none"]

\* Options GenerateVotingOption can return.
Candidates ==
  UNION {{[map |-> m, type |-> t.name] :
            m \in IF t.specificMaps # {} THEN t.specificMaps ELSE haloMaps} :
         t \in gameTypes}

\* rand() % haloMaps.size() with no maps, or rand() % gameTypes.size() with no
\* gametypes: the draw divides by zero.
DrawMayCrash ==
  \/ gameTypes = {}
  \/ haloMaps = {} /\ \E t \in gameTypes : t.specificMaps = {}

\* What a player sees of an option.
DisplayOf(o) == <<MapDisplayName[o.map], TypeDisplayName[o.type]>>

SameMap(o, p)  == MapDisplayName[o.map] = MapDisplayName[p.map]
SameType(o, p) == TypeDisplayName[o.type] = TypeDisplayName[p.type]

\* Mutant: either part alone makes a duplicate at level 1 too.
SameOptionEither(o, p) ==
  VotingDuplicationLevel # 2 /\ (SameMap(o, p) \/ SameType(o, p))

\* MapAndType::operator==, which looks at what is displayed only.
SameOption(o, p) ==
  CASE VotingDuplicationLevel = 0 -> SameMap(o, p) \/ SameType(o, p)
    [] VotingDuplicationLevel = 1 -> SameMap(o, p) /\ SameType(o, p)
    [] OTHER -> FALSE

\* The ballots of n options the drawing loop of StartVoting can produce.
Ballots(n) ==
  {b \in [1..n -> Candidates] :
     \A i, j \in 1..n : i < j => ~SameOption(b[j], b[i])}

\* The loop has drawn a ballot b of fewer than n options that every candidate
\* duplicates: it never leaves its inner while.
DrawHangs(n) ==
  \E k \in 0..(n - 1) : \E b \in Ballots(k) :
    \A o \in Candidates : \E i \in 1..k : SameOption(o, b[i])

\* Mutant: one revote too many is offered.
BallotOptionsOneMore(b, n, revotesUsed) ==
  LET drawn  == [i \in 1..n |-> [option |-> b[i], index |-> i,
                                 isRevoteOption |-> FALSE, Count |-> 0]]
      revote == [option |-> NoOption, index |-> n + 1,
                 isRevoteOption |-> TRUE, Count |-> 0]
  IN IF revotesUsed <= NumberOfRevotesAllowed THEN Append(drawn, revote) ELSE drawn

\* The options of a vote: the drawn ballot and, while revotes are left, Revote.
BallotOptions(b, n, revotesUsed) ==
  LET drawn  == [i \in 1..n |-> [option |-> b[i], index |-> i,
                                 isRevoteOption |-> FALSE, Count |-> 0]]
      revote == [option |-> NoOption, index |-> n + 1,
                 isRevoteOption |-> TRUE, Count |-> 0]
  IN IF revotesUsed < NumberOfRevotesAllowed THEN Append(drawn, revote) ELSE drawn

-----------------------------------------------------------------------------
(* Helpers of the handlers.                                                *)

NoVotes == [n \in Names |-> NoVote]
NoneCast == [p \in Players |-> NoVote]

\* Mutants of Reset: each forgets one of the four assignments.
ResetKeepsRevotes ==
  /\ winnerElapsed' = NotSet /\ voteElapsed' = NotSet
  /\ mapVotes' = NoVotes /\ cast' = NoneCast
  /\ UNCHANGED numberOfRevotesUsed
ResetKeepsWinner ==
  /\ numberOfRevotesUsed' = 0 /\ voteElapsed' = NotSet
  /\ mapVotes' = NoVotes /\ cast' = NoneCast
  /\ UNCHANGED winnerElapsed
ResetKeepsVotes ==
  /\ numberOfRevotesUsed' = 0 /\ winnerElapsed' = NotSet /\ voteElapsed' = NotSet
  /\ UNCHANGED <<mapVotes, cast>>

Reset ==
  /\ numberOfRevotesUsed' = 0
  /\ winnerElapsed' = NotSet
  /\ voteElapsed' = NotSet
  /\ mapVotes' = NoVotes
  /\ cast' = NoneCast

\* StartVoting once it is past its idle check.  The draw can fail in two ways.
StartVoting(revotesUsed) ==
  \/ /\ \E b \in Ballots(numOptions) :
          currentVotingOptions' = BallotOptions(b, numOptions, revotesUsed)
     /\ voteElapsed' = 0
     /\ UNCHANGED gameThread
  \/ /\ DrawMayCrash \/ DrawHangs(numOptions)
     /\ gameThread' = IF DrawMayCrash THEN "crashed" ELSE "hung"
     /\ UNCHANGED <<currentVotingOptions, voteElapsed>>   \* never read again

VotingActive == hosting /\ votingEnabled

\* StartNewVote for a host whose session counts as established when est holds.
StartNewVote(est) ==
  IF ~(est /\ votingEnabled)
    THEN UNCHANGED <<voteVars, currentVotingOptions, gameThread>>
    ELSE IF idle
      THEN Reset /\ UNCHANGED <<currentVotingOptions, gameThread>>
      ELSE /\ numberOfRevotesUsed' = 0
           /\ winnerElapsed' = NotSet
           /\ mapVotes' = NoVotes
           /\ cast' = NoneCast
           /\ StartVoting(0)

\* The logged votes for option number i.
VotesFor(votes, i) == Cardinality({n \in Names : votes[n] = i})

\* countVotes: one count per logged vote that names an option of the ballot.
CountVotes(options, votes) ==
  [i \in 1..Len(options) |->
     [options[i] EXCEPT !.Count = @ + VotesFor(votes, i)]]

\* Mutant: among equals the former option comes last.
SortsBeforeFormerLast(options, i, j) ==
  \/ options[i].Count < options[j].Count
  \/ options[i].Count = options[j].Count /\ i > j

\* operator< compares the counts only; what becomes of options with equal counts
\* is up to std::sort.  The build's sorts a range as short as a ballot (at most
\* five options) by insertion, which leaves them in their order.
SortsBefore(options, i, j) ==
  \/ options[i].Count < options[j].Count
  \/ options[i].Count = options[j].Count /\ i < j

SortRank(options, i) ==
  Cardinality({j \in 1..Len(options) : SortsBefore(options, j, i)}) + 1

Sorted(options) ==
  [k \in 1..Len(options) |->
     options[CHOOSE i \in 1..Len(options) : SortRank(options, i) = k]]

FindWinner(revotesUsed, votes) ==
  LET sorted == Sorted(CountVotes(currentVotingOptions, votes))
      winningOption == sorted[Len(sorted)]
  IN /\ currentVotingOptions' = sorted
     /\ voteElapsed' = NotSet
     /\ mapVotes' = NoVotes
     /\ cast' = NoneCast
     /\ IF winningOption.isRevoteOption
          THEN /\ numberOfRevotesUsed' = revotesUsed + 1
               /\ revoteFlag' = TRUE
               /\ UNCHANGED <<winnerElapsed, selected>>
          ELSE /\ selected' = winningOption.option
               /\ winnerElapsed' = 0
               /\ numberOfRevotesUsed' = revotesUsed
               /\ UNCHANGED revoteFlag

\* LoadVotingJson: the pool a file gives, and whether the file was usable.
LoadVotingJson(doc) ==
  LET maps  == IF doc.readable THEN doc.maps \cap KnownMaps ELSE {}
      types == IF doc.readable
                 THEN {[t EXCEPT !.specificMaps = @ \cap KnownMaps] : t \in doc.types}
                 ELSE {}
  IN [maps |-> maps, types |-> types, ok |-> Cardinality(types) >= 2]

\* LoadVotingJson, then loadDefaultMapsAndTypes when it returned false.  The
\* defaults are added to whatever the file gave.
LoadPool(doc) ==
  LET json == LoadVotingJson(doc)
  IN /\ haloMaps'  = IF json.ok THEN json.maps  ELSE json.maps \cup DefaultMaps
     /\ gameTypes' = IF json.ok THEN json.types ELSE json.types \cup DefaultTypes

-----------------------------------------------------------------------------
(* The state when Voting::Init has run and the main menu is loading.       *)
Init ==
  /\ hosting = FALSE /\ lifecycle = "None" /\ mapName = "mainmenu"
  /\ menuLoaded = FALSE /\ infoSocketOpen = FALSE /\ players = {}
  /\ startRequested = FALSE
  /\ votingEnabled \in BOOLEAN
  /\ numOptions \in OptionCounts
  /\ \E doc \in VotingJsons :
       LET json == LoadVotingJson(doc)
       IN /\ haloMaps  = IF json.ok THEN json.maps  ELSE json.maps \cup DefaultMaps
          /\ gameTypes = IF json.ok THEN json.types ELSE json.types \cup DefaultTypes
  /\ idle = FALSE /\ revoteFlag = FALSE /\ numberOfRevotesUsed = 0
  /\ voteElapsed = NotSet /\ winnerElapsed = NotSet
  /\ currentVotingOptions = <<>>
  /\ mapVotes = NoVotes /\ cast = NoneCast
  /\ selected = NoOption
  /\ gameThread = "running"

-----------------------------------------------------------------------------
(* Tick, one frame.  It returns at once unless VotingActive.               *)

TickGate == gameThread = "running" /\ VotingActive

\* Mutant: no vote is started for the player who is there again.
TickWakeUpQuietly ==
  /\ TickGate /\ idle /\ players # {}
  /\ idle' = FALSE
  /\ UNCHANGED <<engineVars, startRequested, configVars, poolVars, revoteFlag, selected,
                 voteVars, currentVotingOptions, gameThread>>

\* Idle and a player is there again.
TickWakeUp ==
  /\ TickGate /\ idle /\ players # {}
  /\ idle' = FALSE
  /\ IF mapName = "mainmenu"
       THEN /\ StartVoting(numberOfRevotesUsed)
            /\ UNCHANGED <<winnerElapsed, numberOfRevotesUsed, mapVotes, cast>>
       ELSE UNCHANGED <<voteVars, currentVotingOptions, gameThread>>
  /\ UNCHANGED <<engineVars, startRequested, configVars, poolVars, revoteFlag, selected>>

\* The last player has left.
TickGoIdle ==
  /\ TickGate /\ ~idle /\ players = {}
  /\ idle' = TRUE
  /\ Reset
  /\ UNCHANGED <<engineVars, startRequested, configVars, poolVars, revoteFlag,
                 currentVotingOptions, selected, gameThread>>

\* Start the game of a winner that was chosen long enough ago; then restart the
\* vote, or end it when its time is over.
TickVote ==
  /\ TickGate /\ ~idle /\ players # {}
  /\ LET due    == /\ winnerElapsed # NotSet
                   /\ winnerElapsed > TimeBetweenVoteEndAndGameStart
         used   == IF due THEN 0 ELSE numberOfRevotesUsed
         winner == IF due THEN NotSet ELSE winnerElapsed
         vote   == IF due THEN NotSet ELSE voteElapsed
         votes  == IF due THEN NoVotes ELSE mapVotes
         casts  == IF due THEN NoneCast ELSE cast
     IN /\ \/ due /\ startRequested' = TRUE   \* Game.Start; SetSessionMode may refuse
           \/ UNCHANGED startRequested
        /\ IF revoteFlag
             THEN /\ StartVoting(used)
                  /\ revoteFlag' = FALSE
                  /\ numberOfRevotesUsed' = used /\ winnerElapsed' = winner
                  /\ mapVotes' = votes /\ cast' = casts
                  /\ UNCHANGED selected
             ELSE IF vote # NotSet /\ vote >= MapVotingTime
               THEN FindWinner(used, votes) /\ UNCHANGED gameThread
               ELSE /\ numberOfRevotesUsed' = used /\ winnerElapsed' = winner
                    /\ voteElapsed' = vote /\ mapVotes' = votes /\ cast' = casts
                    /\ UNCHANGED <<revoteFlag, currentVotingOptions, selected, gameThread>>
  /\ UNCHANGED <<engineVars, configVars, poolVars, idle>>

Tick == TickWakeUp \/ TickGoIdle \/ TickVote

-----------------------------------------------------------------------------
(* Messages and commands.                                                  *)

\* Mutants: a first vote is final; the tally is left on the ballot.
RecordFirstVote(votes, name, vote) ==
  IF votes[name] = NoVote THEN [votes EXCEPT ![name] = vote] ELSE votes
TallyLeft(options, votes) == CountVotes(options, votes)

\* A later vote of the same name replaces the earlier one.
RecordVote(votes, name, vote) == [votes EXCEPT ![name] = vote]

\* The options are counted for the broadcast tally, then their counts set back.
TallyBroadcast(options, votes) ==
  [i \in 1..Len(options) |-> [CountVotes(options, votes)[i] EXCEPT !.Count = 0]]

\* A Vote message of player p.
LogVote(p, vote) ==
  /\ gameThread = "running" /\ VotingActive /\ voteElapsed # NotSet
  /\ p \in players
  /\ vote <= numOptions + 1
  /\ mapVotes' = RecordVote(mapVotes, NameOf[p], vote)
  /\ cast' = [cast EXCEPT ![p] = vote]
  /\ currentVotingOptions' = TallyBroadcast(currentVotingOptions, mapVotes')
  /\ UNCHANGED <<engineVars, startRequested, configVars, poolVars, idle, revoteFlag,
                 voteElapsed, winnerElapsed, numberOfRevotesUsed, selected, gameThread>>

\* Server.CancelVote
CancelVoteInProgress ==
  /\ gameThread = "running"
  /\ Reset
  /\ UNCHANGED <<engineVars, startRequested, configVars, poolVars, idle, revoteFlag,
                 currentVotingOptions, selected, gameThread>>

\* Server.VotingEnabled 1: Enable reads Voting.json again.
Enable(doc) ==
  /\ gameThread = "running"
  /\ votingEnabled' = TRUE
  /\ Reset
  /\ LoadPool(doc)
  /\ UNCHANGED <<engineVars, startRequested, numOptions, idle, revoteFlag,
                 currentVotingOptions, selected, gameThread>>

\* Server.VotingEnabled 0
Disable ==
  /\ gameThread = "running"
  /\ votingEnabled' = FALSE
  /\ Reset
  /\ UNCHANGED <<engineVars, startRequested, numOptions, poolVars, idle, revoteFlag,
                 currentVotingOptions, selected, gameThread>>

\* Mutant: the range check is off by one.
SetOneMoreVotingOption(n) ==
  /\ gameThread = "running"
  /\ numOptions' = n + 1
  /\ UNCHANGED <<engineVars, startRequested, votingEnabled, poolVars, idle, revoteFlag,
                 voteVars, currentVotingOptions, selected, gameThread>>

\* Server.NumberOfVotingOptions n, also while a vote is in progress.
SetNumberOfVotingOptions(n) ==
  /\ gameThread = "running"
  /\ numOptions' = n
  /\ UNCHANGED <<engineVars, startRequested, votingEnabled, poolVars, idle, revoteFlag,
                 voteVars, currentVotingOptions, selected, gameThread>>

-----------------------------------------------------------------------------
(* The engine's events and the callbacks the voting code runs in them.     *)

\* The host creates a session: create_session's hook starts the info server,
\* whose first act is StartNewVote, or stops it for an offline session.  The
\* engine may not yet count the session as established (est), and the info
\* server may find no free port (bound).
CreateSession(online, est, bound) ==
  /\ gameThread = "running" /\ lifecycle = "None" /\ menuLoaded
  /\ hosting' = TRUE
  /\ lifecycle' = "PreGame"
  /\ infoSocketOpen' = (online /\ (infoSocketOpen \/ bound))
  /\ IF online /\ ~infoSocketOpen
       THEN StartNewVote(est)
       ELSE UNCHANGED <<voteVars, currentVotingOptions, gameThread>>
  /\ UNCHANGED <<mapName, menuLoaded, players, startRequested, configVars, poolVars,
                 idle, revoteFlag, selected>>

\* Leaving the session closes the info server; the state None resets the vote.
LeaveSession ==
  /\ gameThread = "running" /\ hosting /\ lifecycle # "Leaving"
  /\ lifecycle' = "Leaving"
  /\ infoSocketOpen' = FALSE
  /\ UNCHANGED <<hosting, mapName, menuLoaded, players, startRequested, configVars,
                 poolVars, idle, revoteFlag, voteVars, currentVotingOptions, selected,
                 gameThread>>

SessionGone ==
  /\ gameThread = "running" /\ lifecycle = "Leaving"
  /\ lifecycle' = "None"
  /\ hosting' = FALSE /\ players' = {} /\ startRequested' = FALSE
  /\ mapName' = "mainmenu"
  /\ Reset
  /\ UNCHANGED <<menuLoaded, infoSocketOpen, configVars, poolVars, idle, revoteFlag,
                 currentVotingOptions, selected, gameThread>>

\* The game starts, because of Game.Start or by hand.
StartGame ==
  /\ gameThread = "running" /\ lifecycle = "PreGame"
  /\ lifecycle' = "StartGame" /\ mapName' = "ingame" /\ menuLoaded' = FALSE
  /\ startRequested' = FALSE
  /\ Reset
  /\ UNCHANGED <<hosting, infoSocketOpen, players, configVars, poolVars, idle,
                 revoteFlag, currentVotingOptions, selected, gameThread>>

GameRuns ==
  /\ gameThread = "running" /\ lifecycle = "StartGame"
  /\ lifecycle' = "InGame"
  /\ UNCHANGED <<hosting, mapName, menuLoaded, infoSocketOpen, players, startRequested,
                 configVars, poolVars, idle, revoteFlag, voteVars,
                 currentVotingOptions, selected, gameThread>>

GameEnds ==
  /\ gameThread = "running" /\ lifecycle = "InGame"
  /\ lifecycle' = "PreGame" /\ mapName' = "mainmenu"
  /\ UNCHANGED <<hosting, menuLoaded, infoSocketOpen, players, startRequested,
                 configVars, poolVars, idle, revoteFlag, voteVars,
                 currentVotingOptions, selected, gameThread>>

\* MapLoadedCallback for the main menu.
MapLoaded ==
  /\ gameThread = "running" /\ ~menuLoaded /\ mapName = "mainmenu"
  /\ menuLoaded' = TRUE
  /\ IF infoSocketOpen
       THEN StartNewVote(hosting)
       ELSE UNCHANGED <<voteVars, currentVotingOptions, gameThread>>
  /\ UNCHANGED <<hosting, lifecycle, mapName, infoSocketOpen, players, startRequested,
                 configVars, poolVars, idle, revoteFlag, selected>>

PlayerJoins(p) ==
  /\ gameThread = "running" /\ hosting /\ p \notin players
  /\ players' = players \cup {p}
  /\ UNCHANGED <<hosting, lifecycle, mapName, menuLoaded, infoSocketOpen, startRequested,
                 configVars, poolVars, idle, revoteFlag, voteVars,
                 currentVotingOptions, selected, gameThread>>

PlayerLeaves(p) ==
  /\ gameThread = "running" /\ p \in players
  /\ players' = players \ {p}
  /\ UNCHANGED <<hosting, lifecycle, mapName, menuLoaded, infoSocketOpen, startRequested,
                 configVars, poolVars, idle, revoteFlag, voteVars,
                 currentVotingOptions, selected, gameThread>>

\* A second passes (time()).  Times are not told apart beyond the first one that
\* passes the comparison of Tick.
Elapse(t, bound) == IF t = NotSet \/ t >= bound THEN t ELSE t + 1

Clock ==
  /\ gameThread = "running"
  /\ voteElapsed' = Elapse(voteElapsed, MapVotingTime)
  /\ winnerElapsed' = Elapse(winnerElapsed, TimeBetweenVoteEndAndGameStart + 1)
  /\ UNCHANGED <<engineVars, startRequested, configVars, poolVars, idle, revoteFlag,
                 numberOfRevotesUsed, mapVotes, cast, currentVotingOptions, selected,
                 gameThread>>

-----------------------------------------------------------------------------
Engine ==
  \/ \E online, est, bound \in BOOLEAN : CreateSession(online, est, bound)
  \/ LeaveSession \/ SessionGone
  \/ StartGame \/ GameRuns \/ GameEnds \/ MapLoaded
  \/ \E p \in Players : PlayerJoins(p) \/ PlayerLeaves(p)

Operator ==
  \/ CancelVoteInProgress
  \/ \E doc \in VotingJsons : Enable(doc)
  \/ Disable
  \/ \E n \in OptionCounts : SetNumberOfVotingOptions(n)

Next ==
  \/ Tick
  \/ \E p \in Players, vote \in Votes : LogVote(p, vote)
  \/ Operator
  \/ Engine
  \/ Clock

Spec == Init /\ [][Next]_vars

\* The game thread runs a frame again and again, and time passes.
FairSpec == Spec /\ WF_vars(Tick) /\ WF_vars(Clock)

-----------------------------------------------------------------------------
(* Properties.                                                             *)

BallotEntry == [option : Option \cup {NoOption}, index : Nat,
                isRevoteOption : BOOLEAN, Count : Nat]

\* The types of the variables of VotingSystem.cpp and of the session it reads.
TypeOK ==
  /\ hosting \in BOOLEAN /\ menuLoaded \in BOOLEAN /\ infoSocketOpen \in BOOLEAN
  /\ lifecycle \in {"None", "PreGame", "StartGame", "InGame", "Leaving"}
  /\ mapName \in {"mainmenu", "ingame"}
  /\ players \subseteq Players
  /\ startRequested \in BOOLEAN /\ votingEnabled \in BOOLEAN
  /\ numOptions \in OptionCounts
  /\ haloMaps \subseteq Maps /\ gameTypes \subseteq GameTypes
  /\ idle \in BOOLEAN /\ revoteFlag \in BOOLEAN
  /\ numberOfRevotesUsed \in Nat
  /\ voteElapsed \in {NotSet} \cup 0..MapVotingTime
  /\ winnerElapsed \in {NotSet} \cup 0..(TimeBetweenVoteEndAndGameStart + 1)
  /\ voteElapsed # NotSet => currentVotingOptions \in Seq(BallotEntry)
  /\ mapVotes \in [Names -> {NoVote} \cup Votes]
  /\ cast \in [Players -> {NoVote} \cup Votes]
  /\ selected \in Option \cup {NoOption}
  /\ gameThread \in {"running", "hung", "crashed"}

\* A chosen winner waits for its game alone: no vote runs beside it and no
\* revote is pending, so Tick never starts a game in the middle of a vote.
WinnerWaitsAlone ==
  winnerElapsed # NotSet => voteElapsed = NotSet /\ ~revoteFlag

\* While a vote is in progress the Count of every option is zero between two
\* handlers and option i is at position i: countVotes always starts from a
\* clean ballot, and a vote for number i means the i-th option displayed.
BallotIsClean ==
  voteElapsed # NotSet =>
    \A i \in 1..Len(currentVotingOptions) :
      currentVotingOptions[i].Count = 0 /\ currentVotingOptions[i].index = i

\* No vote outlives the vote it was logged in, whichever way that vote ended.
NoLingeringVotes ==
  mapVotes # NoVotes => voteElapsed # NotSet

\* Revote can be won at most NumberOfRevotesAllowed times in a row, because
\* StartVoting stops offering it.
RevotesBounded ==
  /\ numberOfRevotesUsed <= NumberOfRevotesAllowed
  /\ \/ numberOfRevotesUsed < NumberOfRevotesAllowed
     \/ voteElapsed = NotSet
     \/ \A i \in 1..Len(currentVotingOptions) : ~currentVotingOptions[i].isRevoteOption

TallyOf(i) == VotesFor(mapVotes, i)

\* Votes are kept by display name: the players who share one have one vote
\* together, and it is for the option one of them chose last and still stands
\* by.  So a name counts at most once, nobody's earlier choice is counted, and a
\* name is left out only when none of its players has voted.
OneVotePerName ==
  \A n \in Names :
    LET chosen == {cast[p] : p \in {q \in Players : NameOf[q] = n}} \ {NoVote}
    IN IF chosen = {} THEN mapVotes[n] = NoVote ELSE mapVotes[n] \in chosen

\* findWinner selects the option with the most votes and, among equals, the
\* latter one ("Ties will be awarded to the latter option").
WinnerHasMostVotes ==
  [][winnerElapsed = NotSet /\ winnerElapsed' # NotSet =>
       \E i \in 1..Len(currentVotingOptions) :
         /\ selected' = currentVotingOptions[i].option
         /\ \A j \in 1..Len(currentVotingOptions) :
              TallyOf(j) < TallyOf(i) \/ (TallyOf(j) = TallyOf(i) /\ j <= i)]_vars

\* The options of the pool that look different.
Displayed == {DisplayOf(o) : o \in Candidates}

\* With duplicates told apart by map and gametype (level 1) or allowed (level
\* 2), the draw of StartVoting can only fail for a pool without maps or with
\* fewer options that look different than a ballot needs: options that share
\* both display names count once, so a pool may be too small without looking it.
DrawFailsOnlyOnSmallPool ==
  gameThread # "running" /\ VotingDuplicationLevel # 0 =>
    haloMaps = {} \/ Cardinality(Displayed) < numOptions

\* No vote is in progress while a game runs: the StartGame callback exists to
\* "reset the state of voting in case people start a game manually".
NoVoteInGame ==
  lifecycle \in {"StartGame", "InGame"} => voteElapsed = NotSet

\* A series of revotes comes to an end: with a winner whose game is started, or
\* because the vote is cancelled.
RevoteSeriesEnds ==
  numberOfRevotesUsed > 0 ~> (numberOfRevotesUsed = 0 \/ gameThread # "running")

\* The invariant that makes the ones above inductive.  An idle host has nothing
\* going on; a revote that is still pending when a vote runs was left over by a
\* Reset, so no revote is used up; a running vote has a ballot of one to five
\* options, with Revote on it only while revotes are left.
VotingInv ==
  /\ TypeOK
  /\ WinnerWaitsAlone
  /\ NoLingeringVotes
  /\ BallotIsClean
  /\ idle => /\ voteElapsed = NotSet /\ winnerElapsed = NotSet
             /\ numberOfRevotesUsed = 0
  /\ revoteFlag /\ voteElapsed # NotSet => numberOfRevotesUsed = 0
  /\ numberOfRevotesUsed <= NumberOfRevotesAllowed
  /\ voteElapsed # NotSet =>
       /\ Len(currentVotingOptions) \in 1..5
       /\ \A i \in 1..Len(currentVotingOptions) :
            currentVotingOptions[i].isRevoteOption =>
              numberOfRevotesUsed < NumberOfRevotesAllowed

-----------------------------------------------------------------------------
(* The abstract map vote this module implements.                           *)

Phase ==
  CASE winnerElapsed # NotSet -> "chosen"
    [] winnerElapsed = NotSet /\ voteElapsed # NotSet -> "voting"
    [] winnerElapsed = NotSet /\ voteElapsed = NotSet ->
         IF revoteFlag /\ numberOfRevotesUsed > 0 THEN "revote" ELSE "none"

Abstract == INSTANCE MapVote WITH
  RevotesAllowed <- NumberOfRevotesAllowed,
  phase   <- Phase,
  revotes <- IF Phase = "none" THEN 0 ELSE numberOfRevotesUsed,
  launch  <- startRequested

\* Every step of the host is a step of the abstract map vote or leaves it as it
\* is: in particular a game is launched only by a chosen winner, a winner is
\* chosen only out of a running vote, and revotes stay within their bound,
\* whatever the order of frames, commands, joins, leaves and session changes.
ImplementsMapVote == Abstract!Spec

=============================================================================
