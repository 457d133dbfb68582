# ElDorito: a verification project in TLA+

ElDorito is a library loaded into the game Halo Online. It hooks the engine, adds a
console with commands and variables, a web based interface, and the parts a game server
needs: map voting, synchronized settings, chat with a flood filter, votes by chat command,
bans, a remote console and announcing to master servers. The engine itself is not in the
repository. This project models the server parts and the layer between the game and its web
interface, model-checks them with TLC on small instances, and proves the properties that
matter most with TLAPS for every value of the constants.

Paths below are relative to `src/ElDorito/Source/`; those that begin with `dist/` are
relative to `src/`.

## 1. Inventory

### Threads and the frame

Almost everything runs on the engine's game thread. `ElDorito::Tick` (ElDorito.cpp:247) is
called once per frame and runs, in this order, variable synchronization, chat (the flood
filter's seconds), patches (announce timer, input), the web layer or the dedicated server,
map voting, chat commands, and the command queue. Packets and engine callbacks (lifecycle
changes, map loaded, join requests, game events) are also delivered on the game thread,
between frames. A handler is therefore one atomic step of a model; what interleaves is the
order of handlers, of the players' messages, of the operator's commands and of the engine's
events. The exception is `Console`, where two threads run commands without a lock and a
step is one access to what they share.

Other threads: the remote console's websocket thread (Server/Rcon.cpp:47), which executes
commands itself; the announce and unannounce threads (Modules/ModuleServer.cpp:236, 246);
the stats thread (Server/DedicatedServer.cpp:329); the logger's flusher
(Utils/Logger.cpp:91); CEF's threads, which hand queries over in a queue. The pages of the
interface run in another process; scripts go to it and queries come back, each in order.

### Components

| Component | State | Operations | Works with | Hard behaviour | What makes it correct |
|---|---|---|---|---|---|
| Map voting, `Server/VotingSystem.cpp` | ballot, votes by name, two time stamps, revotes used, `revoteFlag`, `idle`, pool | Tick, StartNewVote, LogVote, CancelVoteInProgress, Enable/Disable, LoadVotingJson, callbacks | engine lifecycle, `Game.*` commands, info server, voting packets | several ways for a vote to end; a revote pending between two frames; settings changed in a vote; the random draw | the option with most votes wins; nothing of one vote reaches the next; revotes end; a vote never runs in a game |
| Voting packets and screen, `Server/VotingPackets.cpp`, `Web/Ui/VotingScreen.cpp`, `dist/mods/ui/web/screens/voting/voting.js` | what a client shows: ballot, tally, winner, own choice | send, broadcast, receive, vote, close | map voting, web layer | joining during a vote; ballots, tallies and votes that cross; a refused start | a screen shows what the host counts; the marked winner is the map that is started |
| Variable synchronization, `Server/VariableSynchronization.cpp` | server and client value per binding, a bit per binding and peer index | Tick, packet handler | membership, channels, every `Server.*` replicated variable | peer indices reused, values changed with packets in flight, strings cut | a set bit is true; all peers catch up; no peer has a mixture of settings |
| Chat commands, `ChatCommands/` | one vote per command, start times, `chatCommandsActive` | handleChatMessage, Tick, game end, game start | server chat, membership, kick command | players come and go in a vote; commands disabled in a vote; names resolved twice | one vote at a time, one vote per player, the percentage, a kick asks for somebody with the name that was voted on |
| Temporary bans, `Server/BanList.cpp` | games left per address | AddIp, decrementDuration, the join check | kick commands, game end | extension by a second kick, count down at the end of a game | a ban lasts its games |
| Chat flood filter, `Server/ServerChat.cpp` | score, timeout, next timeout, reset period per address | FloodFilterMessage, one second of Tick | chat | leak, timeout and reset period run side by side; entries erased | the rate is bounded; timeouts escalate and end when announced |
| Server chat routing, `Server/ServerChat.cpp` | none | HostReceivedMessage, GetMessagePeers, BroadcastMessage | flood filter, chat commands, packets | sender field not trusted | a team message reaches the team only |
| Kick and ban commands, permanent bans | ban file | kick by name, uid, index; ban, unban; ShuffleTeams | membership, temporary bans | file read, changed and rewritten, by two threads, with crashes; membership changed by the first of several kicks | the named player is kicked, no ban is lost |
| Info server and announcing, `Patches/Network.cpp`, `ModuleServer.cpp` | socket open, last announce | open, close, announce timer, HTTP answer | map voting (opening starts a vote), master servers | bind failures, a detached thread | announced exactly while open |
| Remote console, `Server/Rcon.cpp` | authenticated connections | open, message, close | command map | second thread | a command that meets no other is all or nothing |
| Command map, `CommandMap.cpp` | commands, variables, queue | execute, set with revert, queue, parse | everything | refused value put back; queue filled from two threads | a refused change leaves the old value; what was queued in time is run |
| Custom packets, `Patches/CustomPackets.cpp` | registered types | register, send, dispatch | all packets | hash of the name as identity | a packet reaches its own handler |
| Dedicated server, `Server/DedicatedServer.cpp` | hosted or not, stats sent | Tick, lifecycle callback, stats thread | engine, HTTP | thread reads game state | hosts once, sends each game once |
| Web layer, `Web/Ui/ScreenLayer.cpp`, `Web/`, `dist/mods/ui/web/ui/ui.js` | state of each screen, overlay shown, input captured | request, hide, load, capture, queries | input, every part with a screen | requests while pages load; scripts and queries under way | screens show as last asked; the overlay follows them |
| Input, `Patches/Input.cpp` | context stack, block states | push, pop, two ticks, block | engine input, web layer | contexts pushed while one is about to be popped | input is the overlay's while it captures it, and comes back |

The other parts (engine patches at fixed addresses, settings modules that write engine
memory, vector mathematics, tag layouts, rendering hooks, CEF process, most web pages,
vendored libraries) are listed in `PROJECT.json` with the reason they are left out: what they do is
decided by an engine that is not in the repository, or is presentation.

The hazards of this code, each at its line and with the properties that would catch it, are
the list `hazards` of `PROJECT.json`.

## 2. Modules

| Module | Models | Extends / instantiates |
|---|---|---|
| `MapVote` | abstract specification: what a map vote promises | |
| `VotingSystem` | the host's map vote | instantiates `MapVote` |
| `MCVotingSystem` | instances for TLC | `VotingSystem` |
| `VotingSystemProofs` | theorems | `VotingSystem`, `MapVote` through it |
| `VariableSync`, `MCVariableSync`, `VariableSyncProofs` | variable synchronization, instances, theorems | |
| `ChatCommands`, `MCChatCommands`, `ChatCommandsProofs` | chat commands, kicks by name, temporary bans; instances; theorems | |
| `FloodFilter`, `MCFloodFilter`, `FloodFilterProofs` | flood filter, instances, theorems | |
| `VotingSession`, `MCVotingSession`, `VotingSessionProofs` | the map vote of a whole session: host, packets, the players' screens; instance; theorems | `VotingSystem`, `VotingSystemProofs` |
| `Console`, `MCConsole`, `ConsoleProofs` | commands on two threads: a variable, the command queue, the ban file, the remote console; instance; theorems | |
| `ScreenLayer`, `MCScreenLayer`, `ScreenLayerProofs` | the web overlay's page, the game's side of it and the stack of input contexts; instance; theorems | |

Definitions whose comment begins with "Mutant" are variants of a definition with a plausible
bug. They are not part of the specification; each shows that a property can fail.

### VotingSystem

State: the file-level variables of VotingSystem.cpp under their own names. The two time
stamps are kept as the seconds elapsed since they were taken (`voteElapsed`,
`winnerElapsed`), because the code only uses differences; `Elapse` stops each at the first
value that passes the comparison in `Tick`, beyond which nothing changes. `currentVotingOptions` is the ballot with index, count
and revote mark; `mapVotes` maps names to the number voted for. The session as the code
reads it (hosting, lifecycle, map, players, info socket) is environment state.

Actions: one frame of `Tick` is one of `TickGate`, `TickWakeUp`, `TickGoIdle`, `TickVote`;
`LogVote` (record, count, tally, set back the counts), `StartNewVote`,
`CancelVoteInProgress`, `Enable`/`Disable`, `SetNumberOfVotingOptions`, the callbacks
`StartGame`, `SessionGone`, `MapLoaded`, session creation and leaving with the info server
they open and close, players joining and leaving, `Clock`. The random draw is a
nondeterministic choice; a draw that cannot end sets `gameThread` to "hung", one that
divides by zero to "crashed". Sorting is `Sorted`. The code's operator< compares the counts
only, which leaves the order of options with equal counts to std::sort; the model has what
the build's std::sort does with at most five entries, an insertion sort, which keeps them in
their order. The comment "Ties will be awarded to the latter option" relies on the same.

`Voting.json` is a record: readable or not, maps, types with their own maps. Options are
compared as operator== does, by what they display (`MapDisplayName`, `TypeDisplayName`), so
that two maps or types of different names can be the same to the draw. Ids and sprint
settings are left out.

### VariableSync

State: per binding the server and client value and the set of peer indices whose bit is
set; the engine's membership (`peerAt`, `ready`), channels (in order, reliable, lost with
the channel), and the values on the other machines. Actions: `Tick` (compare, copy, clear
bits, build one packet per ready peer, set bits, clear bits of peers not visited),
`HandlePacket` on a peer, `HandlePacketAsClient` on this machine, `SetServerVariable`, and
the engine's joins, losses and sessions. `Wire[v]` is a value as a packet carries it: a
string longer than 512 characters is cut.

Assumption about the engine: a peer index becomes ready again only after a Tick has seen it
not ready (`seenDown`). The code relies on it: the bit of a peer that was replaced between
two frames would stay set. Bringing up a peer takes an exchange of messages that the engine
handles once per frame.

### ChatCommands

State: one record per command (`AbstractChatCommand`'s fields), `voteTimes`,
`chatCommandsActive`, the enabling variables, the temporary bans, and the engine's
membership with peer indices and player indices kept apart. Actions: `HandleChatMessage`
(with `ProcessVote` or `ProcessMessage`), `Tick`, `GameEnds`, `StartGame`, `SetEnabled`,
`OperatorKick`, `HandleJoinRequest` with the ban check, `PlayerLeaves`, sessions, `Clock`.
A kick is one step: the engine removes the player at once or refuses, and always refuses to
boot its own host. The entry of the last peer index lies past the end of `PlayerSessions`;
reading it gives any uid. The command line that carries the name to the kick command is
abstracted to the name.

- `findNumberOfPlayersInGame` leaves out peers the engine does not count as established. Which
  ones these are is the engine's affair, so the electorate is any number from one (the
  sender) to all who play.
- `isValidArgument` of kickIndex catches std::invalid_argument only. A number that does not
  fit an int ends the program: `lifecycle` is then "Crashed" and nothing happens any more.
- The game callbacks do not ask who hosts. `ClientGameStarts` and `ClientGameEnds` are the
  games this machine plays elsewhere between two sessions of its own; they count its
  temporary bans down too.
- `OperatorKick` is a command typed at the server, on the game thread. What the remote
  console's thread does to shared state is the subject of `Console`.
- `target` (the machine the vote was started against) and `asked` (the one the engine was
  asked to boot when it passed) are history variables, as are `said`, `electorate`,
  `lastStart` and `gamesOut`.

### FloodFilter

State: the four fields of `ClientSpamStats` per address and which addresses have an entry.
Actions: `FloodFilterMessage`, one second of `Tick`. `sent` and `seconds` are history
variables that observe a window of time; `Observe` starts a new one at any moment, so the
bound on a window holds for every stretch of time. `lastTimeout`, `sinceTimeout` and
`firstAfter` record what the timeouts should remember, independently of the fields that
implement it. The filter is on and its settings do not change; a short score above the long
one, which makes the code's unsigned arithmetic wrap, is excluded by `ScoresAssumption`.

### VotingSession

Composes `VotingSystem` with a channel in each direction per player and a screen per player.
Every host action is the one of `VotingSystem` conjoined with the message it broadcasts
(ballot, tally or winner); a vote that arrives is `LogVote` or is refused by its early
returns. A screen is what the page displays: the ballot, the last tally, the marked winner
and the option the player clicked. Messages and clicks interleave with everything the host
does. `quietBecause` is a history variable: the last reason for which nobody may expect a
vote to be under way. Channels are reliable and in order, as the engine's are, and are lost
with the player. A machine has one player, and its page is loaded. `Players` are the ones on
other machines: the host's own player is sent nothing on joining (`LocalPlayer`,
`MessageForJoiner`; VotingSystem.cpp:401).

What the run also showed while the module was written: a vote that is on its way when the
ballot is replaced is counted for the option that has the number on the new ballot, and the
screen of its player shows no selection until the tally comes. `SelectionIsCounted` states
what does hold. The proof of `TallyIsCurrent` showed one more corner: an idle host that wakes
up between the end of a game and the loading of the menu has a vote running when
`MapLoadedCallback` starts the next one, which clears the votes before its draw; should that
draw never end, the screens keep the old tally. The two properties about counts are
therefore stated of a host whose game thread runs.

### Console

A command is cut into the accesses it makes to shared state: reading the previous value,
writing `ValueInt`, reading it back for the string, writing `ValueString`, calling the
engine; checking for the menu and pushing to the queue; loading the ban file, truncating it
and writing it. `Server.LobbyType` stands for the variables whose update handler returns
false when the engine refuses (`CommandServerLobbyType`). The game thread's startup rewrites
the ban file before the remote console is started. `Crash` may happen at any step and keeps
the file only.

`overlap` records which threads' commands met a command on the same state. The properties
hold for commands that did not; with two that met, TLC shows that a variable can keep a
value the engine refused, that the string and the number can differ, and that a ban read
between another's truncation and its writing wipes out the list.

The queue is a std::vector without a lock. A push is two accesses: `PushQueued` reads where
the vector ends, `StoreQueued` writes the command there and with it the vector as it was
read. A push that meets another can therefore lose its command or the other's, and one that
meets the clearing can bring back commands that have been run. Where a push ends during the
loop over the queue, which of the commands are still run is uncertain, so `waiting` (the
places of commands that must be run) becomes empty. What the race does to the memory of the
vector beyond this is undefined; `Crash` at any step stands for it. A command that the remote
console queues in the moment the menu shows stays in the queue and is never run.

### ScreenLayer

State: the page (blank, script run, list of screens loading, ready), per screen its state,
whether its frame has loaded and whether it captures input; scripts and queries under way;
whether the overlay is rendered and input captured; the height of the context stack,
`contextDone`, what is blocked and what will be restored. Contexts are counted rather than
listed because all of them are the overlay's. Actions: the page's functions, the game's
`Show` and `Hide` of a screen, `HandleQuery`, the two input ticks, `BlockInputHook`.
`asked`, `wanted` and `early` are history variables. A screen that has loaded may show,
hide and (where its script does so) change its capture at any time, which covers every
script of a single screen.

`LastCallCounts` has one exception, recorded in `early`: `hideScreen` does not find a screen
while `screens.json` loads, and the request kept by `requestScreen` before it is carried out
later. A request before the window has loaded is lost, so `asked` starts with the loading.

## 3. Runs

| Run | Expected | What it checks |
|---|---|---|
| voting_safety | pass | TypeOK, WinnerWaitsAlone, BallotIsClean, NoLingeringVotes, RevotesBounded, WinnerHasMostVotes, and that the host implements `MapVote`, with a Voting.json that is absent, lacks gametypes (the defaults are added), names missing maps, or has options that look alike; DrawFailsOnlyOnSmallPool: at duplication level 1 the draw fails only on a pool with too few options that look different. The system may stop there (a hung game thread), so deadlock is not checked |
| voting_liveness | pass | OneVotePerName, with two players who share a name; RevoteSeriesEnds under fairness |
| voting_session | pass | ScreenShowsBallot, TallyIsCurrent, SelectionIsCounted, WinnerIsMarked, LobbyIsQuietForAReason, with ballots, tallies and winners queued behind each other and crossing a vote |
| voting_in_game | violation | a pending revote survives Reset and starts a vote in a game |
| sync_safety | pass | TypeOK, SyncBitIsTrue, NoTornSettings |
| sync_liveness | pass | PeersCatchUp under fairness, with a string that is cut |
| chat_safety | pass | TypeOK, OneCleanVote, KickHitsItsTarget, BanLastsItsGames, NobodyVotesTwice, PassedByPercentage, StartsAreSpaced, on a listen server with a player who has the host's name, at 60 percent, with the command switched on and off |
| chat_liveness | pass | VoteEnds under fairness: unless its command is switched off or the session ends |
| chat_dedicated | violation | peer index used as player index: a second yes counts |
| flood_safety | pass | RateBound, TimeoutsEscalate, ChatAgainAfterTimeout |
| console | pass | TypeOK, LoneChangeHolds, QueueIsServed, BansHold |
| screen_layer | pass | TypeOK, CapturedInputHasContext, GameInputIsRestored, OverlayFollowsScreens, LastCallCounts, and InputComesBack under fairness |

The violations are real disagreements between the code and what a comment, a description or
an answer to the player says; `findings` in `PROJECT.json` quotes both sides.

Where the code keeps less than a text beside it says, and no run of its own shows it, the
property states what the code does keep and the run has the case:

- Votes are kept by display name (Server/VotingSystem.cpp:439), so players who share one have
  one vote together: OneVotePerName. The comment at VotingSystem.cpp:82 has names safe
  because they cannot change in a session, which does not keep two players from having the
  same.
- Options are compared by display names, so a pool with as many options as the ballot has
  places can still hang the draw: DrawFailsOnlyOnSmallPool counts what looks different.
- The check of a kick looks at the last player with the name (ChatCommand.cpp:163) or at an
  index (:115), the kick at the first player with the name (ModuleServer.cpp:441). A vote
  against the host's namesake asks the engine to boot the host, although the host is refused
  as a target ("You cannot kick the host"); KickHitsItsTarget says that only the name is
  certain.
- votesNeeded is 1 + ((n - 1) * percentage) / 100 in integers (ChatCommand.cpp:248): at 60
  percent one yes of two players passes, although ModuleServer.cpp:1137 speaks of the
  percentage of players required to vote yes. PassedByPercentage has the bound that holds
  at every percentage.
- `tick` returns before it looks at the time when the command is disabled
  (ChatCommand.cpp:204), so a vote on a command that is switched off lasts until the game
  ends, and no other can start, although ModuleServer.cpp:1145 speaks of the number of
  seconds a vote lasts. VoteEnds has this as its exception.
- A command pushed after the queue was run is never run, although its sender is told "Command
  queued until mainmenu shows" (CommandMap.cpp:129). QueueIsServed has a queue left
  over only where such a push ended last.

One passing property depends on a constant: ChatAgainAfterTimeout fails with
`FloodTimeoutSeconds = 1`. A timeout leaves the score where it is, so after a timeout shorter
than the score takes to leak the first message starts the next timeout, although the player
was told "You can chat again in" that many seconds (Server/ServerChat.cpp:238). With the
default 120 seconds the promise is kept.

### Bounds and why they are enough

- Voting: two players, ballots of one and two options and Revote, one or two revotes, votes
  for numbers on the ballot and one beyond it, times of one second. Ties, majorities,
  changed minds, a vote for an option that is gone, a revote at its limit, a changed
  number of options, a pool with two options that look alike and, in the liveness run, a name
  shared by both players all happen. The bounds are on the constants; the theorems lift them.
- Synchronization: two machines in two slots with two bindings (a slot can change hands,
  updates can be torn), two packets in flight per channel (the number bounds how far a
  client may lag; a Tick waits for room). The liveness run has one machine and a string
  that is cut.
- Chat: three machines, two of them behind one address and one with the host's name, a
  kick by name that may be switched off and a vote without a target, 60 percent (where rounding matters with two players), a ban
  of two games and a cooldown of two seconds. The liveness run has a dedicated server with one
  player, kicks by index, one of them too large a number, and a switch that may be turned
  during their vote. The third has four machines on the dedicated server, the fewest for which
  peer and player indices drift apart in one vote.
- Flood filter: scores 1 to 2 of 4, a timeout of 4 seconds, a reset period of 3, lengths at
  both ends of the scale and in the middle. `MaxTimeout` bounds the doubling, `MaxWindow`
  the observed window.
- Session: one player, who joins, leaves, votes and comes back at any time, two messages in
  flight to them (`MaxInFlight`; the host waits for room) and one vote (`MaxVotesInFlight`), so
  that a ballot or tally is overtaken by the next and a vote crosses the ballot that replaces
  its own; ballots of one option and Revote, times of zero seconds so that every frame may end
  a vote. A second player or a second vote in flight exceeds the time of a run; the theorems
  about ScreenShowsBallot, TallyIsCurrent, SelectionIsCounted and WinnerIsMarked have no
  bound on players or messages. That several players are counted correctly is the business
  of voting_safety.
- Console: two threads, one connection, two addresses, three values of the variable of which
  one is out of its range, two commands in the queue (`MaxQueue`), enough for a push that meets
  another, the run or the clearing.
- Screens: the chat, which a key asks for and whose script changes its capture, and the
  voting screen, which the game asks for and which always captures; two scripts and six
  queries under way (three updates of the overlay), four contexts on the stack, one type of
  input. `MaxContexts` is more than a page with six queries under way can stack up.

### Fairness

`FairSpec` of `ScreenLayer` assumes that the game keeps handling the page's queries
(`HandleQuery`) and updating its input (`UpdateInputHook`), both of which happen every frame;
nothing is assumed of the page, of screens or of keys. `InputComesBack` is about behaviours
in which no visible screen captures input from some moment on.

`FairSpec` of the voting, synchronization and chat modules assumes that frames keep coming
(weak fairness of Tick), that seconds pass (weak fairness of Clock) and, for the
synchronization, that packets of a channel that stays up are handled. The engine's loop
calls Tick every frame whatever happens, and the channel is the engine's reliable one.
Nothing is assumed of players, of the operator or of sessions.

## 4. Proofs

All theorems hold for every value of the constants that satisfies the named assumptions of
the module (`ASSUME`), which TLC evaluates in each run.

- `VotingSystemProofs`. `VotingInv` is inductive. `WinnerWaitsAlone`, `NoLingeringVotes` and
  `BallotIsClean` are not so alone: an idle host must have nothing going on, a pending
  revote beside a running vote must be a left-over (then no revote is used up), and a
  running vote must have a ballot of one to five entries with Revote on it only while
  revotes are left. From it follow type correctness, the three invariants,
  `RevotesBounded`, and, with a lemma that the last element of the sorted ballot is the
  latter of those with most votes (`BackOfSorted`), `WinnerHasMostVotes`.
  `OneVotePerNameAlways` needs no assumption on names: `LogByName` says of each name that its
  entry is what one of its players cast, or that there is none and none has cast.
  `DrawFailsOnlyOnSmallPoolAlways` counts: a
  ballot every candidate duplicates has as many options as the pool displays; once
  the thread has stopped, neither the pool nor the settings change. The refinement
  `HostImplementsMapVote` is proved action by action under the mapping at the end of
  `VotingSystem`.
- `VariableSyncProofs`. `SyncInv` adds to the truth of the bits that a channel exists only
  to a ready slot, that a slot seen down has no bit, that a machine is in one slot, and that
  only a host has peers. The bit of a slot is about the last packet in flight that names the
  binding, so the proof follows packets through the channel. `SettingsAreNeverTorn` needs
  more than what a peer holds now: `ChainInv` has, for every ready slot, the list of values
  its machine passes through as it handles the packets in flight, each a combination the
  host ran with, the last one equal to the host's wherever the bit is set. A Tick makes the
  chain longer, handling a packet makes it shorter, a new slot starts one.
- `ChatCommandsProofs`. `BanLastsItsGamesAlways` rests on an invariant that relates the
  games left of an address's ban to the games each machine behind it has been out, so that
  an extension by another machine never shortens anybody's ban. `OneCleanVoteAlways` rests
  on an invariant about every command's record. `MemberInv` says which machine has
  which peer and player index; that a joining machine finds a free peer index is a
  pigeonhole argument. With it follows type correctness. `KicksHitTheirTargets` holds for
  any names, shared or not: `TargetInv` says of a running vote on a kick that the name it
  keeps is the target's and the target is not the host, through every message, leave and
  join. Three results are about servers whose host plays, because then the peer index the
  code uses as player index is one (chat_dedicated shows the other case):
  `StartsAreAlwaysSpaced`, `NobodyEverVotesTwice`, and `AlwaysPassedByPercentage` for every
  percentage from 0 to 100, by the remainder the integer division leaves. `YesInv` ties the uids in `yesVoters` to the machines that said
  yes.
- `FloodFilterProofs`. What was let through in a window is still in the score or has leaked
  (`Account`), which gives `RateIsBounded`. `TimeoutsAlwaysEscalate` needs that the rest of
  the reset period and the seconds since the timeout add up to the whole period while a
  timeout is remembered. `ChatAgainWhenTimeoutIsLong` assumes that a timeout lasts at least
  twice the long score and that one message does not reach the limit; the counterexample
  with a timeout of one second (section 3) shows that such an assumption is needed. `SpamScoreRange`
  shows the interpolation stays between the two scores for every length.
- `ScreenLayerProofs`. `ScreenInv` has a part for each side. Of the queries under way the
  last two are what the screens ask for now, and with at most one left the overlay already
  shows as they ask (`QueryInv`): so a tick that ends a capture because the overlay is
  hidden never ends one the page still wants without a query to come, which makes
  `OverlayFollowsScreens` inductive. A finished context is still on the stack and what is
  saved is what the game asked for last (`ContextInv`); the requests kept while screens.json
  loads are the ones that count (`PageInv`). The safety properties of the run follow.

- `ConsoleProofs`. Two commands of one kind that are both under way have met (`MeetInv`), so
  a command that has met none is alone with what it shares. `LoneLobby` says for each step of
  a lone change what it has written and what it would put back; `LoneBan` that a lone change
  of the ban file has every sure ban in the list it will write; `QueueInv` that the commands
  that must be run are in the queue, in front of the end of the loop, and in whatever a thread
  has read of the queue and will write back, and that what is left after the run ends with a
  late one. Type correctness, `LoneChangeHolds`, `QueueIsServed` and `BansHold` follow, with
  crashes and restarts at every step.
- `VotingSessionProofs`. Every step of the session is a step of the host or leaves it alone,
  so `SessionSpec` implements `Spec` and with it `MapVote` (`SessionImplementsHost`). What a
  screen shows depends on all that is on its way to it: `Shows(ch, i, s, b)` says that a
  screen with ballot s shows ballot b once it has handled the first i messages of channel ch.
  `BallotInv` has every player of a session on course for the host's ballot while a vote
  runs, `WinnersFit` every winner on course for the ballot its number refers to, `TallyInv`
  the last ballot or tally on its way decide what is displayed. Steps are first sorted into
  the few kinds the channels can tell apart (`HostKinds`, `PlayerKinds`), then each part is
  proved against those. `ScreenShowsBallot`, `TallyIsCurrent` and `WinnerIsMarked` follow.
  `SelectionIsAlwaysCounted` assumes distinct names, since votes are kept by name, and a
  single value of Server.NumberOfVotingOptions, since `LogVote` checks a vote against the
  setting of the moment and not against the ballot: lowered during a vote, it makes the host
  refuse what is displayed. `LobbyIsAlwaysQuietForAReason` needs where the session is
  (`PlaceInv`): no info server without a session, the menu not loaded in a game.

Every invariant and every action property of the passing runs is also a theorem. Only
model-checked: liveness (RevoteSeriesEnds, PeersCatchUp, VoteEnds, InputComesBack), because
fairness and ENABLED are out of the prover's reach.

## 5. Plan

Done: the host's map vote with its abstract specification, variable synchronization, chat
commands with temporary bans, the flood filter, the session's voting packets and screens,
commands on two threads with the permanent bans, the web overlay with the input contexts,
and the proofs above.

Worth proving next: weaker hypotheses for SelectionIsAlwaysCounted, which only needs the
number of options not to be lowered during a vote, and names distinct among those who voted.

### Not modelled

- Server chat routing: it keeps no state, and each promise is one guard.
- Kicks by uid and index, ShuffleTeams: lookups and random numbers for the engine.
- Announcing, Server.Connect, the HTTP answer of the info server: input and output with
  machines that are not in the repository.
- The dedicated server's auto hosting and stats thread: writes to and copies of engine
  memory whose layout and effect are the engine's.
- Custom packets' registry, the command line parser, the config file, name sanitizing, uid
  generation: functions of text and bits without states.
- The renderer, the scripts of single screens other than the voting screen, notifications to
  screens that have not loaded, the virtual keyboard and the keys for debugging.
- Engine patches, settings modules, tag layouts and rendering hooks: what they do is decided
  by the engine.

Hazards that no property covers, beside those `hazards` lists: a vote from a
peer whose player the engine has just removed indexes `PlayerSessions` with -1
(Server/VotingPackets.cpp:116); std::stoi throws out_of_range for a number that does not fit,
which nothing catches (ChatCommands/ChatCommand.cpp:103: the model has the step, and nothing
follows it); `chatCommandsActive` is cleared by the game ended event only,
so a host who leaves in a game may have votes in the next lobby
(ChatCommands/ChatCommandMap.cpp:19); the chat's fade timer can hide it while the player
types (dist/mods/ui/web/screens/chat/chat.js:115); an announcement that is still posting when
the server is unannounced can arrive last (Modules/ModuleServer.cpp:236).

## 6. Running

    tlc -workers 2 -config VotingSafety.cfg MCVotingSystem
    tlapm VotingSystemProofs.tla

and likewise for the other configurations (`runs` in `PROJECT.json` names the module of
each) and the other proof modules.
