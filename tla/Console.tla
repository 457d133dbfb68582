------------------------------- MODULE Console -------------------------------
(***************************************************************************)
(* Commands on two threads.  The console, the config files and the handlers *)
(* of the game run commands on the game thread; the remote console         *)
(* (Server/Rcon.cpp) runs them on the thread of its websocket server.      *)
(* CommandMap.cpp and the handlers it calls take no lock, so a command is  *)
(* a sequence of steps here, cut where the other thread can come between   *)
(* two accesses to what they share:                                        *)
(*   - a variable whose update handler may refuse it (Server.LobbyType:    *)
(*     the engine is asked for the new type and may say no),               *)
(*   - the queue of commands that wait for the main menu (Server.Connect), *)
(*   - the file of permanent bans (Server.AddBan and Server.Unban), which  *)
(*     is also read whenever a machine asks to join and survives a crash.  *)
(***************************************************************************)
EXTENDS Integers, FiniteSets, Sequences

CONSTANTS
  LobbyTypes,     \* the numbers somebody may set Server.LobbyType to
  ValueIntMin, ValueIntMax,
  DefaultLobbyType,
  Ips,            \* addresses that are banned, unbanned and ask to join
  Connections,    \* connections of the remote console
  MaxQueue        \* bound on queuedCommands

ASSUME RangeAssumption ==
  /\ ValueIntMin \in Nat /\ ValueIntMax \in Nat \ {0} /\ LobbyTypes \subseteq Nat
  /\ DefaultLobbyType \in ValueIntMin..ValueIntMax
ASSUME QueueAssumption == MaxQueue \in Nat

Threads == {"game", "rcon"}

VARIABLES
  op,             \* the command each thread is in, and its locals
  valueInt, valueString,   \* the two representations of Server.LobbyType
  engineLobbyType, \* what the engine was last put in, Unknown before that
  queue,          \* queuedCommands, each with whether its push met no other and
                  \* whether it came when the queue had been run
  menuShown,      \* GameHasMenuShown
  executeQueue,   \* executeCommandQueue
  file,           \* the addresses in the ban list file
  connection,     \* each connection: "closed", "open" or "authenticated"
  \* --- history
  overlap,        \* the threads whose command met one of the other thread on
                  \* the same shared state
  expected,       \* what the last lone change left in Server.LobbyType, or Unknown
  waiting,        \* the places of the queued commands that must still be run
  sure            \* the addresses whose ban nothing may have undone

variable   == <<valueInt, valueString, engineLobbyType, expected>>
queueVars  == <<queue, menuShown, executeQueue, waiting>>
banVars    == <<file, sure>>
vars == <<op, variable, queueVars, banVars, connection, overlap>>

Unknown == -1
Idle == [kind |-> "none", step |-> "idle"]

-----------------------------------------------------------------------------
(* The beginning and the end of a command.                                 *)

Other(t) == IF t = "game" THEN "rcon" ELSE "game"

\* A command of the remote console runs for an authenticated connection only
\* (OnMessage).
MayRun(t) ==
  /\ op[t] = Idle
  /\ t = "rcon" => \E c \in Connections : connection[c] = "authenticated"

Begin(t, o) ==
  /\ MayRun(t)
  /\ op' = [op EXCEPT ![t] = o]
  /\ overlap' = IF op[Other(t)].kind = o.kind THEN Threads ELSE overlap \ {t}

Goto(t, o) == op' = [op EXCEPT ![t] = o] /\ UNCHANGED overlap

Return(t) == op' = [op EXCEPT ![t] = Idle] /\ UNCHANGED overlap

Lone(t) == t \notin overlap

-----------------------------------------------------------------------------
(* Server.LobbyType: ExecuteCommandWithStatus and SetVariable.                  *)

\* Mutant: the upper bound is one too high.
InRangeOneMore(x) == x >= ValueIntMin /\ x <= ValueIntMax + 1

\* The range check of SetVariable; a variable with both bounds 0 has none.
InRange(x) ==
  ValueIntMin # 0 \/ ValueIntMax # 0 => x >= ValueIntMin /\ x <= ValueIntMax

\* previousValue is read and the new value checked: out of range is the end.
SetLobbyType(t, x) ==
  /\ InRange(x)
  /\ Begin(t, [kind |-> "lobby", step |-> "int", new |-> x, previous |-> valueInt,
               revert |-> FALSE, text |-> Unknown])
  /\ UNCHANGED <<variable, queueVars, banVars, connection>>

\* command->ValueInt = newValue
WriteInt(t) ==
  /\ op[t].step = "int"
  /\ valueInt' = op[t].new
  /\ Goto(t, [op[t] EXCEPT !.step = "text"])
  /\ UNCHANGED <<valueString, engineLobbyType, expected, queueVars, banVars, connection>>

\* std::to_string(command->ValueInt)
ReadInt(t) ==
  /\ op[t].step = "text"
  /\ Goto(t, [op[t] EXCEPT !.step = "string", !.text = valueInt])
  /\ UNCHANGED <<variable, queueVars, banVars, connection>>

\* What a change that met no other leaves; after two that met, anything, and a
\* refused change cannot mend that.
Expectation(t) ==
  IF Lone(t) /\ (op[t].revert => expected # Unknown) THEN op[t].new ELSE Unknown

\* command->ValueString = ...; a reverting SetVariable ends the command.
WriteString(t) ==
  /\ op[t].step = "string"
  /\ valueString' = op[t].text
  /\ IF op[t].revert
       THEN expected' = Expectation(t) /\ Return(t)
       ELSE Goto(t, [op[t] EXCEPT !.step = "event"]) /\ UNCHANGED expected
  /\ UNCHANGED <<valueInt, engineLobbyType, queueVars, banVars, connection>>

\* The update event: the engine takes the type ValueInt has now.
UpdateEventAccepts(t) ==
  /\ op[t].step = "event"
  /\ engineLobbyType' = valueInt
  /\ expected' = Expectation(t)
  /\ Return(t)
  /\ UNCHANGED <<valueInt, valueString, queueVars, banVars, connection>>

\* Mutant: the variable is not put back.
UpdateEventRefusesOnly(t) ==
  /\ op[t].step = "event"
  /\ expected' = IF Lone(t) /\ expected # Unknown THEN op[t].previous ELSE Unknown
  /\ Return(t)
  /\ UNCHANGED <<valueInt, valueString, engineLobbyType, queueVars, banVars, connection>>

\* The engine refuses, so the previous value is set again.
UpdateEventRefuses(t) ==
  /\ op[t].step = "event"
  /\ Goto(t, [op[t] EXCEPT !.step = "int", !.new = op[t].previous, !.revert = TRUE])
  /\ UNCHANGED <<variable, queueVars, banVars, connection>>

-----------------------------------------------------------------------------
(* Server.Connect and the queue.                                           *)

\* The main menu is not showing yet: the command will be queued.  (Later it runs
\* at once and touches nothing of this.)
Connect(t) ==
  /\ ~menuShown
  /\ Begin(t, [kind |-> "connect", step |-> "push"])
  /\ UNCHANGED <<variable, queueVars, banVars, connection>>

\* queuedCommands.push_back(command), whatever the menu does by now: the vector's
\* extent is read, ...
PushQueued(t) ==
  /\ op[t].step = "push" /\ Len(queue) < MaxQueue
  /\ Goto(t, [kind |-> "connect", step |-> "store", seen |-> queue])
  /\ UNCHANGED <<variable, queueVars, banVars, connection>>

\* ... and what was seen is written back with one command more, over what the other
\* thread did meanwhile: a command it pushed is lost, commands it cleared are back.
\* Under a running loop the vector may be moved, so that nothing is certain of the
\* rest of the loop.  Each of these may also end in a crash: see Crash.
StoreQueued(t) ==
  /\ op[t].step = "store"
  /\ queue' = Append(op[t].seen, [lone |-> Lone(t), late |-> menuShown /\ ~executeQueue])
  /\ waiting' =
       IF op["game"].kind = "queue" THEN {}
       ELSE IF Lone(t) /\ (menuShown => executeQueue) THEN waiting \cup {Len(op[t].seen) + 1}
       ELSE waiting
  /\ Return(t)
  /\ UNCHANGED <<variable, menuShown, executeQueue, banVars, connection>>

OnMainMenuShown ==
  /\ op["game"] = Idle /\ ~menuShown
  /\ menuShown' = TRUE /\ executeQueue' = TRUE
  /\ UNCHANGED <<op, overlap, variable, queue, waiting, banVars, connection>>

\* Mutant: the last command is left out.
QueueEndEarly(q) == Len(q) - 1

\* The end of the range ExecuteQueue's loop runs over is fixed when it starts.
QueueEnd(q) == Len(q)

\* ElDorito::Tick starts ExecuteQueue.
ExecuteQueue ==
  /\ op["game"] = Idle /\ executeQueue
  /\ Goto("game", [kind |-> "queue", step |-> "run", at |-> 1, end |-> QueueEnd(queue)])
  /\ UNCHANGED <<variable, queueVars, banVars, connection>>

RunQueued ==
  /\ op["game"].step = "run" /\ op["game"].at <= op["game"].end
  /\ waiting' = {i \in waiting : i # op["game"].at \/ ~queue[i].lone}
  /\ Goto("game", [op["game"] EXCEPT !.at = @ + 1])
  /\ UNCHANGED <<variable, queue, menuShown, executeQueue, banVars, connection>>

\* queuedCommands.clear(), and Tick does not come back here.
ClearQueue ==
  /\ op["game"].step = "run" /\ op["game"].at > op["game"].end
  /\ queue' = <<>> /\ executeQueue' = FALSE
  /\ Return("game")
  /\ UNCHANGED <<variable, menuShown, waiting, banVars, connection>>

-----------------------------------------------------------------------------
(* The ban list file.                                                      *)

\* The startup rewrites the file, a ban or an unban changes it.
Rewrite(change, ip) ==
  [kind |-> "ban", step |-> "load", change |-> change, ip |-> ip, list |-> {}]

\* BanIp or UnbanIp
ChangeBans(t, change, ip) ==
  /\ Begin(t, Rewrite(change, ip))
  /\ UNCHANGED <<variable, queueVars, banVars, connection>>

\* Mutant: the list that is saved has the new address only.
ChangedForgets(list, change, ip) == IF change = "add" THEN {ip} ELSE list \ {ip}

\* AddIp, RemoveIp, or neither at the startup.
Changed(list, change, ip) ==
  CASE change = "add"    -> list \cup {ip}
    [] change = "remove" -> list \ {ip}
    [] change = "none"   -> list

\* LoadDefaultBanList and the change to the copy; an address to remove that is
\* not in it is the end.
LoadBanList(t) ==
  /\ op[t].step = "load"
  /\ IF op[t].change = "remove" /\ op[t].ip \notin file
       THEN Return(t)
       ELSE Goto(t, [op[t] EXCEPT !.step = "truncate",
                                  !.list = Changed(file, op[t].change, op[t].ip)])
  /\ UNCHANGED <<variable, queueVars, banVars, connection>>

\* The stream is opened with std::ios::trunc, and part of the list has reached the
\* file when somebody reads it or the process dies.
TruncateBanList(t) ==
  /\ op[t].step = "truncate"
  /\ file' \in SUBSET op[t].list
  /\ Goto(t, [op[t] EXCEPT !.step = "write"])
  /\ UNCHANGED <<variable, queueVars, sure, connection>>

\* The list is written and the stream closed.  What a lone change leaves is
\* sure; two that met may have lost anything.
WriteBanList(t) ==
  /\ op[t].step = "write"
  /\ file' = op[t].list
  /\ sure' = {ip \in Ips :
                /\ Lone(t)
                /\ IF ip = op[t].ip THEN op[t].change = "add" ELSE ip \in sure}
  /\ Return(t)
  /\ UNCHANGED <<variable, queueVars, connection>>

\* A machine asks to join: the list is read again.  (What follows is in
\* ChatCommands.)
Refused(ip) == ip \in file

-----------------------------------------------------------------------------
(* The remote console's connections, on its own thread.                    *)

Starting == op["game"].kind = "ban" /\ op["game"].change = "none"

\* OnValidate lets a connection in, once Rcon::Initialize has run.
OnValidate(c) ==
  /\ ~Starting /\ op["rcon"] = Idle /\ connection[c] = "closed"
  /\ connection' = [connection EXCEPT ![c] = "open"]
  /\ UNCHANGED <<op, overlap, variable, queueVars, banVars>>

\* The first message is the password; a wrong one closes the connection.
ProcessPassword(c, right) ==
  /\ op["rcon"] = Idle /\ connection[c] = "open"
  /\ connection' = [connection EXCEPT ![c] = IF right THEN "authenticated" ELSE "closed"]
  /\ UNCHANGED <<op, overlap, variable, queueVars, banVars>>

OnClose(c) ==
  /\ op["rcon"] = Idle /\ connection[c] # "closed"
  /\ connection' = [connection EXCEPT ![c] = "closed"]
  /\ UNCHANGED <<op, overlap, variable, queueVars, banVars>>

-----------------------------------------------------------------------------
(* The process starts, or crashes and is started again.  Only the file is   *)
(* left; the first thing done with it is to write it again.                 *)

Started(o) == o = [t \in Threads |-> IF t = "game" THEN Rewrite("none", "") ELSE Idle]

Init ==
  /\ Started(op)
  /\ valueInt = DefaultLobbyType /\ valueString = DefaultLobbyType
  /\ engineLobbyType = Unknown
  /\ expected = DefaultLobbyType
  /\ queue = <<>> /\ menuShown = FALSE /\ executeQueue = FALSE /\ waiting = {}
  /\ file \in SUBSET Ips /\ sure = file
  /\ connection = [c \in Connections |-> "closed"]
  /\ overlap = {}

Crash ==
  /\ Started(op')
  /\ valueInt' = DefaultLobbyType /\ valueString' = DefaultLobbyType
  /\ engineLobbyType' = Unknown
  /\ expected' = DefaultLobbyType
  /\ queue' = <<>> /\ menuShown' = FALSE /\ executeQueue' = FALSE /\ waiting' = {}
  /\ sure' = IF \E t \in Threads : op[t].step = "write" THEN {} ELSE sure
  /\ connection' = [c \in Connections |-> "closed"]
  /\ overlap' = {}
  /\ UNCHANGED file

Command(t) ==
  \/ \E x \in LobbyTypes : SetLobbyType(t, x)
  \/ Connect(t)
  \/ \E change \in {"add", "remove"}, ip \in Ips : ChangeBans(t, change, ip)

Step(t) ==
  \/ WriteInt(t) \/ ReadInt(t) \/ WriteString(t)
  \/ UpdateEventAccepts(t) \/ UpdateEventRefuses(t)
  \/ PushQueued(t) \/ StoreQueued(t)
  \/ LoadBanList(t) \/ TruncateBanList(t) \/ WriteBanList(t)

Next ==
  \/ \E t \in Threads : Command(t) \/ Step(t)
  \/ OnMainMenuShown \/ ExecuteQueue \/ RunQueued \/ ClearQueue
  \/ \E c \in Connections : OnValidate(c) \/ OnClose(c)
  \/ \E c \in Connections, right \in BOOLEAN : ProcessPassword(c, right)
  \/ Crash

Spec == Init /\ [][Next]_vars

-----------------------------------------------------------------------------
(* Properties.                                                             *)

\* The types; in particular Server.LobbyType never leaves its range, not even for
\* the moment until a refused value is put back, however commands interleave.
TypeOK ==
  /\ \A t \in Threads : op[t].kind \in {"none", "lobby", "connect", "queue", "ban"}
  /\ valueInt \in ValueIntMin..ValueIntMax /\ valueString \in ValueIntMin..ValueIntMax
  /\ engineLobbyType \in {Unknown} \cup ValueIntMin..ValueIntMax
  /\ expected \in {Unknown} \cup Nat
  /\ queue \in Seq([lone : BOOLEAN, late : BOOLEAN]) /\ Len(queue) <= MaxQueue
  /\ menuShown \in BOOLEAN /\ executeQueue \in BOOLEAN /\ waiting \subseteq 1..MaxQueue
  /\ file \subseteq Ips /\ sure \subseteq Ips
  /\ connection \in [Connections -> {"closed", "open", "authenticated"}]
  /\ overlap \subseteq Threads

\* A change of Server.LobbyType that met no other one is all or nothing: accepted,
\* both representations and the engine have the new value; refused, all three
\* have the old one (the engine once one was accepted).  Two changes that met can
\* leave a refused value behind.
LoneChangeHolds ==
  (\A t \in Threads : op[t].kind # "lobby") /\ expected # Unknown =>
    /\ valueInt = expected /\ valueString = expected
    /\ engineLobbyType \in {Unknown, expected}

\* Once the queue has been run, every command whose push met no other has been run,
\* unless a push ended during the run; pushes that meet cost no other command than
\* their own.  What is left in the queue was put there by a push that ended after the
\* run, and stays although its sender was told "Command queued until mainmenu shows".
QueueIsServed ==
  menuShown /\ ~executeQueue =>
    waiting = {} /\ (queue # <<>> => queue[Len(queue)].late)

\* A ban is lost only where two changes of the file met or the process died
\* while the file was being written: otherwise a machine with a ban that either
\* thread has made, before any number of restarts, is refused, except in the
\* moment in which the file is being written.
BansHold ==
  (\A t \in Threads : op[t].step # "write") => \A ip \in sure : Refused(ip)
=============================================================================
