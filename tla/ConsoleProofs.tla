---------------------------- MODULE ConsoleProofs ----------------------------
(***************************************************************************)
(* The safety properties of Console for any range of the variable, any     *)
(* addresses, connections and bound on the queue.                          *)
(***************************************************************************)
EXTENDS Console, TLAPS

-----------------------------------------------------------------------------
(* The parts of the inductive invariant.                                   *)

Range == ValueIntMin..ValueIntMax

LobbyOp == [kind : {"lobby"}, step : {"int", "text", "string", "event"}, new : Range,
            previous : Range, revert : BOOLEAN, text : {Unknown} \cup Range]
Entry     == [lone : BOOLEAN, late : BOOLEAN]
PushOp    == [kind : {"connect"}, step : {"push"}]
StoreOp   == [kind : {"connect"}, step : {"store"}, seen : Seq(Entry)]
ConnectOp == PushOp \cup StoreOp
QueueOp   == [kind : {"queue"}, step : {"run"}, at : Nat, end : Nat]
BanOp     == [kind : {"ban"}, step : {"load", "truncate", "write"},
              change : {"add", "remove", "none"}, ip : Ips \cup {""}, list : SUBSET Ips]

\* The commands and their locals.  Only the game thread runs the queue; a text that is
\* about to be written was read from the variable; a change that is being put back is
\* not announced; only the startup rewrites the ban list without an address.
OpOK ==
  /\ op \in [Threads -> {Idle} \cup LobbyOp \cup ConnectOp \cup QueueOp \cup BanOp]
  /\ op["rcon"].kind # "queue"
  /\ \A t \in Threads :
       /\ op[t].step = "string" => op[t].text \in Range
       /\ op[t].step = "event" => ~op[t].revert
       /\ op[t].step = "load" /\ op[t].change # "none" => op[t].ip \in Ips

DataOK ==
  /\ valueInt \in Range /\ valueString \in Range
  /\ engineLobbyType \in {Unknown} \cup Range
  /\ expected \in {Unknown} \cup Range
  /\ file \subseteq Ips /\ sure \subseteq Ips
  /\ connection \in [Connections -> {"closed", "open", "authenticated"}]
  /\ overlap \subseteq Threads

\* Two commands on the same state that are both under way have met.
MeetInv ==
  op["game"].kind = op["rcon"].kind /\ op["game"].kind # "none" => overlap = Threads

\* A lone change of Server.LobbyType at each of its steps: what it has written so far,
\* and that the value it would put back is the one the last lone change left.
LoneLobby(t) ==
  /\ op[t].step # "int" => valueInt = op[t].new
  /\ op[t].step = "int" /\ ~op[t].revert => valueInt = op[t].previous
  /\ op[t].step = "string" => op[t].text = op[t].new
  /\ op[t].step = "event" => valueString = op[t].new
  /\ op[t].revert => op[t].new = op[t].previous
  /\ expected # Unknown =>
       /\ op[t].previous = expected
       /\ engineLobbyType \in {Unknown, expected}
       /\ op[t].step \in {"int", "text", "string"} /\ ~op[t].revert => valueString = expected

LobbyInv ==
  /\ \A t \in Threads : op[t].kind = "lobby" /\ Lone(t) => LoneLobby(t)
  /\ LoneChangeHolds

\* A lone change of the ban list that has loaded the file has every sure ban in its
\* list, but for the address it is about.
LoneBan(t) ==
  /\ sure \ {op[t].ip} \subseteq op[t].list
  /\ op[t].change = "add" => op[t].ip \in op[t].list

BanInv ==
  /\ \A t \in Threads : op[t].step \in {"truncate", "write"} /\ Lone(t) => LoneBan(t)
  /\ BansHold

\* The commands that must still be run are in q, at their places.
Holds(q) == waiting \subseteq 1..Len(q) /\ \A i \in waiting : q[i].lone

\* The commands that must still be run are in the queue, and in what a thread has seen
\* of it and will write back; the running loop has them before it.
QueueInv ==
  /\ queue \in Seq(Entry) /\ Len(queue) <= MaxQueue
  /\ menuShown \in BOOLEAN /\ executeQueue \in BOOLEAN
  /\ op["game"].kind = "queue" => executeQueue
  /\ executeQueue => menuShown
  /\ Holds(queue)
  /\ \A t \in Threads :
       op[t].step = "store" => Len(op[t].seen) < MaxQueue /\ Holds(op[t].seen)
  /\ op["game"].kind = "queue" =>
       \A i \in waiting : op["game"].at <= i /\ i <= op["game"].end
  /\ QueueIsServed

ConsoleInv == OpOK /\ DataOK /\ MeetInv /\ LobbyInv /\ BanInv /\ QueueInv

-----------------------------------------------------------------------------
(* Facts about commands.                                                   *)

Ops == {Idle} \cup LobbyOp \cup ConnectOp \cup QueueOp \cup BanOp

\* The step a thread is at tells which command it is in.
LEMMA StepTellsCommand ==
  ASSUME OpOK, NEW t \in Threads
  PROVE  /\ op[t].step \in {"int", "text", "string", "event"} <=> op[t] \in LobbyOp
         /\ op[t].step = "push" <=> op[t] \in PushOp
         /\ op[t].step = "store" <=> op[t] \in StoreOp
         /\ op[t].step = "run" <=> op[t] \in QueueOp
         /\ op[t].step \in {"load", "truncate", "write"} <=> op[t] \in BanOp
         /\ op[t].kind = "lobby" <=> op[t] \in LobbyOp
         /\ op[t].kind = "queue" <=> op[t] \in QueueOp
         /\ op[t].kind = "ban" <=> op[t] \in BanOp
         /\ op[t].kind \in {"none", "lobby", "connect", "queue", "ban"}
<1>1. op[t] \in Ops
  BY DEF OpOK, Ops
<1>2. CASE op[t] = Idle
  <2>1. op[t].kind = "none" /\ op[t].step = "idle"
    BY <1>2 DEF Idle
  <2> QED BY <2>1 DEF LobbyOp, ConnectOp, PushOp, StoreOp, QueueOp, BanOp
<1>3. CASE op[t] \in LobbyOp
  BY <1>3 DEF LobbyOp, ConnectOp, PushOp, StoreOp, QueueOp, BanOp
<1>4. CASE op[t] \in ConnectOp
  BY <1>4 DEF LobbyOp, ConnectOp, PushOp, StoreOp, QueueOp, BanOp
<1>5. CASE op[t] \in QueueOp
  BY <1>5 DEF LobbyOp, ConnectOp, PushOp, StoreOp, QueueOp, BanOp
<1>6. CASE op[t] \in BanOp
  BY <1>6 DEF LobbyOp, ConnectOp, PushOp, StoreOp, QueueOp, BanOp
<1> QED BY <1>1, <1>2, <1>3, <1>4, <1>5, <1>6 DEF Ops

\* Begin, Goto and Return change the command of one thread.
LEMMA OneThreadMoves ==
  ASSUME OpOK, NEW t \in Threads, NEW o, op' = [op EXCEPT ![t] = o]
  PROVE  op'[t] = o /\ \A u \in Threads : u # t => op'[u] = op[u]
BY DEF OpOK

\* A thread moves to another well-formed command or step.
LEMMA MoveKeepsOpOK ==
  ASSUME OpOK, NEW t \in Threads, NEW o \in Ops, op' = [op EXCEPT ![t] = o],
         t = "rcon" => o.kind # "queue",
         o.step = "string" => o.text \in Range,
         o.step = "event" => ~o.revert,
         o.step = "load" /\ o.change # "none" => o.ip \in Ips
  PROVE  OpOK'
<1>1. op' \in [Threads -> Ops]
  BY DEF OpOK, Ops
<1>2. op'[t] = o /\ \A u \in Threads : u # t => op'[u] = op[u]
  BY OneThreadMoves
<1>3. "rcon" \in Threads
  BY DEF Threads
<1> QED BY <1>1, <1>2, <1>3 DEF OpOK, Ops

\* What Begin, Goto and Return do to the record of the meetings.
Meets(t) == overlap' = overlap \/ overlap' = Threads \/ overlap' = overlap \ {t}

\* A command that changes neither Server.LobbyType nor itself to or from that command.
LEMMA LobbyUntouched ==
  ASSUME OpOK, LobbyInv, NEW t \in Threads, NEW o, op' = [op EXCEPT ![t] = o], Meets(t),
         op[t].kind # "lobby", o.kind # "lobby", UNCHANGED variable
  PROVE  LobbyInv'
<1>1. op'[t] = o /\ \A u \in Threads : u # t => op'[u] = op[u]
  BY OneThreadMoves
<1>2. UNCHANGED <<valueInt, valueString, engineLobbyType, expected>>
  BY DEF variable
<1>3. ASSUME NEW u \in Threads, op'[u].kind = "lobby", Lone(u)' PROVE LoneLobby(u)'
  <2>1. u # t /\ op'[u] = op[u]
    BY <1>1, <1>3
  <2>2. Lone(u)
    BY <1>3, <2>1 DEF Lone, Meets
  <2>3. LoneLobby(u)
    BY <1>3, <2>1, <2>2 DEF LobbyInv
  <2> QED BY <1>2, <2>1, <2>3 DEF LoneLobby
<1>4. LoneChangeHolds'
  BY <1>1, <1>2 DEF LobbyInv, LoneChangeHolds
<1> QED BY <1>3, <1>4 DEF LobbyInv

\* A step that neither writes the ban list nor is about to.
LEMMA BansUntouched ==
  ASSUME OpOK, BanInv, NEW t \in Threads, NEW o, op' = [op EXCEPT ![t] = o], Meets(t),
         op[t].step # "write", o.step \notin {"truncate", "write"}, UNCHANGED banVars
  PROVE  BanInv'
<1>1. op'[t] = o /\ \A u \in Threads : u # t => op'[u] = op[u]
  BY OneThreadMoves
<1>2. UNCHANGED <<file, sure>>
  BY DEF banVars
<1>3. ASSUME NEW u \in Threads, op'[u].step \in {"truncate", "write"}, Lone(u)'
      PROVE LoneBan(u)'
  <2>1. u # t /\ op'[u] = op[u]
    BY <1>1, <1>3
  <2>2. Lone(u)
    BY <1>3, <2>1 DEF Lone, Meets
  <2>3. LoneBan(u)
    BY <1>3, <2>1, <2>2 DEF BanInv
  <2> QED BY <1>2, <2>1, <2>3 DEF LoneBan
<1>4. BansHold'
  BY <1>1, <1>2 DEF BanInv, BansHold, Refused
<1> QED BY <1>3, <1>4 DEF BanInv

\* Only a command for the queue holds what it has seen of it.
LEMMA StoreIsConnect ==
  ASSUME NEW o \in Ops, o.kind # "connect"
  PROVE  o.step # "store"
<1>1. CASE o = Idle
  BY <1>1 DEF Idle
<1>2. o \notin ConnectOp
  BY DEF ConnectOp, PushOp, StoreOp
<1> QED BY <1>1, <1>2 DEF Ops, LobbyOp, QueueOp, BanOp

\* A step that leaves the queue alone.
LEMMA QueueUntouched ==
  ASSUME OpOK, QueueInv, NEW t \in Threads, NEW o, op' = [op EXCEPT ![t] = o],
         op[t].kind # "queue", o.kind # "queue", o.step # "store", UNCHANGED queueVars
  PROVE  QueueInv'
<1>1. op'[t] = o /\ \A u \in Threads : u # t => op'[u] = op[u]
  BY OneThreadMoves
<1>2. UNCHANGED <<queue, menuShown, executeQueue, waiting>>
  BY DEF queueVars
<1>3. "game" \in Threads
  BY DEF Threads
<1>4. /\ op'["game"].kind = "queue" <=> op["game"].kind = "queue"
      /\ op["game"].kind = "queue" => op'["game"] = op["game"]
  BY <1>1, <1>3
<1>5. \A u \in Threads :
        op'[u].step = "store" => Len(op'[u].seen) < MaxQueue /\ Holds(op'[u].seen)
  BY <1>1 DEF QueueInv
<1>7. Holds(queue)'
  BY <1>2 DEF QueueInv, Holds
<1>8. QueueIsServed'
  BY <1>2 DEF QueueInv, QueueIsServed
<1>9. \A u \in Threads :
        op'[u].step = "store" => Len(op'[u].seen) < MaxQueue /\ Holds(op[u].seen)'
  BY <1>1, <1>2, <1>5 DEF Holds
<1> QED BY <1>2, <1>4, <1>7, <1>8, <1>9 DEF QueueInv

\* A command that goes on or ends has met no more commands.
LEMMA GoingOnMeetsNobody ==
  ASSUME OpOK, MeetInv, NEW t \in Threads, NEW o, op' = [op EXCEPT ![t] = o],
         o.kind \in {"none", op[t].kind}, UNCHANGED overlap
  PROVE  MeetInv'
<1>1. op'[t] = o /\ \A u \in Threads : u # t => op'[u] = op[u]
  BY OneThreadMoves
<1> QED BY <1>1 DEF MeetInv, Threads

-----------------------------------------------------------------------------
(* The change of Server.LobbyType.                                         *)

\* The rest of the invariant is not disturbed by a step of that command.
LobbyStepKeeps == MeetInv' /\ BanInv' /\ QueueInv'

\* A step of that command leaves the bans, the queue and the meetings in order.
LEMMA LobbyStepElsewhere ==
  ASSUME OpOK, MeetInv, BanInv, QueueInv, NEW t \in Threads, NEW o \in Ops,
         op[t] \in LobbyOp, o.kind \in {"none", "lobby"}, o.step \notin {"truncate", "write"},
         op' = [op EXCEPT ![t] = o], UNCHANGED <<overlap, queueVars, banVars>>
  PROVE  LobbyStepKeeps
<1>1. op[t].kind = "lobby" /\ op[t].step # "write"
  BY DEF LobbyOp
<1>2. MeetInv'
  BY <1>1, GoingOnMeetsNobody
<1>3. BanInv'
  BY <1>1, BansUntouched DEF Meets
<1>4. QueueInv'
  BY <1>1, StoreIsConnect, QueueUntouched
<1> QED BY <1>2, <1>3, <1>4 DEF LobbyStepKeeps

\* While a lone change is under way the other thread is not in one.
LEMMA LoneLobbyIsOnly ==
  ASSUME OpOK, MeetInv, NEW t \in Threads, op[t].kind = "lobby", Lone(t)
  PROVE  \A u \in Threads : u # t => op[u].kind # "lobby"
BY DEF MeetInv, Threads, Lone

\* A step of the change that leaves expected alone: it is enough to look at a lone one.
LEMMA LobbyGoesOn ==
  ASSUME OpOK, MeetInv, LobbyInv, NEW t \in Threads, NEW o \in LobbyOp,
         op[t] \in LobbyOp, op' = [op EXCEPT ![t] = o], UNCHANGED overlap,
         Lone(t) => LoneLobby(t)'
  PROVE  LobbyInv'
<1>1. op'[t] = o /\ (\A u \in Threads : u # t => op'[u] = op[u])
  BY OneThreadMoves
<1>2. o.kind = "lobby" /\ op[t].kind = "lobby"
  BY DEF LobbyOp
<1>3. LoneChangeHolds'
  BY <1>1, <1>2 DEF LoneChangeHolds
<1>4. ASSUME NEW u \in Threads, op'[u].kind = "lobby", Lone(u)' PROVE LoneLobby(u)'
  <2>1. Lone(u)
    BY <1>4 DEF Lone
  <2>2. CASE u = t
    BY <2>1, <2>2
  <2>3. CASE u # t
    BY <1>1, <1>2, <1>4, <2>1, <2>3, LoneLobbyIsOnly
  <2> QED BY <2>2, <2>3
<1> QED BY <1>3, <1>4 DEF LobbyInv

\* The end of the change.
LEMMA LobbyEnds ==
  ASSUME OpOK, MeetInv, LobbyInv, NEW t \in Threads, op[t] \in LobbyOp,
         op' = [op EXCEPT ![t] = Idle], UNCHANGED overlap,
         expected' = Expectation(t),
         Lone(t) /\ expected' # Unknown =>
           /\ valueInt' = expected' /\ valueString' = expected'
           /\ engineLobbyType' \in {Unknown, expected'}
  PROVE  LobbyInv'
<1>1. op'[t] = Idle /\ (\A u \in Threads : u # t => op'[u] = op[u])
  BY OneThreadMoves
<1>2. Idle.kind = "none" /\ op[t].kind = "lobby"
  BY DEF LobbyOp, Idle
<1>3. expected' # Unknown => Lone(t)
  BY DEF Expectation
<1>4. LoneChangeHolds'
  BY <1>3 DEF LoneChangeHolds
<1>5. ASSUME NEW u \in Threads, op'[u].kind = "lobby", Lone(u)' PROVE FALSE
  <2>1. Lone(u)
    BY <1>5 DEF Lone
  <2>2. u # t
    BY <1>1, <1>2, <1>5
  <2> QED BY <1>1, <1>2, <1>5, <2>1, <2>2, LoneLobbyIsOnly
<1> QED BY <1>4, <1>5 DEF LobbyInv

\* Begin records a meeting.
LEMMA BeginMeets ==
  ASSUME OpOK, MeetInv, NEW t \in Threads, NEW o, Begin(t, o)
  PROVE  /\ MeetInv' /\ Meets(t) /\ op' = [op EXCEPT ![t] = o]
         /\ op[t].kind = "none" /\ op[t].step = "idle"
<1>1. /\ op' = [op EXCEPT ![t] = o]
      /\ overlap' = IF op[Other(t)].kind = o.kind THEN Threads ELSE overlap \ {t}
      /\ op[t] = Idle
  BY DEF Begin, MayRun
<1>2. op'[t] = o /\ (\A u \in Threads : u # t => op'[u] = op[u])
  BY <1>1, OneThreadMoves
<1>3. Other(t) \in Threads /\ Other(t) # t /\ Threads = {t, Other(t)}
  BY DEF Other, Threads
<1>4. MeetInv'
  BY <1>1, <1>2, <1>3 DEF MeetInv, Threads, Other
<1>5. Meets(t)
  BY <1>1 DEF Meets
<1> QED BY <1>1, <1>4, <1>5 DEF Idle

\* The change begins with the value it would put back.
LEMMA SetLobbyTypeKeeps ==
  ASSUME ConsoleInv, NEW t \in Threads, NEW x \in LobbyTypes, SetLobbyType(t, x)
  PROVE  ConsoleInv'
<1> DEFINE o == [kind |-> "lobby", step |-> "int", new |-> x, previous |-> valueInt,
                 revert |-> FALSE, text |-> Unknown]
<1>0. OpOK /\ DataOK /\ MeetInv /\ LobbyInv /\ BanInv /\ QueueInv
  BY DEF ConsoleInv
<1>1. Begin(t, o) /\ InRange(x) /\ UNCHANGED <<variable, queueVars, banVars, connection>>
  BY DEF SetLobbyType
<1>2. /\ MeetInv' /\ Meets(t) /\ op' = [op EXCEPT ![t] = o]
      /\ op[t].kind = "none" /\ op[t].step = "idle"
  BY <1>0, <1>1, BeginMeets
<1>3. o \in LobbyOp
  <2>1. x \in Range
    BY <1>1, RangeAssumption DEF InRange, Range
  <2>2. valueInt \in Range
    BY <1>0 DEF DataOK
  <2> QED BY <2>1, <2>2 DEF LobbyOp
<1>4. OpOK'
  BY <1>0, <1>2, <1>3, MoveKeepsOpOK DEF Ops
<1>5. BanInv' /\ QueueInv'
  <2>1. o.kind = "lobby" /\ o.step = "int"
    OBVIOUS
  <2> HIDE DEF o
  <2>2. BanInv'
    BY <1>0, <1>1, <1>2, <2>1, BansUntouched
  <2>3. QueueInv'
    BY <1>0, <1>1, <1>2, <2>1, QueueUntouched
  <2> QED BY <2>2, <2>3
<1>6. DataOK'
  BY <1>0, <1>1, <1>2 DEF DataOK, variable, banVars, Meets
<1>7. op'[t] = o /\ (\A u \in Threads : u # t => op'[u] = op[u])
  BY <1>0, <1>2, OneThreadMoves
<1>8. LobbyInv'
  <2>1. LoneChangeHolds'
    BY <1>7 DEF LoneChangeHolds
  <2>2. ASSUME NEW u \in Threads, op'[u].kind = "lobby", Lone(u)' PROVE LoneLobby(u)'
    <3>1. \A v \in Threads : op[v].kind # "lobby"
      <4>1. \A v \in Threads : v # u => op'[v].kind # "lobby"
        BY <1>2, <1>4, <2>2 DEF MeetInv, Threads, Lone
      <4>2. u = t
        BY <1>7, <4>1
      <4> QED BY <1>2, <1>7, <4>1, <4>2
    <3>2. u = t
      BY <1>7, <2>2, <3>1
    <3>3. expected # Unknown => /\ valueInt = expected /\ valueString = expected
                                /\ engineLobbyType \in {Unknown, expected}
      BY <1>0, <3>1 DEF LobbyInv, LoneChangeHolds
    <3>4. UNCHANGED <<valueInt, valueString, engineLobbyType, expected>>
      BY <1>1 DEF variable
    <3> QED BY <1>7, <3>2, <3>3, <3>4 DEF LoneLobby
  <2> QED BY <2>1, <2>2 DEF LobbyInv
<1> QED BY <1>2, <1>4, <1>5, <1>6, <1>8 DEF ConsoleInv

\* The first representation is written.
LEMMA WriteIntKeeps ==
  ASSUME ConsoleInv, NEW t \in Threads, WriteInt(t)
  PROVE  ConsoleInv'
<1> DEFINE o == [op[t] EXCEPT !.step = "text"]
<1>0. OpOK /\ DataOK /\ MeetInv /\ LobbyInv /\ BanInv /\ QueueInv
  BY DEF ConsoleInv
<1>1. /\ op[t].step = "int" /\ valueInt' = op[t].new
      /\ op' = [op EXCEPT ![t] = o]
      /\ UNCHANGED <<overlap, valueString, engineLobbyType, expected, queueVars, banVars, connection>>
  BY DEF WriteInt, Goto
<1>2. op[t] \in LobbyOp
  BY <1>0, <1>1, StepTellsCommand
<1>3. o \in LobbyOp /\ o.step = "text" /\ o.kind = "lobby" /\ o.new = op[t].new
      /\ o.previous = op[t].previous /\ o.revert = op[t].revert
  BY <1>2 DEF LobbyOp
<1> HIDE DEF o
<1>4. OpOK'
  BY <1>0, <1>1, <1>3, MoveKeepsOpOK DEF Ops
<1>5. LobbyStepKeeps
  BY <1>0, <1>1, <1>2, <1>3, LobbyStepElsewhere DEF Ops
<1>6. DataOK'
  BY <1>0, <1>1, <1>2 DEF DataOK, banVars, LobbyOp
<1>7. op'[t] = o
  BY <1>0, <1>1, OneThreadMoves
<1>8. Lone(t) => LoneLobby(t)'
  BY <1>0, <1>1, <1>2, <1>3, <1>7 DEF LobbyInv, LoneLobby, LobbyOp
<1>9. LobbyInv'
  BY <1>0, <1>1, <1>2, <1>3, <1>8, LobbyGoesOn
<1> QED BY <1>4, <1>5, <1>6, <1>9 DEF ConsoleInv, LobbyStepKeeps

\* The text is made from what the variable holds by now.
LEMMA ReadIntKeeps ==
  ASSUME ConsoleInv, NEW t \in Threads, ReadInt(t)
  PROVE  ConsoleInv'
<1> DEFINE o == [op[t] EXCEPT !.step = "string", !.text = valueInt]
<1>0. OpOK /\ DataOK /\ MeetInv /\ LobbyInv /\ BanInv /\ QueueInv
  BY DEF ConsoleInv
<1>1. /\ op[t].step = "text" /\ op' = [op EXCEPT ![t] = o]
      /\ UNCHANGED <<overlap, variable, queueVars, banVars, connection>>
  BY DEF ReadInt, Goto
<1>2. op[t] \in LobbyOp /\ valueInt \in Range
  BY <1>0, <1>1, StepTellsCommand DEF DataOK
<1>3. o \in LobbyOp /\ o.step = "string" /\ o.kind = "lobby" /\ o.new = op[t].new
      /\ o.previous = op[t].previous /\ o.revert = op[t].revert /\ o.text = valueInt
  BY <1>2 DEF LobbyOp
<1> HIDE DEF o
<1>4. OpOK'
  BY <1>0, <1>1, <1>2, <1>3, MoveKeepsOpOK DEF Ops
<1>5. LobbyStepKeeps
  BY <1>0, <1>1, <1>2, <1>3, LobbyStepElsewhere DEF Ops
<1>6. DataOK'
  BY <1>0, <1>1 DEF DataOK, banVars, variable
<1>7. op'[t] = o
  BY <1>0, <1>1, OneThreadMoves
<1>8. Lone(t) => LoneLobby(t)'
  BY <1>0, <1>1, <1>2, <1>3, <1>7 DEF LobbyInv, LoneLobby, LobbyOp, variable
<1>9. LobbyInv'
  BY <1>0, <1>1, <1>2, <1>3, <1>8, LobbyGoesOn
<1> QED BY <1>4, <1>5, <1>6, <1>9 DEF ConsoleInv, LobbyStepKeeps

\* The second representation is written; a change that is put back ends here.
LEMMA WriteStringKeeps ==
  ASSUME ConsoleInv, NEW t \in Threads, WriteString(t)
  PROVE  ConsoleInv'
<1>0. OpOK /\ DataOK /\ MeetInv /\ LobbyInv /\ BanInv /\ QueueInv
  BY DEF ConsoleInv
<1>1. /\ op[t].step = "string" /\ valueString' = op[t].text
      /\ UNCHANGED <<valueInt, engineLobbyType, queueVars, banVars, connection>>
  BY DEF WriteString
<1>2. op[t] \in LobbyOp /\ op[t].text \in Range
  BY <1>0, <1>1, StepTellsCommand DEF OpOK
<1>3. Lone(t) => LoneLobby(t)
  BY <1>0, <1>2 DEF LobbyInv, LobbyOp
<1>4. CASE op[t].revert
  <2>1. op' = [op EXCEPT ![t] = Idle] /\ UNCHANGED overlap /\ expected' = Expectation(t)
    BY <1>4 DEF WriteString, Return
  <2>2. Idle \in Ops /\ Idle.kind = "none" /\ Idle.step = "idle"
    BY DEF Ops, Idle
  <2>3. OpOK'
    BY <1>0, <2>1, <2>2, MoveKeepsOpOK
  <2>4. LobbyStepKeeps
    BY <1>0, <1>1, <1>2, <2>1, <2>2, LobbyStepElsewhere
  <2>5. DataOK'
    BY <1>0, <1>1, <1>2, <2>1 DEF DataOK, banVars, LobbyOp, Expectation
  <2>6. Lone(t) /\ expected' # Unknown =>
           /\ valueInt' = expected' /\ valueString' = expected'
           /\ engineLobbyType' \in {Unknown, expected'}
    BY <1>1, <1>3, <1>4, <2>1 DEF Expectation, LoneLobby
  <2>7. LobbyInv'
    BY <1>0, <1>2, <2>1, <2>6, LobbyEnds
  <2> QED BY <2>3, <2>4, <2>5, <2>7 DEF ConsoleInv, LobbyStepKeeps
<1>5. CASE ~op[t].revert
  <2> DEFINE o == [op[t] EXCEPT !.step = "event"]
  <2>1. op' = [op EXCEPT ![t] = o] /\ UNCHANGED <<overlap, expected>>
    BY <1>5 DEF WriteString, Goto
  <2>2. o \in LobbyOp /\ o.step = "event" /\ o.kind = "lobby" /\ o.new = op[t].new
        /\ o.previous = op[t].previous /\ o.revert = op[t].revert
    BY <1>2 DEF LobbyOp
  <2> HIDE DEF o
  <2>3. OpOK'
    BY <1>0, <1>5, <2>1, <2>2, MoveKeepsOpOK DEF Ops
  <2>4. LobbyStepKeeps
    BY <1>0, <1>1, <1>2, <2>1, <2>2, LobbyStepElsewhere DEF Ops
  <2>5. DataOK'
    BY <1>0, <1>1, <1>2, <2>1 DEF DataOK, banVars
  <2>6. op'[t] = o
    BY <1>0, <2>1, OneThreadMoves
  <2>7. Lone(t) => LoneLobby(t)'
    BY <1>1, <1>3, <1>5, <2>1, <2>2, <2>6 DEF LoneLobby
  <2>8. LobbyInv'
    BY <1>0, <1>2, <2>1, <2>2, <2>7, LobbyGoesOn
  <2> QED BY <2>3, <2>4, <2>5, <2>8 DEF ConsoleInv, LobbyStepKeeps
<1> QED BY <1>4, <1>5

\* The engine takes the new value.
LEMMA UpdateEventAcceptsKeeps ==
  ASSUME ConsoleInv, NEW t \in Threads, UpdateEventAccepts(t)
  PROVE  ConsoleInv'
<1>0. OpOK /\ DataOK /\ MeetInv /\ LobbyInv /\ BanInv /\ QueueInv
  BY DEF ConsoleInv
<1>1. /\ op[t].step = "event" /\ engineLobbyType' = valueInt /\ expected' = Expectation(t)
      /\ op' = [op EXCEPT ![t] = Idle]
      /\ UNCHANGED <<overlap, valueInt, valueString, queueVars, banVars, connection>>
  BY DEF UpdateEventAccepts, Return
<1>2. op[t] \in LobbyOp /\ ~op[t].revert
  BY <1>0, <1>1, StepTellsCommand DEF OpOK
<1>3. Lone(t) => LoneLobby(t)
  BY <1>0, <1>2 DEF LobbyInv, LobbyOp
<1>4. Idle \in Ops /\ Idle.kind = "none" /\ Idle.step = "idle"
  BY DEF Ops, Idle
<1>5. OpOK'
  BY <1>0, <1>1, <1>4, MoveKeepsOpOK
<1>6. LobbyStepKeeps
  BY <1>0, <1>1, <1>2, <1>4, LobbyStepElsewhere
<1>7. DataOK'
  BY <1>0, <1>1, <1>2 DEF DataOK, banVars, LobbyOp, Expectation
<1>8. Lone(t) /\ expected' # Unknown =>
         /\ valueInt' = expected' /\ valueString' = expected'
         /\ engineLobbyType' \in {Unknown, expected'}
  BY <1>1, <1>2, <1>3 DEF Expectation, LoneLobby
<1>9. LobbyInv'
  BY <1>0, <1>1, <1>2, <1>8, LobbyEnds
<1> QED BY <1>5, <1>6, <1>7, <1>9 DEF ConsoleInv, LobbyStepKeeps

\* The engine refuses, and the change sets out to put the old value back.
LEMMA UpdateEventRefusesKeeps ==
  ASSUME ConsoleInv, NEW t \in Threads, UpdateEventRefuses(t)
  PROVE  ConsoleInv'
<1> DEFINE o == [op[t] EXCEPT !.step = "int", !.new = op[t].previous, !.revert = TRUE]
<1>0. OpOK /\ DataOK /\ MeetInv /\ LobbyInv /\ BanInv /\ QueueInv
  BY DEF ConsoleInv
<1>1. /\ op[t].step = "event" /\ op' = [op EXCEPT ![t] = o]
      /\ UNCHANGED <<overlap, variable, queueVars, banVars, connection>>
  BY DEF UpdateEventRefuses, Goto
<1>2. op[t] \in LobbyOp
  BY <1>0, <1>1, StepTellsCommand
<1>3. o \in LobbyOp /\ o.step = "int" /\ o.kind = "lobby" /\ o.new = op[t].previous
      /\ o.previous = op[t].previous /\ o.revert = TRUE
  BY <1>2 DEF LobbyOp
<1> HIDE DEF o
<1>4. OpOK'
  BY <1>0, <1>1, <1>3, MoveKeepsOpOK DEF Ops
<1>5. LobbyStepKeeps
  BY <1>0, <1>1, <1>2, <1>3, LobbyStepElsewhere DEF Ops
<1>6. DataOK'
  BY <1>0, <1>1 DEF DataOK, banVars, variable
<1>7. op'[t] = o
  BY <1>0, <1>1, OneThreadMoves
<1>8. Lone(t) => LoneLobby(t)'
  BY <1>0, <1>1, <1>2, <1>3, <1>7 DEF LobbyInv, LoneLobby, LobbyOp, variable
<1>9. LobbyInv'
  BY <1>0, <1>1, <1>2, <1>3, <1>8, LobbyGoesOn
<1> QED BY <1>4, <1>5, <1>6, <1>9 DEF ConsoleInv, LobbyStepKeeps

-----------------------------------------------------------------------------
(* The ban list.                                                           *)

\* The parts of the invariant that a step of a ban does not disturb.
BanStepKeeps == MeetInv' /\ LobbyInv' /\ QueueInv'

\* A step of a ban leaves Server.LobbyType, the queue and the meetings in order.
LEMMA BanStepElsewhere ==
  ASSUME OpOK, MeetInv, LobbyInv, QueueInv, NEW t \in Threads, NEW o \in Ops,
         op[t] \in BanOp, o.kind \in {"none", "ban"},
         op' = [op EXCEPT ![t] = o], UNCHANGED <<overlap, variable, queueVars>>
  PROVE  BanStepKeeps
<1>1. op[t].kind = "ban"
  BY DEF BanOp
<1>2. MeetInv'
  BY <1>1, GoingOnMeetsNobody
<1>3. LobbyInv'
  BY <1>1, LobbyUntouched DEF Meets
<1>4. QueueInv'
  BY <1>1, StoreIsConnect, QueueUntouched
<1> QED BY <1>2, <1>3, <1>4 DEF BanStepKeeps

\* While a lone change of the list is under way the other thread is not in one.
LEMMA LoneBanIsOnly ==
  ASSUME OpOK, MeetInv, NEW t \in Threads, op[t] \in BanOp, Lone(t)
  PROVE  \A u \in Threads : u # t => op[u].step \notin {"load", "truncate", "write"}
<1>1. op[t].kind = "ban"
  BY DEF BanOp
<1>2. \A u \in Threads : u # t => op[u].kind # "ban"
  BY <1>1 DEF MeetInv, Threads, Lone
<1> QED BY <1>2, StepTellsCommand

\* Server.AddBan or Server.Unban begins.
LEMMA ChangeBansKeeps ==
  ASSUME ConsoleInv, NEW t \in Threads, NEW change \in {"add", "remove"}, NEW ip \in Ips,
         ChangeBans(t, change, ip)
  PROVE  ConsoleInv'
<1> DEFINE o == Rewrite(change, ip)
<1>0. OpOK /\ DataOK /\ MeetInv /\ LobbyInv /\ BanInv /\ QueueInv
  BY DEF ConsoleInv
<1>1. Begin(t, o) /\ UNCHANGED <<variable, queueVars, banVars, connection>>
  BY DEF ChangeBans
<1>2. o \in BanOp /\ o.kind = "ban" /\ o.step = "load" /\ o.ip \in Ips
  BY DEF Rewrite, BanOp
<1> HIDE DEF o
<1>3. /\ MeetInv' /\ Meets(t) /\ op' = [op EXCEPT ![t] = o]
      /\ op[t].kind = "none" /\ op[t].step = "idle"
  BY <1>0, <1>1, BeginMeets
<1>4. OpOK'
  BY <1>0, <1>2, <1>3, MoveKeepsOpOK DEF Ops
<1>5. LobbyInv'
  BY <1>0, <1>1, <1>2, <1>3, LobbyUntouched
<1>6. BanInv'
  BY <1>0, <1>1, <1>2, <1>3, BansUntouched
<1>7. QueueInv'
  BY <1>0, <1>1, <1>2, <1>3, QueueUntouched
<1>8. DataOK'
  BY <1>0, <1>1, <1>3 DEF DataOK, variable, banVars, Meets
<1> QED BY <1>3, <1>4, <1>5, <1>6, <1>7, <1>8 DEF ConsoleInv

\* AddIp and RemoveIp: every address but the one they are about stays.
LEMMA ChangedKeepsOthers ==
  ASSUME NEW list \in SUBSET Ips, NEW change \in {"add", "remove", "none"},
         NEW ip \in Ips \cup {""}, change # "none" => ip \in Ips
  PROVE  /\ Changed(list, change, ip) \in SUBSET Ips
         /\ list \ {ip} \subseteq Changed(list, change, ip)
         /\ change = "add" => ip \in Changed(list, change, ip)
<1>1. CASE change = "add"
  BY <1>1 DEF Changed
<1>2. CASE change = "remove"
  BY <1>2 DEF Changed
<1>3. CASE change = "none"
  BY <1>3 DEF Changed
<1> QED BY <1>1, <1>2, <1>3

\* The file is loaded and the copy changed: a lone change loads every sure ban.
LEMMA LoadBanListKeeps ==
  ASSUME ConsoleInv, NEW t \in Threads, LoadBanList(t)
  PROVE  ConsoleInv'
<1>0. OpOK /\ DataOK /\ MeetInv /\ LobbyInv /\ BanInv /\ QueueInv
  BY DEF ConsoleInv
<1>1. op[t].step = "load" /\ UNCHANGED <<overlap, variable, queueVars, banVars, connection>>
  BY DEF LoadBanList, Return, Goto
<1>2. op[t] \in BanOp
  BY <1>0, <1>1, StepTellsCommand
<1>3. DataOK'
  BY <1>0, <1>1 DEF DataOK, variable, banVars
<1>4. CASE op' = [op EXCEPT ![t] = Idle]
  <2>1. Idle \in Ops /\ Idle.kind = "none" /\ Idle.step = "idle"
    BY DEF Ops, Idle
  <2>2. OpOK'
    BY <1>0, <1>4, <2>1, MoveKeepsOpOK
  <2>3. BanStepKeeps
    BY <1>0, <1>1, <1>2, <1>4, <2>1, BanStepElsewhere
  <2>4. BanInv'
    BY <1>0, <1>1, <1>4, <2>1, BansUntouched DEF Meets
  <2> QED BY <1>3, <2>2, <2>3, <2>4 DEF ConsoleInv, BanStepKeeps
<1> DEFINE list == Changed(file, op[t].change, op[t].ip)
           o == [op[t] EXCEPT !.step = "truncate", !.list = list]
<1>5. CASE op' = [op EXCEPT ![t] = o]
  <2>1. /\ list \in SUBSET Ips /\ file \ {op[t].ip} \subseteq list
        /\ op[t].change = "add" => op[t].ip \in list
    <3>1. /\ op[t].change \in {"add", "remove", "none"} /\ op[t].ip \in Ips \cup {""}
          /\ op[t].change # "none" => op[t].ip \in Ips
      BY <1>0, <1>1, <1>2 DEF BanOp, OpOK
    <3>2. file \in SUBSET Ips
      BY <1>0 DEF DataOK
    <3>3. \A change \in {"add", "remove", "none"}, ip \in Ips \cup {""} :
            (change # "none" => ip \in Ips) =>
              /\ Changed(file, change, ip) \in SUBSET Ips
              /\ file \ {ip} \subseteq Changed(file, change, ip)
              /\ change = "add" => ip \in Changed(file, change, ip)
      BY <3>2, ChangedKeepsOthers
    <3> QED BY <3>1, <3>3
  <2> HIDE DEF list
  <2>2. /\ o \in BanOp /\ o.kind = "ban" /\ o.step = "truncate" /\ o.list = list
        /\ o.ip = op[t].ip /\ o.change = op[t].change
    BY <1>2, <2>1 DEF BanOp
  <2> HIDE DEF o
  <2>3. OpOK'
    BY <1>0, <1>5, <2>2, MoveKeepsOpOK DEF Ops
  <2>4. BanStepKeeps
    BY <1>0, <1>1, <1>2, <1>5, <2>2, BanStepElsewhere DEF Ops
  <2>5. op'[t] = o /\ (\A u \in Threads : u # t => op'[u] = op[u])
    BY <1>0, <1>5, OneThreadMoves
  <2>6. UNCHANGED <<file, sure>>
    BY <1>1 DEF banVars
  <2>7. BansHold'
    BY <1>0, <1>1, <2>2, <2>5, <2>6 DEF BanInv, BansHold, Refused
  <2>8. ASSUME NEW u \in Threads, op'[u].step \in {"truncate", "write"}, Lone(u)'
        PROVE LoneBan(u)'
    <3>1. Lone(u)
      BY <1>1, <2>8 DEF Lone
    <3>2. CASE u # t
      <4>1. LoneBan(u)
        BY <1>0, <2>5, <2>8, <3>1, <3>2 DEF BanInv
      <4> QED BY <2>5, <2>6, <3>2, <4>1 DEF LoneBan
    <3>3. CASE u = t
      <4>1. \A v \in Threads : op[v].step # "write"
        BY <1>0, <1>1, <1>2, <3>1, <3>3, LoneBanIsOnly
      <4>2. sure \subseteq file
        BY <1>0, <4>1 DEF BanInv, BansHold, Refused
      <4> QED BY <2>1, <2>2, <2>5, <2>6, <3>3, <4>2 DEF LoneBan
    <3> QED BY <3>2, <3>3
  <2> QED BY <1>3, <2>3, <2>4, <2>7, <2>8 DEF ConsoleInv, BanStepKeeps, BanInv
<1> QED BY <1>4, <1>5 DEF LoadBanList, Return, Goto

\* The file is truncated.
LEMMA TruncateBanListKeeps ==
  ASSUME ConsoleInv, NEW t \in Threads, TruncateBanList(t)
  PROVE  ConsoleInv'
<1> DEFINE o == [op[t] EXCEPT !.step = "write"]
<1>0. OpOK /\ DataOK /\ MeetInv /\ LobbyInv /\ BanInv /\ QueueInv
  BY DEF ConsoleInv
<1>1. /\ op[t].step = "truncate" /\ file' \in SUBSET op[t].list
      /\ op' = [op EXCEPT ![t] = o]
      /\ UNCHANGED <<overlap, variable, queueVars, sure, connection>>
  BY DEF TruncateBanList, Goto
<1>2. op[t] \in BanOp
  BY <1>0, <1>1, StepTellsCommand
<1>3. /\ o \in BanOp /\ o.kind = "ban" /\ o.step = "write" /\ o.list = op[t].list
      /\ o.ip = op[t].ip /\ o.change = op[t].change
  BY <1>2 DEF BanOp
<1> HIDE DEF o
<1>4. OpOK'
  BY <1>0, <1>1, <1>3, MoveKeepsOpOK DEF Ops
<1>5. BanStepKeeps
  BY <1>0, <1>1, <1>2, <1>3, BanStepElsewhere DEF Ops
<1>6. DataOK'
  BY <1>0, <1>1, <1>2 DEF DataOK, variable, BanOp
<1>7. op'[t] = o /\ (\A u \in Threads : u # t => op'[u] = op[u])
  BY <1>0, <1>1, OneThreadMoves
<1>8. BansHold'
  BY <1>3, <1>7 DEF BansHold
<1>9. ASSUME NEW u \in Threads, op'[u].step \in {"truncate", "write"}, Lone(u)'
      PROVE LoneBan(u)'
  <2>1. Lone(u)
    BY <1>1, <1>9 DEF Lone
  <2>2. op[u].step \in {"truncate", "write"}
    BY <1>1, <1>7, <1>9
  <2>3. LoneBan(u)
    BY <1>0, <2>1, <2>2 DEF BanInv
  <2>4. op'[u].ip = op[u].ip /\ op'[u].list = op[u].list /\ op'[u].change = op[u].change
    BY <1>3, <1>7
  <2> QED BY <1>1, <2>3, <2>4 DEF LoneBan
<1> QED BY <1>4, <1>5, <1>6, <1>8, <1>9 DEF ConsoleInv, BanStepKeeps, BanInv

\* The list is written; what a lone change leaves is sure.
LEMMA WriteBanListKeeps ==
  ASSUME ConsoleInv, NEW t \in Threads, WriteBanList(t)
  PROVE  ConsoleInv'
<1>0. OpOK /\ DataOK /\ MeetInv /\ LobbyInv /\ BanInv /\ QueueInv
  BY DEF ConsoleInv
<1>1. /\ op[t].step = "write" /\ file' = op[t].list
      /\ sure' = {ip \in Ips :
                    /\ Lone(t)
                    /\ IF ip = op[t].ip THEN op[t].change = "add" ELSE ip \in sure}
      /\ op' = [op EXCEPT ![t] = Idle]
      /\ UNCHANGED <<overlap, variable, queueVars, connection>>
  BY DEF WriteBanList, Return
<1>2. op[t] \in BanOp
  BY <1>0, <1>1, StepTellsCommand
<1>3. Idle \in Ops /\ Idle.kind = "none" /\ Idle.step = "idle"
  BY DEF Ops, Idle
<1>4. OpOK'
  BY <1>0, <1>1, <1>3, MoveKeepsOpOK
<1>5. BanStepKeeps
  BY <1>0, <1>1, <1>2, <1>3, BanStepElsewhere
<1>6. DataOK'
  BY <1>0, <1>1, <1>2 DEF DataOK, variable, BanOp
<1>7. op'[t] = Idle /\ (\A u \in Threads : u # t => op'[u] = op[u])
  BY <1>0, <1>1, OneThreadMoves
<1>8. sure' \subseteq file'
  <2>1. CASE Lone(t)
    <3>1. LoneBan(t)
      BY <1>0, <1>1, <2>1 DEF BanInv
    <3> QED BY <1>1, <3>1 DEF LoneBan
  <2>2. CASE ~Lone(t)
    BY <1>1, <2>2
  <2> QED BY <2>1, <2>2
<1>9. BansHold'
  BY <1>8 DEF BansHold, Refused
<1>10. ASSUME NEW u \in Threads, op'[u].step \in {"truncate", "write"}, Lone(u)'
       PROVE LoneBan(u)'
  <2>1. Lone(u) /\ u # t /\ op'[u] = op[u]
    BY <1>1, <1>3, <1>7, <1>10 DEF Lone
  <2>2. op[u] \in BanOp
    BY <1>0, <1>10, <2>1, StepTellsCommand
  <2>3. op[t].step \notin {"load", "truncate", "write"}
    BY <1>0, <2>1, <2>2, LoneBanIsOnly
  <2> QED BY <1>1, <2>3
<1> QED BY <1>4, <1>5, <1>6, <1>9, <1>10 DEF ConsoleInv, BanStepKeeps, BanInv

-----------------------------------------------------------------------------
(* The queue.                                                              *)

\* A command for the queue begins.
LEMMA ConnectKeeps ==
  ASSUME ConsoleInv, NEW t \in Threads, Connect(t)
  PROVE  ConsoleInv'
<1> DEFINE o == [kind |-> "connect", step |-> "push"]
<1>0. OpOK /\ DataOK /\ MeetInv /\ LobbyInv /\ BanInv /\ QueueInv
  BY DEF ConsoleInv
<1>1. Begin(t, o) /\ UNCHANGED <<variable, queueVars, banVars, connection>>
  BY DEF Connect
<1>2. o \in ConnectOp /\ o.kind = "connect" /\ o.step = "push"
  BY DEF ConnectOp, PushOp
<1> HIDE DEF o
<1>3. /\ MeetInv' /\ Meets(t) /\ op' = [op EXCEPT ![t] = o]
      /\ op[t].kind = "none" /\ op[t].step = "idle"
  BY <1>0, <1>1, BeginMeets
<1>4. OpOK'
  BY <1>0, <1>2, <1>3, MoveKeepsOpOK DEF Ops
<1>5. LobbyInv'
  BY <1>0, <1>1, <1>2, <1>3, LobbyUntouched
<1>6. BanInv'
  BY <1>0, <1>1, <1>2, <1>3, BansUntouched
<1>7. QueueInv'
  BY <1>0, <1>1, <1>2, <1>3, QueueUntouched
<1>8. DataOK'
  BY <1>0, <1>1, <1>3 DEF DataOK, variable, banVars, Meets
<1> QED BY <1>3, <1>4, <1>5, <1>6, <1>7, <1>8 DEF ConsoleInv

\* The parts of the invariant that a step on the queue does not disturb.
QueueStepKeeps == OpOK' /\ DataOK' /\ MeetInv' /\ LobbyInv' /\ BanInv'

\* A step on the queue leaves Server.LobbyType, the bans and the meetings in order.
LEMMA QueueStepElsewhere ==
  ASSUME ConsoleInv, NEW t \in Threads, NEW o \in Ops, op' = [op EXCEPT ![t] = o],
         op[t].kind \notin {"lobby", "ban"}, o.kind \in {"none", "queue", "connect"},
         o.kind = "queue" => t = "game", o.kind = "connect" => op[t].kind = "connect",
         UNCHANGED <<overlap, variable, banVars, connection>>
  PROVE  QueueStepKeeps
<1>0. OpOK /\ DataOK /\ MeetInv /\ LobbyInv /\ BanInv
  BY DEF ConsoleInv
<1>1. o.step \notin {"int", "text", "string", "event", "load", "truncate", "write"}
  <2>1. CASE o = Idle
    BY <2>1 DEF Idle
  <2>2. CASE o \in QueueOp
    BY <2>2 DEF QueueOp
  <2>3. CASE o \in ConnectOp
    BY <2>3 DEF ConnectOp, PushOp, StoreOp
  <2>4. o \notin LobbyOp \cup BanOp
    BY DEF LobbyOp, BanOp
  <2> QED BY <2>1, <2>2, <2>3, <2>4 DEF Ops
<1>2. OpOK'
  <2>1. t = "rcon" => o.kind # "queue"
    OBVIOUS
  <2> QED BY <1>0, <1>1, <2>1, MoveKeepsOpOK
<1>3. op[t].step # "write"
  BY <1>0, StepTellsCommand
<1>4. MeetInv'
  <2>1. op'[t] = o /\ (\A u \in Threads : u # t => op'[u] = op[u])
    BY <1>0, OneThreadMoves
  <2>2. op["rcon"].kind # "queue"
    BY <1>0 DEF OpOK
  <2> QED BY <1>0, <2>1, <2>2 DEF MeetInv, Threads
<1>5. LobbyInv'
  BY <1>0, LobbyUntouched DEF Meets
<1>6. BanInv'
  BY <1>0, <1>1, <1>3, BansUntouched DEF Meets
<1>7. DataOK'
  BY <1>0 DEF DataOK, variable, banVars
<1> QED BY <1>2, <1>4, <1>5, <1>6, <1>7 DEF QueueStepKeeps

\* A step that keeps what threads have seen, or reads it, keeps the queue's invariant
\* when the commands that must be run are still in their places.
LEMMA QueueInOrder ==
  ASSUME OpOK, QueueInv, NEW t \in Threads, NEW o, op' = [op EXCEPT ![t] = o],
         NEW seen, o.step = "store" => o.seen = seen,
         o.step = "store" => Len(seen) < MaxQueue /\ waiting' \subseteq 1..Len(seen)
                             /\ \A i \in waiting' : seen[i].lone,
         \/ waiting' \subseteq waiting
         \/ \A u \in Threads : u # t => op[u].step # "store"
  PROVE  \A u \in Threads :
           op'[u].step = "store" =>
             /\ Len(op'[u].seen) < MaxQueue
             /\ waiting' \subseteq 1..Len(op'[u].seen)
             /\ \A i \in waiting' : op'[u].seen[i].lone
<1>1. op'[t] = o /\ \A u \in Threads : u # t => op'[u] = op[u]
  BY OneThreadMoves
<1> SUFFICES ASSUME NEW u \in Threads, op'[u].step = "store"
             PROVE  /\ Len(op'[u].seen) < MaxQueue
                    /\ waiting' \subseteq 1..Len(op'[u].seen)
                    /\ \A i \in waiting' : op'[u].seen[i].lone
  OBVIOUS
<1>2. CASE u = t
  BY <1>1, <1>2
<1>3. CASE u # t
  <2>1. op'[u] = op[u] /\ op[u].step = "store" /\ waiting' \subseteq waiting
    BY <1>1, <1>3
  <2>2. Len(op[u].seen) < MaxQueue /\ Holds(op[u].seen)
    BY <2>1 DEF QueueInv
  <2> QED BY <2>1, <2>2 DEF Holds
<1> QED BY <1>2, <1>3

\* What a thread has seen of the queue, and a thread that is about to look.
LEMMA PushQueuedKeeps ==
  ASSUME ConsoleInv, NEW t \in Threads, PushQueued(t)
  PROVE  ConsoleInv'
<1> DEFINE o == [kind |-> "connect", step |-> "store", seen |-> queue]
<1>0. OpOK /\ QueueInv
  BY DEF ConsoleInv
<1>1. /\ op[t].step = "push" /\ Len(queue) < MaxQueue
      /\ op' = [op EXCEPT ![t] = o]
      /\ UNCHANGED <<overlap, variable, queueVars, banVars, connection>>
  BY DEF PushQueued, Goto
<1>2. op[t] \in PushOp /\ op[t].kind = "connect"
  BY <1>0, <1>1, StepTellsCommand DEF PushOp
<1>3. o \in Ops /\ o.kind = "connect" /\ o.step = "store" /\ o.seen = queue
  BY <1>0 DEF Ops, ConnectOp, StoreOp, QueueInv
<1> HIDE DEF o
<1>4. QueueStepKeeps
  BY <1>1, <1>2, <1>3, QueueStepElsewhere
<1>5. UNCHANGED <<queue, menuShown, executeQueue, waiting>>
  BY <1>1 DEF queueVars
<1>6. \A u \in Threads :
        op'[u].step = "store" =>
          /\ Len(op'[u].seen) < MaxQueue
          /\ waiting' \subseteq 1..Len(op'[u].seen)
          /\ \A i \in waiting' : op'[u].seen[i].lone
  BY <1>0, <1>1, <1>3, <1>5, QueueInOrder DEF QueueInv, Holds
<1>7. /\ op'["game"].kind = "queue" <=> op["game"].kind = "queue"
      /\ op["game"].kind = "queue" => op'["game"] = op["game"]
  BY <1>0, <1>1, <1>2, <1>3, OneThreadMoves DEF Threads
<1>8. QueueInv'
  BY <1>0, <1>5, <1>6, <1>7 DEF QueueInv, Holds, QueueIsServed
<1> QED BY <1>4, <1>8 DEF ConsoleInv, QueueStepKeeps

\* What was seen is written back with one command more: the commands that must be run
\* are in it, since a command whose push met no other was stored before it was seen.
LEMMA StoreQueuedKeeps ==
  ASSUME ConsoleInv, NEW t \in Threads, StoreQueued(t)
  PROVE  ConsoleInv'
<1> DEFINE seen == op[t].seen
           e == [lone |-> Lone(t), late |-> menuShown /\ ~executeQueue]
           running == op["game"].kind = "queue"
           new == Lone(t) /\ (menuShown => executeQueue)
<1>0. OpOK /\ QueueInv /\ MeetInv
  BY DEF ConsoleInv
<1>1. /\ op[t].step = "store" /\ queue' = Append(seen, e)
      /\ waiting' = IF running THEN {}
                    ELSE IF new THEN waiting \cup {Len(seen) + 1} ELSE waiting
      /\ op' = [op EXCEPT ![t] = Idle]
      /\ UNCHANGED <<overlap, variable, menuShown, executeQueue, banVars, connection>>
  BY DEF StoreQueued, Return
<1>2. op[t] \in StoreOp /\ op[t].kind = "connect" /\ seen \in Seq(Entry)
  BY <1>0, <1>1, StepTellsCommand DEF StoreOp
<1>3. Idle \in Ops /\ Idle.kind = "none" /\ Idle.step = "idle"
  BY DEF Ops, Idle
<1>4. QueueStepKeeps
  BY <1>1, <1>2, <1>3, QueueStepElsewhere
<1>5. Len(seen) < MaxQueue /\ Holds(seen)
  BY <1>0, <1>1 DEF QueueInv
<1>6. e \in Entry /\ (new => e.lone) /\ (menuShown /\ ~executeQueue => e.late)
  <2>1. Lone(t) \in BOOLEAN /\ (menuShown /\ ~executeQueue) \in BOOLEAN
    BY DEF Lone
  <2> QED BY <2>1 DEF Entry
<1>7. /\ op'["game"].kind = "queue" <=> op["game"].kind = "queue"
      /\ op["game"].kind = "queue" => op'["game"] = op["game"]
  BY <1>0, <1>1, <1>2, <1>3, OneThreadMoves DEF Threads
<1>8. \A u \in Threads : u # t /\ op[u].step = "store" => ~new
  <2> SUFFICES ASSUME NEW u \in Threads, u # t, op[u].step = "store" PROVE ~Lone(t)
    OBVIOUS
  <2>1. op[u].kind = "connect"
    BY <1>0, StepTellsCommand DEF StoreOp
  <2> QED BY <1>0, <1>2, <2>1 DEF MeetInv, Threads, Lone
<1> HIDE DEF e, seen, running, new
<1>9. /\ queue' \in Seq(Entry) /\ Len(queue') = Len(seen) + 1 /\ Len(seen) \in Nat
      /\ \A i \in 1..Len(seen) : queue'[i] = seen[i]
      /\ queue'[Len(seen) + 1] = e
  BY <1>1, <1>2, <1>6
<1>10. Len(queue') <= MaxQueue
  BY <1>5, <1>9, QueueAssumption
<1>11. waiting' \subseteq 1..Len(queue') /\ \A i \in waiting' : queue'[i].lone
  <2>1. waiting \subseteq 1..Len(seen) /\ \A i \in waiting : seen[i].lone
    BY <1>5 DEF Holds
  <2>2. waiting \subseteq 1..Len(queue') /\ \A i \in waiting : queue'[i].lone
    BY <1>9, <2>1
  <2>3. new => Len(seen) + 1 \in 1..Len(queue') /\ queue'[Len(seen) + 1].lone
    BY <1>6, <1>9
  <2> QED BY <1>1, <2>2, <2>3
<1>12. \A u \in Threads :
         op'[u].step = "store" =>
           /\ Len(op'[u].seen) < MaxQueue
           /\ waiting' \subseteq 1..Len(op'[u].seen)
           /\ \A i \in waiting' : op'[u].seen[i].lone
  <2>1. waiting' \subseteq waiting \/ \A u \in Threads : u # t => op[u].step # "store"
    BY <1>1, <1>8
  <2> QED BY <1>0, <1>1, <1>3, <2>1, QueueInOrder
<1>13. op'["game"].kind = "queue" => waiting' = {}
  BY <1>1, <1>7 DEF running
<1>14. QueueIsServed'
  <2>1. ASSUME menuShown, ~executeQueue PROVE waiting' = {} /\ queue'[Len(queue')].late
    <3>1. waiting = {} /\ ~new
      BY <1>0, <2>1 DEF QueueInv, QueueIsServed, new
    <3> QED BY <1>1, <1>6, <1>9, <2>1, <3>1
  <2> QED BY <1>1, <2>1 DEF QueueIsServed
<1>15. QueueInv'
  BY <1>0, <1>1, <1>7, <1>9, <1>10, <1>11, <1>12, <1>13, <1>14 DEF QueueInv, Holds
<1> QED BY <1>4, <1>15 DEF ConsoleInv, QueueStepKeeps

\* The main menu shows.
LEMMA OnMainMenuShownKeeps ==
  ASSUME ConsoleInv, OnMainMenuShown
  PROVE  ConsoleInv'
<1>1. /\ op["game"] = Idle /\ ~menuShown /\ menuShown' = TRUE /\ executeQueue' = TRUE
      /\ UNCHANGED <<op, overlap, variable, queue, waiting, banVars, connection>>
  BY DEF OnMainMenuShown
<1>2. QueueInv
  BY DEF ConsoleInv
<1>3. OpOK' /\ DataOK' /\ MeetInv'
  BY <1>1 DEF ConsoleInv, OpOK, DataOK, MeetInv, variable, banVars
<1>4. LobbyInv' /\ BanInv'
  BY <1>1 DEF ConsoleInv, LobbyInv, LoneLobby, LoneChangeHolds, BanInv, LoneBan, BansHold,
              Refused, Lone, variable, banVars
<1>5. op'["game"].kind = "none"
  BY <1>1 DEF Idle
<1>6. QueueInv'
  BY <1>1, <1>2, <1>5 DEF QueueInv, Holds, QueueIsServed
<1> QED BY <1>3, <1>4, <1>6 DEF ConsoleInv

\* The loop over the queue starts with its end behind all that must be run.
LEMMA ExecuteQueueKeeps ==
  ASSUME ConsoleInv, ExecuteQueue
  PROVE  ConsoleInv'
<1> DEFINE o == [kind |-> "queue", step |-> "run", at |-> 1, end |-> Len(queue)]
<1>0. OpOK /\ QueueInv /\ "game" \in Threads
  BY DEF ConsoleInv, Threads
<1>1. /\ op["game"] = Idle /\ executeQueue /\ op' = [op EXCEPT !["game"] = o]
      /\ UNCHANGED <<overlap, variable, queueVars, banVars, connection>>
  BY DEF ExecuteQueue, Goto, QueueEnd
<1>2. Len(queue) \in Nat /\ op["game"].kind = "none"
  BY <1>0, <1>1 DEF QueueInv, Idle
<1>3. o \in QueueOp /\ o.kind = "queue" /\ o.step = "run" /\ o.at = 1 /\ o.end = Len(queue)
  BY <1>2 DEF QueueOp
<1> HIDE DEF o
<1>4. QueueStepKeeps
  BY <1>0, <1>1, <1>2, <1>3, QueueStepElsewhere DEF Ops
<1>5. op'["game"] = o
  BY <1>0, <1>1, OneThreadMoves
<1>6. UNCHANGED <<queue, menuShown, executeQueue, waiting>>
  BY <1>1 DEF queueVars
<1>7. \A u \in Threads :
        op'[u].step = "store" =>
          /\ Len(op'[u].seen) < MaxQueue
          /\ waiting' \subseteq 1..Len(op'[u].seen)
          /\ \A i \in waiting' : op'[u].seen[i].lone
  BY <1>0, <1>1, <1>3, <1>6, QueueInOrder
<1>8. \A i \in waiting' : o.at <= i /\ i <= o.end
  BY <1>0, <1>2, <1>3, <1>6 DEF QueueInv, Holds
<1>9. QueueInv'
  BY <1>0, <1>1, <1>5, <1>6, <1>7, <1>8 DEF QueueInv, Holds, QueueIsServed
<1> QED BY <1>4, <1>9 DEF ConsoleInv, QueueStepKeeps

\* A command of the queue is run.
LEMMA RunQueuedKeeps ==
  ASSUME ConsoleInv, RunQueued
  PROVE  ConsoleInv'
<1> DEFINE g == op["game"]
           o == [g EXCEPT !.at = @ + 1]
<1>0. OpOK /\ QueueInv /\ "game" \in Threads
  BY DEF ConsoleInv, Threads
<1>1. /\ g.step = "run" /\ g.at <= g.end /\ op' = [op EXCEPT !["game"] = o]
      /\ waiting' = {i \in waiting : i # g.at \/ ~queue[i].lone}
      /\ UNCHANGED <<overlap, variable, queue, menuShown, executeQueue, banVars, connection>>
  BY DEF RunQueued, Goto
<1>2. g \in QueueOp /\ g.kind = "queue" /\ g.at \in Nat /\ g.end \in Nat
  BY <1>0, <1>1, StepTellsCommand DEF QueueOp
<1>3. o \in QueueOp /\ o.kind = "queue" /\ o.step = "run" /\ o.at = g.at + 1 /\ o.end = g.end
  BY <1>2 DEF QueueOp
<1>4. op'["game"] = o
  BY <1>0, <1>1, OneThreadMoves
<1> HIDE DEF o
<1>5. QueueStepKeeps
  BY <1>0, <1>1, <1>2, <1>3, QueueStepElsewhere DEF Ops
<1>6. executeQueue /\ \A i \in waiting : g.at <= i /\ i <= g.end
  BY <1>0, <1>2 DEF QueueInv
<1>7. \A i \in waiting : i \in Nat /\ queue[i].lone
  BY <1>0 DEF QueueInv, Holds
<1>8. \A i \in waiting' : i \in waiting /\ i # g.at
  BY <1>1, <1>7
<1> HIDE DEF g
<1>9. \A i \in waiting' : o.at <= i /\ i <= o.end
  BY <1>2, <1>3, <1>6, <1>7, <1>8
<1>10. \A u \in Threads :
         op'[u].step = "store" =>
           /\ Len(op'[u].seen) < MaxQueue
           /\ waiting' \subseteq 1..Len(op'[u].seen)
           /\ \A i \in waiting' : op'[u].seen[i].lone
  BY <1>0, <1>1, <1>3, <1>8, QueueInOrder
<1>11. Holds(queue)'
  BY <1>0, <1>1, <1>8 DEF QueueInv, Holds
<1>12. QueueInv'
  BY <1>0, <1>1, <1>4, <1>6, <1>9, <1>10, <1>11 DEF QueueInv, Holds, QueueIsServed
<1> QED BY <1>5, <1>12 DEF ConsoleInv, QueueStepKeeps

\* The loop has run all that must be, and the queue is cleared.
LEMMA ClearQueueKeeps ==
  ASSUME ConsoleInv, ClearQueue
  PROVE  ConsoleInv'
<1> DEFINE g == op["game"]
<1>0. OpOK /\ QueueInv /\ "game" \in Threads
  BY DEF ConsoleInv, Threads
<1>1. /\ g.step = "run" /\ g.at > g.end /\ op' = [op EXCEPT !["game"] = Idle]
      /\ queue' = <<>> /\ executeQueue' = FALSE
      /\ UNCHANGED <<overlap, variable, waiting, menuShown, banVars, connection>>
  BY DEF ClearQueue, Return
<1>2. g \in QueueOp /\ g.kind = "queue" /\ g.at \in Nat /\ g.end \in Nat
  BY <1>0, <1>1, StepTellsCommand DEF QueueOp
<1>3. Idle \in Ops /\ Idle.kind = "none" /\ Idle.step = "idle"
  BY DEF Ops, Idle
<1>4. QueueStepKeeps
  BY <1>0, <1>1, <1>2, <1>3, QueueStepElsewhere
<1>5. op'["game"].kind = "none"
  BY <1>0, <1>1, <1>3, OneThreadMoves
<1>6. menuShown /\ \A i \in waiting : i \in Nat /\ g.at <= i /\ i <= g.end
  <2>1. menuShown /\ \A i \in waiting : g.at <= i /\ i <= g.end
    BY <1>0, <1>2 DEF QueueInv
  <2>2. \A i \in waiting : i \in Nat
    BY <1>0 DEF QueueInv, Holds
  <2> QED BY <2>1, <2>2
<1> HIDE DEF g
<1>7. waiting = {}
  BY <1>1, <1>2, <1>6
<1>8. queue' \in Seq(Entry) /\ Len(queue') = 0 /\ Len(queue') <= MaxQueue
  BY <1>1, QueueAssumption
<1>9. \A u \in Threads :
        op'[u].step = "store" =>
          /\ Len(op'[u].seen) < MaxQueue
          /\ waiting' \subseteq 1..Len(op'[u].seen)
          /\ \A i \in waiting' : op'[u].seen[i].lone
  BY <1>0, <1>1, <1>3, QueueInOrder
<1>10. QueueIsServed'
  BY <1>1, <1>7 DEF QueueIsServed
<1>11. QueueInv'
  BY <1>0, <1>1, <1>5, <1>7, <1>8, <1>9, <1>10 DEF QueueInv, Holds
<1> QED BY <1>4, <1>11 DEF ConsoleInv, QueueStepKeeps

-----------------------------------------------------------------------------
(* Connections, crashes, and the theorems.                                 *)

\* OnValidate, ProcessPassword and OnClose change one connection only.
LEMMA ConnectionKeeps ==
  ASSUME ConsoleInv, UNCHANGED <<op, overlap, variable, queueVars, banVars>>,
         connection' \in [Connections -> {"closed", "open", "authenticated"}]
  PROVE  ConsoleInv'
<1>1. OpOK' /\ DataOK' /\ MeetInv'
  BY DEF ConsoleInv, OpOK, DataOK, MeetInv, variable, banVars
<1>2. LobbyInv' /\ BanInv'
  BY DEF ConsoleInv, LobbyInv, LoneLobby, LoneChangeHolds, BanInv, LoneBan, BansHold,
         Refused, Lone, variable, banVars
<1>3. QueueInv'
  BY DEF ConsoleInv, QueueInv, Holds, QueueIsServed, queueVars
<1> QED BY <1>1, <1>2, <1>3 DEF ConsoleInv

\* The state a process starts in, whatever is in the file.
LEMMA StartedState ==
  ASSUME NEW o, Started(o)
  PROVE  /\ o \in [Threads -> Ops]
         /\ o["game"].kind = "ban" /\ o["game"].step = "load" /\ o["game"].change = "none"
         /\ o["rcon"].kind = "none" /\ o["rcon"].step = "idle"
<1>1. "game" \in Threads /\ "rcon" \in Threads /\ Threads = {"game", "rcon"}
  BY DEF Threads
<1>2. o["game"] = Rewrite("none", "") /\ o["rcon"] = Idle
  BY <1>1 DEF Started
<1>3. Rewrite("none", "") \in Ops /\ Idle \in Ops
  BY DEF Rewrite, Ops, BanOp
<1>4. o \in [Threads -> Ops]
  BY <1>1, <1>3 DEF Started
<1>5. LET r == Rewrite("none", "")
      IN  r.kind = "ban" /\ r.step = "load" /\ r.change = "none"
  BY DEF Rewrite
<1>6. Idle.kind = "none" /\ Idle.step = "idle"
  BY DEF Idle
<1> QED BY <1>2, <1>4, <1>5, <1>6

\* An empty queue, before the main menu.
EmptyQueue ==
  /\ queue = <<>> /\ menuShown = FALSE /\ executeQueue = FALSE /\ waiting = {}
  /\ op["game"].kind # "queue" /\ \A t \in Threads : op[t].step # "store"

\* The queue of a process that has just started is in order.
LEMMA EmptyQueueOK == EmptyQueue => QueueInv
<1> SUFFICES ASSUME EmptyQueue PROVE QueueInv
  OBVIOUS
<1>1. queue \in Seq(Entry) /\ Len(queue) = 0 /\ Len(queue) <= MaxQueue
  BY QueueAssumption DEF EmptyQueue
<1>2. Holds(queue) /\ QueueIsServed
  BY <1>1 DEF EmptyQueue, Holds, QueueIsServed
<1> QED BY <1>1, <1>2 DEF EmptyQueue, QueueInv

\* The state the process starts in.
LEMMA InitEstablishes == Init => ConsoleInv
<1> SUFFICES ASSUME Init PROVE ConsoleInv
  OBVIOUS
<1>1. /\ op \in [Threads -> Ops]
      /\ op["game"].kind = "ban" /\ op["game"].step = "load" /\ op["game"].change = "none"
      /\ op["rcon"].kind = "none" /\ op["rcon"].step = "idle"
  BY StartedState DEF Init
<1>2. OpOK
  BY <1>1 DEF OpOK, Ops, Threads
<1>3. DataOK
  BY RangeAssumption DEF Init, DataOK, Range
<1>4. MeetInv
  BY <1>1 DEF MeetInv
<1>5. LobbyInv
  BY <1>1 DEF Init, LobbyInv, LoneChangeHolds, Threads
<1>6. BanInv
  BY <1>1 DEF Init, BanInv, BansHold, Refused, Threads
<1>7. QueueInv
  BY <1>1, EmptyQueueOK DEF Init, EmptyQueue, Threads
<1> QED BY <1>2, <1>3, <1>4, <1>5, <1>6, <1>7 DEF ConsoleInv

\* A crash and restart: only the file is left.
LEMMA CrashKeeps ==
  ASSUME ConsoleInv, Crash
  PROVE  ConsoleInv'
<1>1. /\ op' \in [Threads -> Ops]
      /\ op'["game"].kind = "ban" /\ op'["game"].step = "load" /\ op'["game"].change = "none"
      /\ op'["rcon"].kind = "none" /\ op'["rcon"].step = "idle"
  BY StartedState DEF Crash
<1>2. OpOK'
  BY <1>1 DEF OpOK, Ops, Threads
<1>3. DataOK'
  BY RangeAssumption DEF ConsoleInv, Crash, DataOK, Range
<1>4. MeetInv'
  BY <1>1 DEF MeetInv
<1>5. LobbyInv'
  BY <1>1 DEF Crash, LobbyInv, LoneChangeHolds, Threads
<1>6. BanInv'
  <2>1. sure' \subseteq file'
    BY DEF Crash, ConsoleInv, BanInv, BansHold, Refused
  <2> QED BY <1>1, <2>1 DEF BanInv, BansHold, Refused, Threads
<1>7. QueueInv'
  <2>1. EmptyQueue'
    BY <1>1 DEF Crash, EmptyQueue, Threads
  <2> QED BY <2>1, EmptyQueueOK, PTL
<1> QED BY <1>2, <1>3, <1>4, <1>5, <1>6, <1>7 DEF ConsoleInv

\* Every step of either thread, and a crash, keeps the invariant.
LEMMA NextKeeps == ConsoleInv /\ [Next]_vars => ConsoleInv'
<1> SUFFICES ASSUME ConsoleInv, [Next]_vars PROVE ConsoleInv'
  OBVIOUS
<1>1. ASSUME NEW t \in Threads, Command(t) PROVE ConsoleInv'
  BY <1>1, SetLobbyTypeKeeps, ConnectKeeps, ChangeBansKeeps DEF Command
<1>2. ASSUME NEW t \in Threads, Step(t) PROVE ConsoleInv'
  BY <1>2, WriteIntKeeps, ReadIntKeeps, WriteStringKeeps, UpdateEventAcceptsKeeps,
     UpdateEventRefusesKeeps, PushQueuedKeeps, StoreQueuedKeeps, LoadBanListKeeps, TruncateBanListKeeps,
     WriteBanListKeeps DEF Step
<1>3. CASE OnMainMenuShown \/ ExecuteQueue \/ RunQueued \/ ClearQueue
  BY <1>3, OnMainMenuShownKeeps, ExecuteQueueKeeps, RunQueuedKeeps, ClearQueueKeeps
<1>4. connection \in [Connections -> {"closed", "open", "authenticated"}]
  BY DEF ConsoleInv, DataOK
<1>5. ASSUME NEW c \in Connections, OnValidate(c) \/ OnClose(c) PROVE ConsoleInv'
  BY <1>4, <1>5, ConnectionKeeps DEF OnValidate, OnClose
<1>6. ASSUME NEW c \in Connections, NEW right \in BOOLEAN, ProcessPassword(c, right)
      PROVE ConsoleInv'
  BY <1>4, <1>6, ConnectionKeeps DEF ProcessPassword
<1>7. CASE Crash
  BY <1>7, CrashKeeps
<1>8. CASE UNCHANGED vars
  BY <1>4, <1>8, ConnectionKeeps DEF vars
<1> QED BY <1>1, <1>2, <1>3, <1>5, <1>6, <1>7, <1>8 DEF Next

\* The inductive invariant of commands on two threads.
THEOREM ConsoleInvariant == Spec => []ConsoleInv
BY InitEstablishes, NextKeeps, PTL DEF Spec

\* Type correctness: however commands of the two threads interleave, Server.LobbyType
\* never leaves its range (SetVariable).
THEOREM ConsoleTypeCorrect == Spec => []TypeOK
<1>1. ConsoleInv => TypeOK
  <2> SUFFICES ASSUME ConsoleInv PROVE TypeOK
    OBVIOUS
  <2>1. \A t \in Threads : op[t].kind \in {"none", "lobby", "connect", "queue", "ban"}
    BY StepTellsCommand DEF ConsoleInv
  <2>2. Range \subseteq Nat
    BY RangeAssumption DEF Range
  <2>3. waiting \subseteq 1..MaxQueue
    BY QueueAssumption DEF ConsoleInv, QueueInv, Holds
  <2>4. DataOK /\ QueueInv
    BY DEF ConsoleInv
  <2> QED BY <2>1, <2>2, <2>3, <2>4 DEF TypeOK, DataOK, QueueInv, Range, Entry
<1> QED BY <1>1, ConsoleInvariant, PTL

\* A change of Server.LobbyType that met no other one is all or nothing, also when the
\* engine refuses it and it is put back (ExecuteCommandWithStatus).
THEOREM LoneChangeAlwaysHolds == Spec => []LoneChangeHolds
<1>1. ConsoleInv => LoneChangeHolds
  BY DEF ConsoleInv, LobbyInv
<1> QED BY <1>1, ConsoleInvariant, PTL

\* Every queued command whose push met no other is run unless a push ended during the
\* run, and what is left afterwards came too late (ExecuteCommandWithStatus,
\* ExecuteQueue).
THEOREM QueueIsAlwaysServed == Spec => []QueueIsServed
<1>1. ConsoleInv => QueueIsServed
  BY DEF ConsoleInv, QueueInv
<1> QED BY <1>1, ConsoleInvariant, PTL

\* A ban is lost only where two changes of the file met or the process died while the
\* file was being written (BanIp, UnbanIp, SaveDefaultBanList).
THEOREM BansAlwaysHold == Spec => []BansHold
<1>1. ConsoleInv => BansHold
  BY DEF ConsoleInv, BanInv
<1> QED BY <1>1, ConsoleInvariant, PTL
=============================================================================
