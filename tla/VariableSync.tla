----------------------------- MODULE VariableSync -----------------------------
(***************************************************************************)
(* Server variables copied to the peers of a session                       *)
(* (Server/VariableSynchronization.cpp).  A binding pairs a server         *)
(* variable with a client variable.  Once per frame the host copies every  *)
(* server variable that changed into its own client variable and sends     *)
(* each ready peer, in one packet, the bindings that peer is not marked    *)
(* up to date for; the mark is a bit per membership slot, not per machine. *)
(*                                                                         *)
(* The engine (external) owns the membership, decides when a slot's peer   *)
(* is established with a usable channel, and delivers the packets of a     *)
(* channel reliably and in order.  A peer is brought up by an exchange of  *)
(* messages the engine handles once per frame, so at least one Tick of the *)
(* host sees a slot not ready before it is ready again: the variable       *)
(* seenDown states that assumption, on which the bits rely.                *)
(***************************************************************************)
EXTENDS Integers, FiniteSets, Sequences

CONSTANTS
  Machines,        \* the machines that may join the host's session
  NoMachine,       \* a slot nobody occupies
  Slots,           \* remote peer indices of the membership
  Bindings,        \* the SyncIDs
  Values,          \* values of the variables
  Wire,            \* Wire[v]: v as a packet carries it, see BuildVariableUpdate
  MaxInFlight      \* bound on the packets in flight to one slot

ASSUME MachinesAssumption == NoMachine \notin Machines
ASSUME WireAssumption     == Wire \in [Values -> Values]
ASSUME InFlightAssumption == MaxInFlight \in Nat \ {0}

VARIABLES
  role,            \* this machine: "offline", "host" or "client" of its session
  serverVariable,  \* the ServerVariable of each binding, on this machine
  clientVariable,  \* the ClientVariable of each binding, on this machine
  synchronized,    \* SynchronizedPeers: the slots whose bit is set, per binding
  peerAt,          \* the machine in each slot
  ready,           \* the slots for which IsPeerReady holds
  seenDown,        \* the slots some Tick has found not ready since they last were
  channel,         \* the packets in flight to each slot
  joined,          \* the machines whose own active session is this one
  remote,          \* the ClientVariable of each binding on each other machine
  snapshots,       \* history: the values the host has run with in this session
  updated          \* history: the slots that handled a packet since they are ready

localVars == <<role, serverVariable, clientVariable, synchronized>>
engineVars == <<peerAt, ready, seenDown, channel, joined>>
historyVars == <<snapshots, updated>>
vars == <<localVars, engineVars, remote, historyVars>>

\* A packet: the value of each binding it updates.
Packets == UNION {[B -> Values] : B \in SUBSET Bindings}

-----------------------------------------------------------------------------
(* The host's frame.                                                       *)

\* The bindings TickBinding finds different on the two sides.
Changed == {b \in Bindings : serverVariable[b] # clientVariable[b]}

\* The bits TickBindings leaves: none for a binding that changed.
BitsAfterTickBindings ==
  [b \in Bindings |-> IF b \in Changed THEN {} ELSE synchronized[b]]

\* FindOutOfDateBindings
FindOutOfDateBindings(bits, s) == {b \in Bindings : s \notin bits[b]}

\* BuildUpdatePacket: the values come from the server variables.
BuildUpdatePacket(B) == [b \in B |-> Wire[serverVariable[b]]]

\* Mutant: nothing is sent to a slot that has a packet in flight.
SentOnce(bits, s) ==
  LET B == FindOutOfDateBindings(bits, s)
  IN IF s \notin ready \/ B = {} \/ channel[s] # <<>> THEN channel[s]
     ELSE Append(channel[s], BuildUpdatePacket(B))

\* Mutant: one binding travels in a packet of its own.
SentSeparately(bits, s) ==
  LET B == FindOutOfDateBindings(bits, s)
      b == CHOOSE c \in B : TRUE
  IN IF s \notin ready \/ B = {} THEN channel[s]
     ELSE channel[s] \o <<BuildUpdatePacket({b}), BuildUpdatePacket(B \ {b})>>

\* SynchronizePeer on slot s: nothing to send, or one packet.
Sent(bits, s) ==
  LET B == FindOutOfDateBindings(bits, s)
  IN IF s \notin ready \/ B = {} THEN channel[s]
     ELSE Append(channel[s], BuildUpdatePacket(B))

\* Mutant: without the final "&= visitedPeers".
BitsKeepUnvisited(bits) == [b \in Bindings |-> bits[b] \cup ready]

\* The bits SynchronizePeers leaves: every visited slot is up to date and every
\* slot not visited loses its bits.
BitsAfterSynchronizePeers(bits) == [b \in Bindings |-> (bits[b] \cup ready) \cap ready]

\* HostTick
Tick ==
  /\ role = "host"
  /\ \A s \in Slots : Len(channel[s]) < MaxInFlight
  /\ clientVariable' = serverVariable
  /\ LET bits == BitsAfterTickBindings
     IN /\ channel' = [s \in Slots |-> Sent(bits, s)]
        /\ synchronized' = BitsAfterSynchronizePeers(bits)
  /\ seenDown' = Slots \ ready
  /\ snapshots' = snapshots \cup {serverVariable}
  /\ UNCHANGED <<role, serverVariable, peerAt, ready, joined, remote, updated>>

\* A Server.* variable is set on this machine, in any role.
SetServerVariable(b, v) ==
  /\ serverVariable[b] # v
  /\ serverVariable' = [serverVariable EXCEPT ![b] = v]
  /\ UNCHANGED <<role, clientVariable, synchronized, engineVars, remote, historyVars>>

-----------------------------------------------------------------------------
(* The handler of the update packet.                                       *)

\* Mutant: the packet replaces all the variables.
ApplyReplaces(variables, p) == p

\* SetVariable for each binding of packet p.
Apply(variables, p) ==
  [b \in Bindings |-> IF b \in DOMAIN p THEN p[b] ELSE variables[b]]

\* HandlePacket on the machine in slot s: ignored when it has left the session.
HandlePacket(s) ==
  /\ channel[s] # <<>>
  /\ LET m == peerAt[s]
     IN remote' = IF m \in joined
                  THEN [remote EXCEPT ![m] = Apply(@, Head(channel[s]))]
                  ELSE remote
  /\ channel' = [channel EXCEPT ![s] = Tail(@)]
  /\ updated' = updated \cup {s}
  /\ UNCHANGED <<localVars, peerAt, ready, seenDown, joined, snapshots>>

\* HandlePacket on this machine, as a client of somebody else's session.
HandlePacketAsClient(b, v) ==
  /\ role = "client"
  /\ clientVariable' = [clientVariable EXCEPT ![b] = Wire[v]]
  /\ UNCHANGED <<role, serverVariable, synchronized, engineVars, remote, historyVars>>

-----------------------------------------------------------------------------
(* The engine: sessions, membership and channels.                          *)

\* This machine creates a session, or joins one.
EnterSession(as) ==
  /\ role = "offline"
  /\ role' = as
  /\ snapshots' = {}
  /\ UNCHANGED <<serverVariable, clientVariable, synchronized, engineVars, remote,
                 updated>>

\* This machine leaves its session; a session it hosts is over for everybody.
LeaveSession ==
  /\ role # "offline"
  /\ role' = "offline"
  /\ peerAt' = [s \in Slots |-> NoMachine]
  /\ ready' = {}
  /\ channel' = [s \in Slots |-> <<>>]
  /\ joined' = {}
  /\ updated' = {}
  /\ UNCHANGED <<serverVariable, clientVariable, synchronized, seenDown, remote,
                 snapshots>>

\* Machine m takes the free slot s, with client variables left over from
\* whatever session it was in before.
PeerConnects(m, s) ==
  /\ role = "host"
  /\ peerAt[s] = NoMachine
  /\ \A t \in Slots : peerAt[t] # m
  /\ peerAt' = [peerAt EXCEPT ![s] = m]
  /\ joined' = joined \cup {m}
  /\ \E leftOver \in [Bindings -> Values] : remote' = [remote EXCEPT ![m] = leftOver]
  /\ UNCHANGED <<localVars, ready, seenDown, channel, historyVars>>

\* The peer in slot s is established and has a channel.
PeerReady(s) ==
  /\ peerAt[s] # NoMachine
  /\ s \notin ready
  /\ s \in seenDown
  /\ ready' = ready \cup {s}
  /\ seenDown' = seenDown \ {s}
  /\ UNCHANGED <<localVars, peerAt, channel, joined, remote, historyVars>>

\* The channel to slot s is lost, with what was in flight, and the peer is kept.
PeerUnavailable(s) ==
  /\ s \in ready
  /\ ready' = ready \ {s}
  /\ channel' = [channel EXCEPT ![s] = <<>>]
  /\ updated' = updated \ {s}
  /\ UNCHANGED <<localVars, peerAt, seenDown, joined, remote, snapshots>>

\* The host removes the peer in slot s.
PeerDisconnects(s) ==
  /\ peerAt[s] # NoMachine
  /\ peerAt' = [peerAt EXCEPT ![s] = NoMachine]
  /\ ready' = ready \ {s}
  /\ channel' = [channel EXCEPT ![s] = <<>>]
  /\ joined' = joined \ {peerAt[s]}
  /\ updated' = updated \ {s}
  /\ UNCHANGED <<localVars, seenDown, remote, snapshots>>

\* Machine m leaves the session before the host has noticed.
ClientQuits(m) ==
  /\ m \in joined
  /\ joined' = joined \ {m}
  /\ UNCHANGED <<localVars, peerAt, ready, seenDown, channel, remote, historyVars>>

-----------------------------------------------------------------------------
Init ==
  /\ role = "offline"
  /\ serverVariable \in [Bindings -> Values]
  /\ clientVariable \in [Bindings -> Values]
  /\ synchronized = [b \in Bindings |-> {}]
  /\ peerAt = [s \in Slots |-> NoMachine]
  /\ ready = {}
  /\ seenDown = {}
  /\ channel = [s \in Slots |-> <<>>]
  /\ joined = {}
  /\ remote \in [Machines -> [Bindings -> Values]]
  /\ snapshots = {}
  /\ updated = {}

Next ==
  \/ Tick
  \/ \E b \in Bindings, v \in Values : SetServerVariable(b, v)
  \/ \E s \in Slots : HandlePacket(s)
  \/ \E b \in Bindings, v \in Values : HandlePacketAsClient(b, v)
  \/ \E as \in {"host", "client"} : EnterSession(as)
  \/ LeaveSession
  \/ \E m \in Machines, s \in Slots : PeerConnects(m, s)
  \/ \E s \in Slots : PeerReady(s)
  \/ \E s \in Slots : PeerUnavailable(s)
  \/ \E s \in Slots : PeerDisconnects(s)
  \/ \E m \in Machines : ClientQuits(m)

Spec == Init /\ [][Next]_vars

\* The frame loop always calls Tick again; the channels are reliable.
FairSpec == Spec /\ WF_vars(Tick) /\ \A s \in Slots : WF_vars(HandlePacket(s))

-----------------------------------------------------------------------------
(* Properties.                                                             *)

\* Each variable keeps to the values the code gives it; channels exist only to
\* ready slots and no slot is both ready and seen down.
TypeOK ==
  /\ role \in {"offline", "host", "client"}
  /\ serverVariable \in [Bindings -> Values]
  /\ clientVariable \in [Bindings -> Values]
  /\ synchronized \in [Bindings -> SUBSET Slots]
  /\ peerAt \in [Slots -> Machines \cup {NoMachine}]
  /\ ready \subseteq {s \in Slots : peerAt[s] # NoMachine}
  /\ seenDown \subseteq Slots \ ready
  /\ channel \in [Slots -> Seq(Packets)]
  /\ joined \subseteq Machines
  /\ remote \in [Machines -> [Bindings -> Values]]
  /\ snapshots \subseteq [Bindings -> Values]
  /\ updated \subseteq ready

\* The packets in flight to slot s that name binding b.
Naming(s, b) == {i \in DOMAIN channel[s] : b \in DOMAIN channel[s][i]}

\* What the machine in slot s will hold for b once its channel is empty.
Settles(s, b, v) ==
  IF Naming(s, b) = {} THEN remote[peerAt[s]][b] = v
  ELSE \A i \in Naming(s, b) :
         (\A j \in Naming(s, b) : j <= i) => channel[s][i][b] = v

\* A bit of SynchronizedPeers never lies: the machine behind it holds the value
\* the host runs with (as the packet carried it), or the last packet in flight
\* to it says so.  Slots are reused, hosts change sessions and channels drop.
SyncBitIsTrue ==
  \A b \in Bindings : \A s \in ready \cap synchronized[b] :
    peerAt[s] \in joined => Settles(s, b, Wire[clientVariable[b]])

\* No torn settings: a peer that has handled its first packet always runs with
\* a combination of values the host itself ran with in this session, because
\* all that changed in a frame travels in one packet.
NoTornSettings ==
  \A s \in updated : peerAt[s] \in joined =>
    \E h \in snapshots : remote[peerAt[s]] = [b \in Bindings |-> Wire[h[b]]]

\* What SyncBitIsTrue rests on: a channel exists only to a ready slot, a slot
\* that a Tick has found down holds no bit, a machine is in one slot, and nobody
\* is in a slot unless this machine hosts.
SlotInv ==
  /\ \A s \in Slots : channel[s] # <<>> => s \in ready
  /\ \A s \in seenDown, b \in Bindings : s \notin synchronized[b]
  /\ \A s, t \in Slots : peerAt[s] = peerAt[t] /\ peerAt[s] # NoMachine => s = t
  /\ role # "host" => \A s \in Slots : peerAt[s] = NoMachine

\* The inductive invariant.
SyncInv == TypeOK /\ SlotInv /\ SyncBitIsTrue

\* A peer that stays in the session ends up with the value a server variable
\* keeps, as the packet carries it.
PeersCatchUp ==
  \A s \in Slots, m \in Machines, b \in Bindings, v \in Values :
    <>[](s \in ready /\ peerAt[s] = m /\ m \in joined /\ serverVariable[b] = v)
      => <>[](remote[m][b] = Wire[v])
=============================================================================
