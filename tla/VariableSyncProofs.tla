-------------------------- MODULE VariableSyncProofs --------------------------
(* Proofs about VariableSync, for every set of machines, slots, bindings   *)
(* and values.                                                             *)
EXTENDS VariableSync, TLAPS

USE MachinesAssumption, WireAssumption

\* A packet built from the server variables is a packet.
LEMMA BuiltIsPacket ==
  ASSUME serverVariable \in [Bindings -> Values], NEW B \in SUBSET Bindings
  PROVE  /\ BuildUpdatePacket(B) \in Packets
         /\ DOMAIN BuildUpdatePacket(B) = B
         /\ \A b \in B : BuildUpdatePacket(B)[b] = Wire[serverVariable[b]]
<1>1. BuildUpdatePacket(B) \in [B -> Values]
  BY DEF BuildUpdatePacket
<1>. QED
  BY <1>1 DEF BuildUpdatePacket, Packets

\* What Sent returns, without mention of sequences' representation.
LEMMA SentFacts ==
  ASSUME TypeOK, NEW bits \in [Bindings -> SUBSET Slots], NEW s \in Slots
  PROVE  /\ Sent(bits, s) \in Seq(Packets)
         /\ s \notin ready => Sent(bits, s) = channel[s]
         /\ s \in ready /\ FindOutOfDateBindings(bits, s) = {} => Sent(bits, s) = channel[s]
         /\ s \in ready /\ FindOutOfDateBindings(bits, s) # {} =>
              Sent(bits, s) = Append(channel[s],
                                     BuildUpdatePacket(FindOutOfDateBindings(bits, s)))
<1>. DEFINE B == FindOutOfDateBindings(bits, s)
<1>1. B \in SUBSET Bindings
  BY DEF FindOutOfDateBindings
<1>2. BuildUpdatePacket(B) \in Packets
  BY <1>1, BuiltIsPacket DEF TypeOK
<1>3. channel[s] \in Seq(Packets)
  BY DEF TypeOK
<1>. QED
  BY <1>2, <1>3 DEF Sent

\* A packet applied to well-typed variables leaves them well-typed.
LEMMA ApplyType ==
  ASSUME NEW v \in [Bindings -> Values], NEW p \in Packets
  PROVE  /\ Apply(v, p) \in [Bindings -> Values]
         /\ \A b \in Bindings : Apply(v, p)[b] = IF b \in DOMAIN p THEN p[b] ELSE v[b]
<1>1. PICK B \in SUBSET Bindings : p \in [B -> Values]
  BY DEF Packets
<1>. QED
  BY <1>1 DEF Apply

\* Init establishes the invariant.
LEMMA SyncInitially == Init => SyncInv
<1>. SUFFICES ASSUME Init PROVE SyncInv
  OBVIOUS
<1>1. TypeOK
  BY DEF Init, TypeOK
<1>2. SlotInv
  BY DEF Init, SlotInv
<1>3. SyncBitIsTrue
  BY DEF Init, SyncBitIsTrue
<1>. QED
  BY <1>1, <1>2, <1>3 DEF SyncInv

\* HostTick preserves the invariant: the bits it sets are for values it sends,
\* the bits it keeps are for values that did not change.
LEMMA TickPreserves == SyncInv /\ Tick => SyncInv'
<1>. SUFFICES ASSUME SyncInv, Tick PROVE SyncInv'
  OBVIOUS
<1>. USE DEF SyncInv
<1>. DEFINE bits == BitsAfterTickBindings
<1>1. /\ bits \in [Bindings -> SUBSET Slots]
      /\ \A b \in Bindings : bits[b] = IF b \in Changed THEN {} ELSE synchronized[b]
  BY DEF BitsAfterTickBindings, TypeOK
<1>2. /\ clientVariable' = serverVariable
      /\ channel' = [s \in Slots |-> Sent(bits, s)]
      /\ synchronized' = BitsAfterSynchronizePeers(bits)
      /\ seenDown' = Slots \ ready
      /\ role = "host"
      /\ snapshots' = snapshots \cup {serverVariable}
      /\ UNCHANGED <<role, serverVariable, peerAt, ready, joined, remote, updated>>
  BY DEF Tick
<1>3. synchronized' = [b \in Bindings |-> ready]
  BY <1>1, <1>2 DEF BitsAfterSynchronizePeers
<1>4. channel' \in [Slots -> Seq(Packets)]
  BY <1>1, <1>2, SentFacts
<1>5. TypeOK'
  BY <1>2, <1>3, <1>4 DEF TypeOK
<1>6. SlotInv'
  <2>1. \A s \in Slots : channel'[s] # <<>> => s \in ready'
    BY <1>1, <1>2, SentFacts DEF SlotInv
  <2>2. \A s \in seenDown', b \in Bindings : s \notin synchronized'[b]
    BY <1>2, <1>3
  <2>. QED
    BY <1>2, <2>1, <2>2 DEF SlotInv
<1>7. SyncBitIsTrue'
  <2>. SUFFICES ASSUME NEW b \in Bindings, NEW s \in (ready \cap synchronized[b])',
                       (peerAt[s] \in joined)'
                PROVE  Settles(s, b, Wire[clientVariable[b]])'
    BY DEF SyncBitIsTrue
  <2>. s \in ready /\ peerAt[s] \in joined
    BY <1>2
  <2>. DEFINE B == FindOutOfDateBindings(bits, s)
              q == BuildUpdatePacket(B)
              n == Len(channel[s])
  <2>1. s \in Slots /\ channel[s] \in Seq(Packets) /\ channel'[s] = Sent(bits, s)
    BY <1>2 DEF TypeOK
  <2>2. B \in SUBSET Bindings /\ (b \in B <=> s \notin bits[b])
    BY DEF FindOutOfDateBindings
  <2>3. q \in Packets /\ DOMAIN q = B /\ \A c \in B : q[c] = Wire[serverVariable[c]]
    BY <2>2, BuiltIsPacket DEF TypeOK
  <2>4. CASE b \in B
    <3>1. channel'[s] = Append(channel[s], q)
      BY <1>1, <2>1, <2>4, SentFacts
    <3>. HIDE DEF B, q
    <3>2. /\ DOMAIN channel'[s] = 1..(n + 1)
          /\ channel'[s][n + 1] = q
          /\ n \in Nat
      BY <2>1, <2>3, <3>1
    <3>3. n + 1 \in Naming(s, b)' /\ \A i \in Naming(s, b)' : i \in 1..(n + 1)
      BY <2>3, <2>4, <3>2 DEF Naming
    <3>4. \A i \in Naming(s, b)' :
            (\A j \in Naming(s, b)' : j <= i) => i = n + 1
      BY <3>2, <3>3
    <3>. QED
      BY <1>2, <2>3, <2>4, <3>2, <3>3, <3>4 DEF Settles
  <2>5. CASE b \notin B
    <3>1. b \notin Changed /\ s \in synchronized[b]
      BY <1>1, <2>2, <2>5
    <3>2. serverVariable[b] = clientVariable[b]
      BY <3>1 DEF Changed
    <3>3. Settles(s, b, Wire[serverVariable[b]])
      BY <3>1, <3>2 DEF SyncBitIsTrue
    <3>4. \/ channel'[s] = channel[s]
          \/ channel'[s] = Append(channel[s], q)
      BY <1>1, <2>1, SentFacts
    <3>5. /\ Naming(s, b)' = Naming(s, b)
          /\ \A i \in Naming(s, b) : channel'[s][i] = channel[s][i]
      <4>1. CASE channel'[s] = channel[s]
        BY <4>1 DEF Naming
      <4>2. CASE channel'[s] = Append(channel[s], q)
        <5>. HIDE DEF B, q
        <5>1. /\ DOMAIN channel'[s] = 1..(n + 1)
              /\ DOMAIN channel[s] = 1..n
              /\ channel'[s][n + 1] = q
              /\ \A i \in 1..n : channel'[s][i] = channel[s][i]
              /\ n \in Nat
          BY <2>1, <2>3, <4>2
        <5>2. b \notin DOMAIN channel'[s][n + 1]
          BY <2>3, <2>5, <5>1
        <5>. QED
          BY <5>1, <5>2 DEF Naming
      <4>. QED
        BY <3>4, <4>1, <4>2
    <3>. QED
      BY <1>2, <3>3, <3>5 DEF Settles
  <2>. QED
    BY <2>4, <2>5
<1>. QED
  BY <1>5, <1>6, <1>7

\* A packet applied to the machine in slot s moves its value from the channel
\* into the machine.
LEMMA HandlePacketPreserves ==
  ASSUME NEW t \in Slots, SyncInv, HandlePacket(t)
  PROVE  SyncInv'
<1>. USE DEF SyncInv
<1>. DEFINE m == peerAt[t]
            p == Head(channel[t])
            n == Len(channel[t])
<1>1. /\ channel[t] \in Seq(Packets)
      /\ channel[t] # <<>>
      /\ channel' = [channel EXCEPT ![t] = Tail(channel[t])]
      /\ updated' = updated \cup {t}
      /\ remote' = IF m \in joined THEN [remote EXCEPT ![m] = Apply(remote[m], p)] ELSE remote
      /\ UNCHANGED <<role, serverVariable, clientVariable, synchronized, peerAt, ready,
                     seenDown, joined, snapshots>>
  BY DEF HandlePacket, TypeOK, localVars
<1>2. /\ p \in Packets /\ p = channel[t][1]
      /\ n \in Nat \ {0}
      /\ DOMAIN channel[t] = 1..n
      /\ channel'[t] = Tail(channel[t])
      /\ DOMAIN channel'[t] = 1..(n - 1)
      /\ \A i \in 1..(n - 1) : channel'[t][i] = channel[t][i + 1]
      /\ channel'[t] \in Seq(Packets)
      /\ \A s \in Slots \ {t} : channel'[s] = channel[s]
  BY <1>1 DEF TypeOK
<1>3. t \in ready
  BY <1>1 DEF SlotInv
<1>4. /\ remote' \in [Machines -> [Bindings -> Values]]
      /\ \A k \in Machines \ {m} : remote'[k] = remote[k]
      /\ m \in joined => \A b \in Bindings :
           remote'[m][b] = IF b \in DOMAIN p THEN p[b] ELSE remote[m][b]
  <2>1. CASE m \in joined
    <3>1. remote[m] \in [Bindings -> Values] /\ m \in Machines
      BY <2>1 DEF TypeOK
    <3>. QED
      BY <1>1, <1>2, <2>1, <3>1, ApplyType DEF TypeOK
  <2>2. CASE m \notin joined
    BY <1>1, <2>2 DEF TypeOK
  <2>. QED
    BY <2>1, <2>2
<1>5. TypeOK'
  BY <1>1, <1>2, <1>3, <1>4 DEF TypeOK
<1>6. SlotInv'
  BY <1>1, <1>2, <1>3 DEF SlotInv
<1>7. SyncBitIsTrue'
  <2>. SUFFICES ASSUME NEW b \in Bindings, NEW s \in (ready \cap synchronized[b])',
                       (peerAt[s] \in joined)'
                PROVE  Settles(s, b, Wire[clientVariable[b]])'
    BY DEF SyncBitIsTrue
  <2>. DEFINE v == Wire[clientVariable[b]]
  <2>1. /\ s \in ready /\ s \in Slots /\ peerAt[s] \in joined /\ peerAt[s] \in Machines
        /\ v' = v /\ peerAt'[s] = peerAt[s]
        /\ Settles(s, b, v)
    BY <1>1 DEF SyncBitIsTrue, TypeOK
  <2>. HIDE DEF v
  <2>2. CASE s # t
    <3>1. peerAt[s] # m
      BY <2>1, <2>2 DEF SlotInv, TypeOK
    <3>2. Naming(s, b)' = Naming(s, b) /\ channel'[s] = channel[s]
      BY <1>2, <2>1, <2>2 DEF Naming
    <3>3. remote'[peerAt[s]] = remote[peerAt[s]]
      BY <1>4, <2>1, <3>1
    <3>. QED
      BY <2>1, <3>2, <3>3 DEF Settles, v
  <2>3. CASE s = t
    <3>. HIDE DEF n, p
    <3>1. ASSUME NEW i \in Naming(s, b)'
          PROVE  i \in 1..(n - 1) /\ i + 1 \in Naming(s, b)
      <4>1. i \in 1..(n - 1) /\ b \in DOMAIN channel'[t][i]
        BY <1>2, <2>3 DEF Naming
      <4>2. i + 1 \in 1..n /\ b \in DOMAIN channel[t][i + 1]
        BY <1>2, <4>1
      <4>. QED
        BY <1>2, <2>3, <4>1, <4>2 DEF Naming
    <3>2. ASSUME NEW i \in Naming(s, b), i # 1
          PROVE  i - 1 \in Naming(s, b)'
      <4>1. i \in 1..n /\ b \in DOMAIN channel[t][i]
        BY <1>2, <2>3 DEF Naming
      <4>2. i - 1 \in 1..(n - 1) /\ (i - 1) + 1 = i
        BY <1>2, <3>2, <4>1
      <4>3. channel'[t][i - 1] = channel[t][i]
        BY <1>2, <4>2
      <4>. QED
        BY <1>2, <2>3, <4>1, <4>2, <4>3 DEF Naming
    <3>3. CASE Naming(s, b)' = {}
      <4>1. \A i \in Naming(s, b) : i = 1
        BY <3>2, <3>3
      <4>2. 1 \in Naming(s, b) <=> b \in DOMAIN p
        BY <1>2, <2>3 DEF Naming
      <4>3. 1 \in Naming(s, b) => channel[s][1][b] = v
        BY <2>1, <4>1 DEF Settles
      <4>4. 1 \notin Naming(s, b) => remote[m][b] = v
        BY <2>1, <2>3, <4>1 DEF Settles
      <4>5. remote'[m][b] = v
        BY <1>2, <1>4, <2>1, <2>3, <4>2, <4>3, <4>4
      <4>. QED
        BY <1>1, <2>1, <2>3, <3>3, <4>5 DEF Settles, v
    <3>4. CASE Naming(s, b)' # {}
      <4>. SUFFICES ASSUME NEW i \in Naming(s, b)', \A j \in Naming(s, b)' : j <= i
                    PROVE  channel'[s][i][b] = v
        BY <2>1, <3>4 DEF Settles, v
      <4>1. i \in 1..(n - 1) /\ i + 1 \in Naming(s, b)
        BY <3>1
      <4>2. Naming(s, b) \subseteq Int
        BY <1>2, <2>3 DEF Naming
      <4>3. \A j \in Naming(s, b) : j <= i + 1
        BY <1>2, <3>2, <4>1, <4>2
      <4>4. channel[s][i + 1][b] = v
        BY <2>1, <4>1, <4>3 DEF Settles
      <4>. QED
        BY <1>2, <2>3, <4>1, <4>4
    <3>. QED
      BY <3>3, <3>4
  <2>. QED
    BY <2>2, <2>3
<1>. QED
  BY <1>5, <1>6, <1>7

\* Machine k takes a free slot: its leftover values matter to no slot yet.
LEMMA PeerConnectsPreserves ==
  ASSUME NEW k \in Machines, NEW t \in Slots, SyncInv, PeerConnects(k, t)
  PROVE  SyncInv'
<1>. USE DEF SyncInv
<1>1. PICK leftOver \in [Bindings -> Values] : remote' = [remote EXCEPT ![k] = leftOver]
  BY DEF PeerConnects
<1>2. /\ role = "host" /\ peerAt[t] = NoMachine /\ \A s \in Slots : peerAt[s] # k
      /\ peerAt' = [peerAt EXCEPT ![t] = k]
      /\ joined' = joined \cup {k}
      /\ UNCHANGED <<role, serverVariable, clientVariable, synchronized, ready, seenDown,
                     channel, snapshots, updated>>
  BY DEF PeerConnects, localVars, historyVars
<1>3. TypeOK'
  BY <1>1, <1>2 DEF TypeOK
<1>4. SlotInv'
  BY <1>2 DEF SlotInv, TypeOK
<1>5. SyncBitIsTrue'
  <2>. SUFFICES ASSUME NEW b \in Bindings, NEW s \in (ready \cap synchronized[b])',
                       (peerAt[s] \in joined)'
                PROVE  Settles(s, b, Wire[clientVariable[b]])'
    BY DEF SyncBitIsTrue
  <2>1. s \in Slots /\ s # t /\ s \in ready \cap synchronized[b]
    BY <1>2 DEF TypeOK
  <2>2. peerAt'[s] = peerAt[s] /\ peerAt[s] # k /\ peerAt[s] \in joined
    BY <1>2, <2>1 DEF TypeOK
  <2>3. remote'[peerAt[s]] = remote[peerAt[s]]
    BY <1>1, <2>2 DEF TypeOK
  <2>4. Settles(s, b, Wire[clientVariable[b]])
    BY <2>1, <2>2 DEF SyncBitIsTrue
  <2>. QED
    BY <1>2, <2>2, <2>3, <2>4 DEF Settles, Naming
<1>. QED
  BY <1>3, <1>4, <1>5

\* A slot that loses its channel, its peer, or its whole session has no channel
\* and is not ready; the others are not touched.
LEMMA SlotGoesDown ==
  ASSUME SyncInv,
         NEW down \in SUBSET Slots,
         ready' = ready \ down,
         peerAt' \in [Slots -> Machines \cup {NoMachine}],
         \A s \in Slots : peerAt'[s] = peerAt[s] \/ (s \in down /\ peerAt'[s] = NoMachine),
         channel' = [s \in Slots |-> IF s \in down THEN <<>> ELSE channel[s]],
         joined' \subseteq joined,
         updated' = updated \ down,
         role' \in {"offline", "host", "client"},
         role' # "host" => \A s \in Slots : peerAt'[s] = NoMachine,
         UNCHANGED <<serverVariable, clientVariable, synchronized, seenDown, remote, snapshots>>
  PROVE  SyncInv'
<1>. USE DEF SyncInv
<1>1. TypeOK'
  <2>1. channel' \in [Slots -> Seq(Packets)]
    BY DEF TypeOK
  <2>. QED
    BY <2>1 DEF TypeOK
<1>2. SlotInv'
  BY DEF SlotInv, TypeOK
<1>3. SyncBitIsTrue'
  <2>. SUFFICES ASSUME NEW b \in Bindings, NEW s \in (ready \cap synchronized[b])',
                       (peerAt[s] \in joined)'
                PROVE  Settles(s, b, Wire[clientVariable[b]])'
    BY DEF SyncBitIsTrue
  <2>1. s \in Slots /\ s \notin down /\ s \in ready \cap synchronized[b]
    BY DEF TypeOK
  <2>2. peerAt'[s] = peerAt[s] /\ channel'[s] = channel[s] /\ peerAt[s] \in joined
    BY <2>1 DEF TypeOK
  <2>3. Settles(s, b, Wire[clientVariable[b]])
    BY <2>1, <2>2 DEF SyncBitIsTrue
  <2>. QED
    BY <2>2, <2>3 DEF Settles, Naming
<1>. QED
  BY <1>1, <1>2, <1>3

\* Every step preserves the invariant.
LEMMA SyncPreserved == SyncInv /\ [Next]_vars => SyncInv'
<1>. SUFFICES ASSUME SyncInv, [Next]_vars PROVE SyncInv'
  OBVIOUS
<1>1. CASE Tick
  BY <1>1, TickPreserves
<1>2. ASSUME NEW b \in Bindings, NEW v \in Values, SetServerVariable(b, v)
      PROVE  SyncInv'
  <2>1. TypeOK'
    BY <1>2 DEF SyncInv, TypeOK, SetServerVariable, engineVars, historyVars
  <2>. QED
    BY <1>2, <2>1 DEF SyncInv, SlotInv, SyncBitIsTrue, Settles, Naming, SetServerVariable,
                      engineVars, historyVars
<1>3. ASSUME NEW s \in Slots, HandlePacket(s)
      PROVE  SyncInv'
  BY <1>3, HandlePacketPreserves
<1>4. ASSUME NEW b \in Bindings, NEW v \in Values, HandlePacketAsClient(b, v)
      PROVE  SyncInv'
  <2>1. ready = {}
    BY <1>4 DEF SyncInv, SlotInv, TypeOK, HandlePacketAsClient
  <2>2. TypeOK'
    BY <1>4 DEF SyncInv, TypeOK, HandlePacketAsClient, engineVars, historyVars
  <2>3. SlotInv'
    BY <1>4 DEF SyncInv, SlotInv, HandlePacketAsClient, engineVars, historyVars
  <2>4. SyncBitIsTrue'
    BY <1>4, <2>1 DEF SyncBitIsTrue, HandlePacketAsClient, engineVars
  <2>. QED
    BY <2>2, <2>3, <2>4 DEF SyncInv
<1>5. ASSUME NEW as \in {"host", "client"}, EnterSession(as)
      PROVE  SyncInv'
  <2>1. TypeOK'
    BY <1>5 DEF SyncInv, TypeOK, EnterSession, engineVars
  <2>2. SlotInv'
    BY <1>5 DEF SyncInv, SlotInv, EnterSession, engineVars
  <2>3. SyncBitIsTrue'
    BY <1>5 DEF SyncInv, SyncBitIsTrue, Settles, Naming, EnterSession, engineVars
  <2>. QED
    BY <2>1, <2>2, <2>3 DEF SyncInv
<1>6. CASE LeaveSession
  <2>1. /\ ready' = ready \ Slots /\ updated' = updated \ Slots
        /\ channel' = [s \in Slots |-> IF s \in Slots THEN <<>> ELSE channel[s]]
    BY <1>6 DEF LeaveSession, SyncInv, TypeOK
  <2>. QED
    BY <1>6, <2>1, SlotGoesDown DEF LeaveSession
<1>7. ASSUME NEW m \in Machines, NEW s \in Slots, PeerConnects(m, s)
      PROVE  SyncInv'
  BY <1>7, PeerConnectsPreserves
<1>8. ASSUME NEW s \in Slots, PeerReady(s)
      PROVE  SyncInv'
  <2>1. TypeOK'
    BY <1>8 DEF SyncInv, TypeOK, PeerReady, localVars, historyVars
  <2>2. SlotInv'
    BY <1>8 DEF SyncInv, SlotInv, PeerReady, localVars, historyVars
  <2>3. \A b \in Bindings : s \notin synchronized[b]
    BY <1>8 DEF SyncInv, SlotInv, PeerReady
  <2>4. SyncBitIsTrue'
    BY <1>8, <2>3 DEF SyncInv, SyncBitIsTrue, Settles, Naming, PeerReady, localVars
  <2>. QED
    BY <2>1, <2>2, <2>4 DEF SyncInv
<1>9. ASSUME NEW t \in Slots, PeerUnavailable(t) \/ PeerDisconnects(t)
      PROVE  SyncInv'
  <2>1. /\ ready' = ready \ {t} /\ updated' = updated \ {t}
        /\ channel' = [s \in Slots |-> IF s \in {t} THEN <<>> ELSE channel[s]]
        /\ joined' \subseteq joined
        /\ UNCHANGED <<serverVariable, clientVariable, synchronized, seenDown, remote, snapshots>>
    BY <1>9 DEF PeerUnavailable, PeerDisconnects, SyncInv, TypeOK, localVars
  <2>2. /\ peerAt' \in [Slots -> Machines \cup {NoMachine}]
        /\ \A s \in Slots : peerAt'[s] = peerAt[s] \/ (s \in {t} /\ peerAt'[s] = NoMachine)
    BY <1>9 DEF PeerUnavailable, PeerDisconnects, SyncInv, TypeOK
  <2>3. role' = role
    BY <1>9 DEF PeerUnavailable, PeerDisconnects, localVars
  <2>4. role \in {"offline", "host", "client"}
    BY DEF SyncInv, TypeOK
  <2>5. role' # "host" => \A s \in Slots : peerAt'[s] = NoMachine
    BY <2>2, <2>3 DEF SyncInv, SlotInv
  <2>. QED
    BY <2>1, <2>2, <2>3, <2>4, <2>5, SlotGoesDown
<1>10. ASSUME NEW m \in Machines, ClientQuits(m)
       PROVE  SyncInv'
  <2>1. TypeOK'
    BY <1>10 DEF SyncInv, TypeOK, ClientQuits, localVars, historyVars
  <2>2. SlotInv'
    BY <1>10 DEF SyncInv, SlotInv, ClientQuits, localVars, historyVars
  <2>3. SyncBitIsTrue'
    BY <1>10 DEF SyncInv, SyncBitIsTrue, Settles, Naming, ClientQuits, localVars, historyVars
  <2>. QED
    BY <2>1, <2>2, <2>3 DEF SyncInv
<1>11. CASE UNCHANGED vars
  <2>1. TypeOK'
    BY <1>11 DEF SyncInv, TypeOK, vars, localVars, engineVars, historyVars
  <2>. QED
    BY <1>11, <2>1 DEF SyncInv, SlotInv, SyncBitIsTrue, Settles, Naming,
                       vars, localVars, engineVars, historyVars
<1>. QED
  BY <1>1, <1>2, <1>3, <1>4, <1>5, <1>6, <1>7, <1>8, <1>9, <1>10, <1>11 DEF Next

\* SyncInv is an invariant of the synchronization.
THEOREM SyncInvariant == Spec => []SyncInv
<1>. QED
  BY SyncInitially, SyncPreserved, PTL DEF Spec

\* Type correctness of VariableSync.
THEOREM SyncTypeCorrect == Spec => []TypeOK
<1>1. SyncInv => TypeOK
  BY DEF SyncInv
<1>. QED
  BY <1>1, SyncInvariant, PTL

\* SynchronizedPeers never marks up to date a machine that is not going to hold
\* the host's value, whatever sessions, slots and channels do.
THEOREM SyncBitIsAlwaysTrue == Spec => []SyncBitIsTrue
<1>1. SyncInv => SyncBitIsTrue
  BY DEF SyncInv
<1>. QED
  BY <1>1, SyncInvariant, PTL

-----------------------------------------------------------------------------
(* No torn settings.                                                       *)

\* The values v are those of one of the snapshots S, as packets carry them.
RanWith(v, S) == \E h \in S : v = [b \in Bindings |-> Wire[h[b]]]

\* H lists the values of a peer that runs with v now, after each of the packets
\* ch in flight to it; from position k on they are values of the snapshots S.
IsChain(H, ch, v, S, k) ==
  /\ H \in [0..Len(ch) -> [Bindings -> Values]]
  /\ H[0] = v
  /\ \A i \in 1..Len(ch) : H[i] = Apply(H[i - 1], ch[i])
  /\ \A i \in k..Len(ch) : RanWith(H[i], S)

\* A peer that has not handled a packet yet may still run with left-overs.
From(s) == IF s \in updated THEN 0 ELSE 1

\* What makes NoTornSettings inductive: the machine in a ready slot passes, packet
\* by packet, through values the host ran with, and ends with the host's own
\* wherever the slot's bit is set.
ChainInv ==
  \A s \in ready : peerAt[s] \in joined =>
    \E H : /\ IsChain(H, channel[s], remote[peerAt[s]], snapshots, From(s))
           /\ \A b \in Bindings :
                s \in synchronized[b] => H[Len(channel[s])][b] = Wire[clientVariable[b]]

\* More snapshots, or fewer positions, leave a chain a chain.
LEMMA WiderChain ==
  ASSUME NEW H, NEW ch \in Seq(Packets), NEW v, NEW S, NEW T, S \subseteq T,
         NEW k \in Nat, NEW j \in Nat, k <= j, IsChain(H, ch, v, S, k)
  PROVE  IsChain(H, ch, v, T, j)
<1>1. \A x : RanWith(x, S) => RanWith(x, T)
  BY DEF RanWith
<1>2. \A i \in j..Len(ch) : i \in k..Len(ch)
  OBVIOUS
<1>. QED
  BY <1>1, <1>2 DEF IsChain

\* One more packet in flight, after which the values are w.
LEMMA LongerChain ==
  ASSUME NEW H, NEW ch \in Seq(Packets), NEW v, NEW S, NEW k \in Nat,
         IsChain(H, ch, v, S, k), NEW q \in Packets,
         NEW w \in [Bindings -> Values], RanWith(w, S), Apply(H[Len(ch)], q) = w
  PROVE  \E G : IsChain(G, Append(ch, q), v, S, k) /\ G[Len(Append(ch, q))] = w
<1>. DEFINE n == Len(ch)
            d == Append(ch, q)
            G == [i \in 0..(n + 1) |-> IF i = n + 1 THEN w ELSE H[i]]
<1>1. /\ n \in Nat /\ Len(d) = n + 1 /\ d[n + 1] = q
      /\ \A i \in 1..n : d[i] = ch[i]
  OBVIOUS
<1>2. /\ H \in [0..n -> [Bindings -> Values]] /\ H[0] = v
      /\ \A i \in 1..n : H[i] = Apply(H[i - 1], ch[i])
      /\ \A i \in k..n : RanWith(H[i], S)
      /\ Apply(H[n], q) = w
  BY DEF IsChain
<1>. HIDE DEF n, d
<1>3. /\ G \in [0..(n + 1) -> [Bindings -> Values]]
      /\ G[n + 1] = w /\ \A i \in 0..n : G[i] = H[i]
  BY <1>1, <1>2
<1>. HIDE DEF G
<1>4. \A i \in 1..(n + 1) : G[i] = Apply(G[i - 1], d[i])
  <2>. SUFFICES ASSUME NEW i \in 1..(n + 1) PROVE G[i] = Apply(G[i - 1], d[i])
    OBVIOUS
  <2>1. CASE i = n + 1
    <3>1. i - 1 = n /\ n \in 0..n
      BY <1>1, <2>1
    <3>. QED BY <1>1, <1>2, <1>3, <2>1, <3>1
  <2>2. CASE i # n + 1
    <3>1. i \in 1..n /\ i - 1 \in 0..n /\ i \in 0..n
      BY <1>1, <2>2
    <3>. QED BY <1>1, <1>2, <1>3, <3>1
  <2>. QED BY <2>1, <2>2
<1>5. \A i \in k..(n + 1) : RanWith(G[i], S)
  <2>. SUFFICES ASSUME NEW i \in k..(n + 1) PROVE RanWith(G[i], S)
    OBVIOUS
  <2>1. CASE i = n + 1
    BY <1>3, <2>1
  <2>2. CASE i # n + 1
    <3>1. i \in k..n /\ i \in 0..n
      BY <1>1, <2>2
    <3>. QED BY <1>2, <1>3, <3>1
  <2>. QED BY <2>1, <2>2
<1>6. G[0] = v
  BY <1>1, <1>2, <1>3
<1>7. IsChain(G, d, v, S, k) /\ G[Len(d)] = w
  BY <1>1, <1>3, <1>4, <1>5, <1>6 DEF IsChain
<1>. QED
  BY <1>7 DEF d

\* The first packet in flight has been handled.
LEMMA ShorterChain ==
  ASSUME NEW H, NEW ch \in Seq(Packets), NEW v, NEW S, NEW k \in {0, 1},
         IsChain(H, ch, v, S, k), ch # <<>>
  PROVE  \E G : /\ IsChain(G, Tail(ch), Apply(v, Head(ch)), S, 0)
                /\ G[Len(Tail(ch))] = H[Len(ch)]
<1>. DEFINE n == Len(ch)
            d == Tail(ch)
            G == [i \in 0..(n - 1) |-> H[i + 1]]
<1>1. /\ n \in Nat \ {0} /\ Len(d) = n - 1 /\ ch[1] = Head(ch)
      /\ \A i \in 1..(n - 1) : d[i] = ch[i + 1]
  OBVIOUS
<1>2. /\ H \in [0..n -> [Bindings -> Values]] /\ H[0] = v
      /\ \A i \in 1..n : H[i] = Apply(H[i - 1], ch[i])
      /\ \A i \in k..n : RanWith(H[i], S)
  BY DEF IsChain
<1>. HIDE DEF n, d
<1>3. /\ G \in [0..(n - 1) -> [Bindings -> Values]]
      /\ \A i \in 0..(n - 1) : G[i] = H[i + 1] /\ i + 1 \in 1..n /\ i + 1 \in k..n
  BY <1>1, <1>2
<1>. HIDE DEF G
<1>4. ASSUME NEW i \in 1..(n - 1) PROVE G[i] = Apply(G[i - 1], d[i])
  <2>1. i + 1 \in 1..n /\ i - 1 \in 0..(n - 1) /\ i \in 0..(n - 1) /\ (i + 1) - 1 = i
        /\ (i - 1) + 1 = i
    BY <1>1
  <2>2. H[i + 1] = Apply(H[i], ch[i + 1])
    BY <1>2, <2>1
  <2>. QED BY <1>1, <1>3, <2>1, <2>2
<1>5. \A i \in 0..(n - 1) : RanWith(G[i], S)
  BY <1>2, <1>3
<1>6. G[0] = Apply(v, Head(ch)) /\ G[n - 1] = H[n]
  <2>1. 0 \in 0..(n - 1) /\ n - 1 \in 0..(n - 1) /\ (n - 1) + 1 = n /\ 0 + 1 = 1 /\ 1 \in 1..n
        /\ 1 - 1 = 0
    BY <1>1
  <2>2. H[1] = Apply(H[0], ch[1])
    BY <1>2, <2>1
  <2>. QED BY <1>1, <1>2, <1>3, <2>1, <2>2
<1>7. IsChain(G, d, Apply(v, Head(ch)), S, 0)
  BY <1>1, <1>3, <1>4, <1>5, <1>6 DEF IsChain
<1>. QED
  BY <1>1, <1>6, <1>7 DEF d, n

\* HostTick: whatever it sends a peer, and if it sends nothing, the peer ends up
\* with exactly the values the host runs with in this frame.
LEMMA TickKeepsChains == ASSUME SyncInv, ChainInv, Tick PROVE ChainInv'
<1>. DEFINE bits == BitsAfterTickBindings
            w == [b \in Bindings |-> Wire[serverVariable[b]]]
<1>1. /\ bits \in [Bindings -> SUBSET Slots]
      /\ \A b \in Bindings : bits[b] = IF b \in Changed THEN {} ELSE synchronized[b]
  BY DEF BitsAfterTickBindings, SyncInv, TypeOK
<1>2. /\ clientVariable' = serverVariable
      /\ channel' = [s \in Slots |-> Sent(bits, s)]
      /\ snapshots' = snapshots \cup {serverVariable}
      /\ UNCHANGED <<serverVariable, peerAt, ready, joined, remote, updated>>
  BY DEF Tick
<1>. HIDE DEF bits
<1>3. serverVariable \in [Bindings -> Values] /\ serverVariable \in snapshots'
  BY <1>2 DEF SyncInv, TypeOK
<1>4. w \in [Bindings -> Values] /\ RanWith(w, snapshots')
  BY <1>3 DEF RanWith
<1>5. ASSUME NEW s \in ready, peerAt[s] \in joined
      PROVE  \E G : /\ IsChain(G, channel'[s], remote[peerAt[s]], snapshots', From(s))
                    /\ G[Len(channel'[s])] = w
  <2>. DEFINE ch == channel[s]
              n == Len(ch)
              B == FindOutOfDateBindings(bits, s)
              q == BuildUpdatePacket(B)
  <2>1. PICK H : /\ IsChain(H, ch, remote[peerAt[s]], snapshots, From(s))
                 /\ \A b \in Bindings : s \in synchronized[b] => H[n][b] = Wire[clientVariable[b]]
    BY <1>5 DEF ChainInv
  <2>2. s \in Slots /\ ch \in Seq(Packets) /\ n \in Nat
    BY DEF SyncInv, TypeOK
  <2>3. From(s) \in Nat
    BY DEF From
  <2>4. IsChain(H, ch, remote[peerAt[s]], snapshots', From(s))
    BY <1>2, <2>1, <2>2, <2>3, WiderChain
  <2>5. B \in SUBSET Bindings /\ \A b \in Bindings : b \in B <=> s \notin bits[b]
    BY DEF FindOutOfDateBindings
  <2>6. q \in Packets /\ DOMAIN q = B /\ \A b \in B : q[b] = Wire[serverVariable[b]]
    BY <1>3, <2>5, BuiltIsPacket
  <2>7. ASSUME NEW b \in Bindings \ B PROVE H[n][b] = Wire[serverVariable[b]]
    <3>1. b \notin Changed /\ s \in synchronized[b]
      BY <1>1, <2>5
    <3>2. serverVariable[b] = clientVariable[b]
      BY <3>1 DEF Changed
    <3>. QED BY <2>1, <3>1, <3>2
  <2>8. H[n] \in [Bindings -> Values]
    BY <2>1, <2>2 DEF IsChain
  <2>9. CASE B = {}
    <3>1. channel'[s] = ch
      BY <1>1, <1>2, <2>2, <2>9, SentFacts DEF SyncInv
    <3>2. H[n] = w
      BY <2>7, <2>8, <2>9
    <3>. QED BY <2>4, <3>1, <3>2
  <2>10. CASE B # {}
    <3>1. channel'[s] = Append(ch, q)
      BY <1>1, <1>2, <2>2, <2>10, SentFacts DEF SyncInv
    <3>. HIDE DEF B, q
    <3>2. Apply(H[n], q) = w
      <4>1. \A b \in Bindings : (IF b \in DOMAIN q THEN q[b] ELSE H[n][b]) = Wire[serverVariable[b]]
        BY <2>6, <2>7
      <4>. QED BY <4>1 DEF Apply
    <3>. HIDE DEF w
    <3>. QED BY <1>4, <2>2, <2>3, <2>4, <2>6, <3>1, <3>2, LongerChain
  <2>. QED BY <2>9, <2>10
<1>6. ASSUME NEW s \in ready', peerAt'[s] \in joined'
      PROVE  \E H : /\ IsChain(H, channel'[s], remote'[peerAt'[s]], snapshots', From(s)')
                    /\ \A b \in Bindings :
                         s \in synchronized'[b] =>
                           H[Len(channel'[s])][b] = Wire[clientVariable'[b]]
  <2>1. PICK G : /\ IsChain(G, channel'[s], remote[peerAt[s]], snapshots', From(s))
                 /\ G[Len(channel'[s])] = w
    BY <1>2, <1>5, <1>6
  <2>2. From(s)' = From(s)
    BY <1>2 DEF From
  <2>3. \A b \in Bindings : G[Len(channel'[s])][b] = Wire[clientVariable'[b]]
    BY <1>2, <2>1
  <2>. QED BY <1>2, <2>1, <2>2, <2>3
<1>. QED
  BY <1>6 DEF ChainInv, IsChain, RanWith, Apply

\* A step that leaves alone the slots that stay ready, and the machines in them,
\* keeps their chains.
LEMMA SlotsUntouched ==
  ASSUME ChainInv, UNCHANGED <<synchronized, clientVariable, snapshots>>,
         \A s \in ready' : peerAt'[s] \in joined' =>
            /\ s \in ready /\ peerAt'[s] = peerAt[s] /\ peerAt[s] \in joined
            /\ channel'[s] = channel[s]
            /\ remote'[peerAt[s]] = remote[peerAt[s]]
            /\ s \in updated' <=> s \in updated
  PROVE  ChainInv'
<1>1. ASSUME NEW s \in ready', peerAt'[s] \in joined'
      PROVE  \E H : /\ IsChain(H, channel'[s], remote'[peerAt'[s]], snapshots', From(s)')
                    /\ \A b \in Bindings :
                         s \in synchronized'[b] =>
                           H[Len(channel'[s])][b] = Wire[clientVariable'[b]]
  <2>1. From(s)' = From(s)
    BY <1>1 DEF From
  <2>2. s \in ready /\ peerAt[s] \in joined
    BY <1>1
  <2>3. PICK H : /\ IsChain(H, channel[s], remote[peerAt[s]], snapshots, From(s))
                 /\ \A b \in Bindings :
                      s \in synchronized[b] => H[Len(channel[s])][b] = Wire[clientVariable[b]]
    BY <2>2 DEF ChainInv
  <2>. QED BY <1>1, <2>1, <2>3
<1>. QED
  BY <1>1 DEF ChainInv, IsChain, RanWith, Apply

\* HandlePacket takes one peer one position down its chain.
LEMMA PacketKeepsChains ==
  ASSUME SyncInv, ChainInv, NEW s \in Slots, HandlePacket(s) PROVE ChainInv'
<1>. DEFINE m == peerAt[s]
            ch == channel[s]
<1>1. /\ ch # <<>> /\ channel' = [channel EXCEPT ![s] = Tail(@)]
      /\ updated' = updated \cup {s}
      /\ remote' = IF m \in joined THEN [remote EXCEPT ![m] = Apply(@, Head(ch))] ELSE remote
      /\ UNCHANGED <<synchronized, clientVariable, peerAt, ready, joined, snapshots>>
  BY DEF HandlePacket, localVars
<1>2. /\ channel \in [Slots -> Seq(Packets)] /\ ch \in Seq(Packets)
      /\ remote \in [Machines -> [Bindings -> Values]] /\ joined \subseteq Machines
      /\ ready \subseteq Slots
  BY DEF SyncInv, TypeOK
<1>3. ASSUME NEW t \in ready', peerAt'[t] \in joined'
      PROVE  \E H : /\ IsChain(H, channel'[t], remote'[peerAt'[t]], snapshots', From(t)')
                    /\ \A b \in Bindings :
                         t \in synchronized'[b] =>
                           H[Len(channel'[t])][b] = Wire[clientVariable'[b]]
  <2>1. t \in ready /\ t \in Slots /\ peerAt[t] \in joined /\ peerAt'[t] = peerAt[t]
    BY <1>1, <1>2, <1>3
  <2>2. PICK H : /\ IsChain(H, channel[t], remote[peerAt[t]], snapshots, From(t))
                 /\ \A b \in Bindings :
                      t \in synchronized[b] => H[Len(channel[t])][b] = Wire[clientVariable[b]]
    BY <2>1 DEF ChainInv
  <2>3. CASE t = s
    <3>1. channel'[t] = Tail(ch) /\ remote'[m] = Apply(remote[m], Head(ch))
      BY <1>1, <1>2, <2>1, <2>3
    <3>2. From(t)' = 0 /\ From(t) \in {0, 1}
      BY <1>1, <2>3 DEF From
    <3>3. IsChain(H, ch, remote[m], snapshots, From(t))
      BY <2>2, <2>3
    <3>4. PICK G : /\ IsChain(G, Tail(ch), Apply(remote[m], Head(ch)), snapshots, 0)
                   /\ G[Len(Tail(ch))] = H[Len(ch)]
      <4>. HIDE DEF ch, m
      <4>1. \A k \in {0, 1} : IsChain(H, ch, remote[m], snapshots, k) =>
              \E G : /\ IsChain(G, Tail(ch), Apply(remote[m], Head(ch)), snapshots, 0)
                     /\ G[Len(Tail(ch))] = H[Len(ch)]
        <5>1. ch # <<>> /\ ch \in Seq(Packets)
          BY <1>1, <1>2
        <5>. QED BY <5>1, ShorterChain, Zenon
      <4>. QED BY <3>2, <3>3, <4>1
    <3>5. IsChain(G, channel'[t], remote'[peerAt'[t]], snapshots', From(t)')
      BY <1>1, <2>1, <2>3, <3>1, <3>2, <3>4
    <3>6. \A b \in Bindings :
            t \in synchronized'[b] => G[Len(channel'[t])][b] = Wire[clientVariable'[b]]
      BY <1>1, <2>2, <2>3, <3>1, <3>4
    <3>. QED BY <3>5, <3>6
  <2>4. CASE t # s
    <3>1. peerAt[t] # m
      BY <2>1, <2>4 DEF SyncInv, SlotInv, TypeOK
    <3>2. channel'[t] = channel[t] /\ remote'[peerAt[t]] = remote[peerAt[t]]
      BY <1>1, <1>2, <2>1, <2>4, <3>1
    <3>3. From(t)' = From(t)
      BY <1>1, <2>4 DEF From
    <3>. QED BY <1>1, <2>1, <2>2, <3>2, <3>3
  <2>. QED BY <2>3, <2>4
<1>. QED
  BY <1>3 DEF ChainInv, IsChain, RanWith, Apply

\* A slot becomes ready with an empty channel and no bit set.
LEMMA ReadyKeepsChains ==
  ASSUME SyncInv, ChainInv, NEW s \in Slots, PeerReady(s) PROVE ChainInv'
<1>1. /\ s \notin ready /\ s \in seenDown /\ ready' = ready \cup {s}
      /\ UNCHANGED <<synchronized, clientVariable, peerAt, joined, channel, remote,
                     snapshots, updated>>
  BY DEF PeerReady, localVars, historyVars
<1>2. ASSUME NEW t \in ready', peerAt'[t] \in joined'
      PROVE  \E H : /\ IsChain(H, channel'[t], remote'[peerAt'[t]], snapshots', From(t)')
                    /\ \A b \in Bindings :
                         t \in synchronized'[b] =>
                           H[Len(channel'[t])][b] = Wire[clientVariable'[b]]
  <2>1. From(t)' = From(t)
    BY <1>1 DEF From
  <2>2. CASE t = s
    <3>1. channel[s] = <<>> /\ s \notin updated /\ \A b \in Bindings : s \notin synchronized[b]
      BY <1>1 DEF SyncInv, SlotInv, TypeOK
    <3>. DEFINE v == remote[peerAt[s]]
                H == [i \in 0..0 |-> v]
    <3>2. v \in [Bindings -> Values]
      BY <1>1, <1>2, <2>2 DEF SyncInv, TypeOK
    <3>3. Len(channel[s]) = 0 /\ From(s) = 1
      BY <3>1 DEF From
    <3>. HIDE DEF v
    <3>4. H \in [0..0 -> [Bindings -> Values]] /\ H[0] = v
      BY <3>2
    <3>. HIDE DEF H
    <3>5. IsChain(H, channel[s], v, snapshots, From(s))
      BY <3>3, <3>4 DEF IsChain
    <3>. QED BY <1>1, <2>1, <2>2, <3>1, <3>5 DEF v
  <2>3. CASE t # s
    <3>1. t \in ready /\ peerAt[t] \in joined
      BY <1>1, <1>2, <2>3
    <3>2. PICK H : /\ IsChain(H, channel[t], remote[peerAt[t]], snapshots, From(t))
                   /\ \A b \in Bindings :
                        t \in synchronized[b] => H[Len(channel[t])][b] = Wire[clientVariable[b]]
      BY <3>1 DEF ChainInv
    <3>. QED BY <1>1, <2>1, <3>2
  <2>. QED BY <2>2, <2>3
<1>. QED
  BY <1>2 DEF ChainInv, IsChain, RanWith, Apply

\* Every step keeps the chains.
LEMMA ChainPreserved == SyncInv /\ ChainInv /\ [Next]_vars => ChainInv'
<1>. SUFFICES ASSUME SyncInv, ChainInv, [Next]_vars PROVE ChainInv'
  OBVIOUS
<1>0. /\ ready \subseteq {s \in Slots : peerAt[s] # NoMachine}
      /\ role # "host" => ready = {}
      /\ channel \in [Slots -> Seq(Packets)] /\ peerAt \in [Slots -> Machines \cup {NoMachine}]
      /\ remote \in [Machines -> [Bindings -> Values]] /\ joined \subseteq Machines
  BY DEF SyncInv, TypeOK, SlotInv
<1>1. CASE Tick
  BY <1>1, TickKeepsChains
<1>2. ASSUME NEW b \in Bindings, NEW v \in Values, SetServerVariable(b, v) PROVE ChainInv'
  BY <1>2, SlotsUntouched DEF SetServerVariable, engineVars, historyVars
<1>3. ASSUME NEW s \in Slots, HandlePacket(s) PROVE ChainInv'
  BY <1>3, PacketKeepsChains
<1>4. ASSUME NEW b \in Bindings, NEW v \in Values, HandlePacketAsClient(b, v) PROVE ChainInv'
  <2>1. ready' = {}
    BY <1>0, <1>4 DEF HandlePacketAsClient, engineVars
  <2>. QED BY <2>1 DEF ChainInv
<1>5. ASSUME NEW as \in {"host", "client"}, EnterSession(as) PROVE ChainInv'
  <2>1. ready' = {}
    BY <1>0, <1>5 DEF EnterSession, engineVars
  <2>. QED BY <2>1 DEF ChainInv
<1>6. CASE LeaveSession
  BY <1>6 DEF LeaveSession, ChainInv
<1>7. ASSUME NEW m \in Machines, NEW s \in Slots, PeerConnects(m, s) PROVE ChainInv'
  <2>1. /\ UNCHANGED <<synchronized, clientVariable, snapshots, ready, channel, updated>>
        /\ peerAt[s] = NoMachine /\ (\A t \in Slots : peerAt[t] # m)
        /\ peerAt' = [peerAt EXCEPT ![s] = m]
        /\ joined' = joined \cup {m}
        /\ \E leftOver : remote' = [remote EXCEPT ![m] = leftOver]
    BY <1>7 DEF PeerConnects, localVars, historyVars
  <2>2. ASSUME NEW t \in ready PROVE t \in Slots /\ t # s /\ peerAt[t] # m
    BY <1>0, <2>1
  <2>3. \A t \in ready : /\ peerAt'[t] = peerAt[t]
                         /\ peerAt[t] \in joined' => peerAt[t] \in joined
                         /\ remote'[peerAt[t]] = remote[peerAt[t]]
    BY <1>0, <2>1, <2>2
  <2>. QED BY <2>1, <2>3, SlotsUntouched
<1>8. ASSUME NEW s \in Slots, PeerReady(s) PROVE ChainInv'
  BY <1>8, ReadyKeepsChains
<1>9. ASSUME NEW s \in Slots, PeerUnavailable(s) PROVE ChainInv'
  <2>1. /\ UNCHANGED <<synchronized, clientVariable, snapshots, peerAt, joined, remote>>
        /\ ready' = ready \ {s} /\ channel' = [channel EXCEPT ![s] = <<>>]
        /\ updated' = updated \ {s}
    BY <1>9 DEF PeerUnavailable, localVars
  <2>. QED BY <1>0, <2>1, SlotsUntouched
<1>10. ASSUME NEW s \in Slots, PeerDisconnects(s) PROVE ChainInv'
  <2>1. /\ UNCHANGED <<synchronized, clientVariable, snapshots, remote>>
        /\ peerAt' = [peerAt EXCEPT ![s] = NoMachine] /\ joined' \subseteq joined
        /\ ready' = ready \ {s} /\ channel' = [channel EXCEPT ![s] = <<>>]
        /\ updated' = updated \ {s}
    BY <1>10 DEF PeerDisconnects, localVars
  <2>. QED BY <1>0, <2>1, SlotsUntouched
<1>11. ASSUME NEW m \in Machines, ClientQuits(m) PROVE ChainInv'
  BY <1>11, SlotsUntouched DEF ClientQuits, localVars, historyVars
<1>12. CASE UNCHANGED vars
  BY <1>12, SlotsUntouched DEF vars, localVars, engineVars, historyVars
<1>. QED
  BY <1>1, <1>2, <1>3, <1>4, <1>5, <1>6, <1>7, <1>8, <1>9, <1>10, <1>11, <1>12 DEF Next

\* A peer that has handled its first packet always runs with a combination of
\* values the host itself ran with in this session, however variables change,
\* slots are reused and packets queue up.
THEOREM SettingsAreNeverTorn == Spec => []NoTornSettings
<1>1. Init => ChainInv
  BY DEF Init, ChainInv
<1>2. SyncInv /\ ChainInv => NoTornSettings
  <2>. SUFFICES ASSUME SyncInv, ChainInv, NEW s \in updated, peerAt[s] \in joined
                PROVE  \E h \in snapshots : remote[peerAt[s]] = [b \in Bindings |-> Wire[h[b]]]
    BY DEF NoTornSettings
  <2>1. s \in ready /\ s \in Slots /\ channel[s] \in Seq(Packets)
    BY DEF SyncInv, TypeOK
  <2>2. PICK H : IsChain(H, channel[s], remote[peerAt[s]], snapshots, From(s))
    BY <2>1 DEF ChainInv
  <2>3. 0 \in From(s)..Len(channel[s])
    BY <2>1 DEF From
  <2>. QED BY <2>2, <2>3 DEF IsChain, RanWith
<1>. QED
  BY <1>1, <1>2, SyncInvariant, ChainPreserved, PTL DEF Spec
=============================================================================
