-------------------------- MODULE FloodFilterProofs --------------------------
(***************************************************************************)
(* What the flood filter promises, for all addresses, scores and times.    *)
(***************************************************************************)
EXTENDS FloodFilter, TLAPS

\* The window's account: what was let through is still in the score or has leaked.
Account == \A ip \in Ips : sent[ip] <= SpamScore[ip] + seconds[ip]

\* NextTimeoutSeconds is the timeout that is remembered, and while one is, the rest of
\* the reset period and the seconds since the timeout add up to the whole period.
MemoryOf(ip) ==
  /\ NextTimeoutSeconds[ip] = lastTimeout[ip]
  /\ lastTimeout[ip] > 0 =>
       /\ lastTimeout[ip] >= FloodTimeoutSeconds
       /\ TimeoutResetSeconds[ip] + sinceTimeout[ip] = FloodTimeoutResetSeconds
       /\ TimeoutResetSeconds[ip] > 0
       /\ ip \in present
  /\ lastTimeout[ip] = 0 =>
       TimeoutSeconds[ip] = 0 /\ TimeoutResetSeconds[ip] = 0 /\ sinceTimeout[ip] = 0
  /\ TimeoutSeconds[ip] > 0 => sinceTimeout[ip] = 0
Remembered == \A ip \in Ips : MemoryOf(ip)

\* An address without an entry has no score.
NoEntryNoScore == \A ip \in Ips \ present : SpamScore[ip] = 0

FloodInv == TypeOK /\ Account /\ RateBound /\ Remembered /\ NoEntryNoScore

\* The score leaks during a timeout: it is at most what it can have been at the
\* start of one, less the seconds of the shortest timeout that are over.
LeakOf(ip) ==
  /\ ip \in firstAfter => TimeoutSeconds[ip] = 0
  /\ TimeoutSeconds[ip] = 0 => SpamScore[ip] < FloodTimeoutScore
  /\ (TimeoutSeconds[ip] > 0 \/ ip \in firstAfter) =>
       \/ SpamScore[ip] = 0
       \/ SpamScore[ip] + FloodTimeoutSeconds
            < FloodTimeoutScore + FloodMessageScoreLong + TimeoutSeconds[ip]
Leaked == \A ip \in Ips : LeakOf(ip)

-----------------------------------------------------------------------------
\* CalculateSpamScore is between the short and the long score for every length a
\* body can have.
LEMMA SpamScoreRange ==
  ASSUME NEW len \in Lengths
  PROVE  /\ CalculateSpamScore(len) \in Nat
         /\ FloodMessageScoreShort <= CalculateSpamScore(len)
         /\ CalculateSpamScore(len) <= FloodMessageScoreLong
<1> DEFINE d == FloodMessageScoreLong + 1 - FloodMessageScoreShort
           x == len * d
<1>1. d \in Nat /\ d >= 1 /\ len \in Nat /\ len <= 128
  BY ScoresAssumption, LengthsAssumption DEF MaxMessageLength
<1>2. x \in Nat /\ x <= 128 * d
  BY <1>1
<1>3. x \div 129 \in Nat /\ x \div 129 < d
  <2> HIDE DEF x, d
  <2> QED BY <1>1, <1>2
<1>4. CalculateSpamScore(len) = FloodMessageScoreShort + (x \div 129)
  BY DEF CalculateSpamScore, MaxMessageLength
<1>5. d = FloodMessageScoreLong + 1 - FloodMessageScoreShort
  OBVIOUS
<1> HIDE DEF x, d
<1> QED BY <1>1, <1>3, <1>4, <1>5, ScoresAssumption

LEMMA InitFlood == Init => FloodInv
BY TimeoutsAssumption
   DEF Init, Zero, FloodInv, TypeOK, Account, RateBound, Remembered, MemoryOf, NoEntryNoScore

\* A message keeps the invariant, whether it meets a timeout, starts one or is let
\* through.
LEMMA MessageFlood ==
  ASSUME FloodInv, NEW ip \in Ips, NEW len \in Lengths, FloodFilterMessage(ip, len)
  PROVE  FloodInv'
<1> DEFINE s == CalculateSpamScore(len)
           next == NextTimeout(NextTimeoutSeconds[ip])
<1>s. s \in Nat
  BY SpamScoreRange
<1>n. next \in Nat /\ next >= FloodTimeoutSeconds /\ next > 0
  BY TimeoutsAssumption DEF NextTimeout, FloodInv, TypeOK, Remembered, MemoryOf
<1>p. /\ present' = present \cup {ip} /\ firstAfter' = firstAfter \ {ip}
      /\ UNCHANGED seconds
  BY DEF FloodFilterMessage
<1>1. CASE TimeoutSeconds[ip] > 0
  <2>1. UNCHANGED <<SpamScore, TimeoutSeconds, NextTimeoutSeconds, TimeoutResetSeconds,
                    sinceTimeout, lastTimeout, sent>>
    BY <1>1 DEF FloodFilterMessage, FloodInv, TypeOK
  <2> QED BY <1>p, <2>1
       DEF FloodInv, TypeOK, Account, RateBound, Remembered, MemoryOf, NoEntryNoScore
<1>2. CASE TimeoutSeconds[ip] = 0 /\ ReachesTimeout(SpamScore[ip] + s)
  <2>1. /\ SpamScore' = [SpamScore EXCEPT ![ip] = SpamScore[ip] + s]
        /\ NextTimeoutSeconds' = [NextTimeoutSeconds EXCEPT ![ip] = next]
        /\ TimeoutSeconds' = [TimeoutSeconds EXCEPT ![ip] = next]
        /\ TimeoutResetSeconds' =
             [TimeoutResetSeconds EXCEPT ![ip] = FloodTimeoutResetSeconds]
        /\ lastTimeout' = [lastTimeout EXCEPT ![ip] = TimeoutSeconds'[ip]]
        /\ sinceTimeout' = [sinceTimeout EXCEPT ![ip] = 0]
        /\ UNCHANGED sent
    BY <1>2 DEF FloodFilterMessage
  <2> HIDE DEF s, next
  <2>2. lastTimeout' = [lastTimeout EXCEPT ![ip] = next]
    BY <2>1 DEF FloodInv, TypeOK
  <2>3. TypeOK'
    BY <1>s, <1>n, <1>p, <2>1, <2>2, TimeoutsAssumption DEF FloodInv, TypeOK
  <2>4. Account' /\ RateBound' /\ NoEntryNoScore'
    BY <1>s, <1>p, <2>1 DEF FloodInv, TypeOK, Account, RateBound, NoEntryNoScore
  <2>5. ASSUME NEW i \in Ips PROVE MemoryOf(i)'
    BY <1>n, <1>p, <2>1, <2>2, TimeoutsAssumption
       DEF FloodInv, TypeOK, Remembered, MemoryOf
  <2> QED BY <2>3, <2>4, <2>5 DEF FloodInv, Remembered
<1>3. CASE TimeoutSeconds[ip] = 0 /\ ~ReachesTimeout(SpamScore[ip] + s)
  <2>1. /\ SpamScore' = [SpamScore EXCEPT ![ip] = SpamScore[ip] + s]
        /\ sent' = [sent EXCEPT ![ip] = @ + s]
        /\ UNCHANGED <<NextTimeoutSeconds, TimeoutSeconds, TimeoutResetSeconds,
                       sinceTimeout, lastTimeout>>
    BY <1>3 DEF FloodFilterMessage
  <2>2. SpamScore[ip] + s < FloodTimeoutScore
    BY <1>3, <1>s, TimeoutsAssumption DEF ReachesTimeout, FloodInv, TypeOK
  <2> HIDE DEF s, next
  <2>3. TypeOK' /\ Account' /\ NoEntryNoScore'
    BY <1>s, <1>p, <2>1 DEF FloodInv, TypeOK, Account, NoEntryNoScore
  <2>4. RateBound'
    BY <1>s, <1>p, <2>1, <2>2, TimeoutsAssumption DEF FloodInv, TypeOK, Account, RateBound
  <2>5. Remembered'
    BY <1>p, <2>1 DEF FloodInv, Remembered, MemoryOf
  <2> QED BY <2>3, <2>4, <2>5 DEF FloodInv
<1> QED BY <1>1, <1>2, <1>3 DEF FloodInv, TypeOK

\* A second keeps the invariant, of the addresses that keep an entry, of those whose
\* entry is erased and of those that have none.
LEMMA TickFlood ==
  ASSUME FloodInv, Tick
  PROVE  FloodInv'
<1>1. TypeOK'
  BY TimeoutsAssumption DEF FloodInv, TypeOK, Tick, AfterSecond, Decreased, ResetAfterSecond,
     Forgotten, Remembered, MemoryOf
<1>2. Account' /\ RateBound' /\ NoEntryNoScore'
  BY TimeoutsAssumption DEF FloodInv, TypeOK, Account, RateBound, NoEntryNoScore, Tick,
     AfterSecond, Decreased, Erased
<1>3. ASSUME NEW ip \in Ips PROVE MemoryOf(ip)'
  <2>1. MemoryOf(ip)
    BY DEF FloodInv, Remembered
  <2>2. CASE ip \notin present
    BY <2>1, <2>2, TimeoutsAssumption
       DEF FloodInv, TypeOK, MemoryOf, Tick, AfterSecond, Forgotten
  <2>3. CASE ip \in present /\ TimeoutSeconds[ip] > 0
    <3>1. ~Forgotten(ip) /\ ~Erased(ip) /\ ResetAfterSecond(ip) = TimeoutResetSeconds[ip]
      BY <2>1, <2>3, TimeoutsAssumption
         DEF FloodInv, TypeOK, MemoryOf, Forgotten, Erased, ResetAfterSecond
    <3> QED BY <2>1, <2>3, <3>1, TimeoutsAssumption
         DEF FloodInv, TypeOK, MemoryOf, Tick, AfterSecond, Decreased
  <2>4. CASE ip \in present /\ TimeoutSeconds[ip] = 0
    BY <2>1, <2>4, TimeoutsAssumption
       DEF FloodInv, TypeOK, MemoryOf, Tick, AfterSecond, Decreased, Erased, ResetAfterSecond,
           Forgotten
  <2> QED BY <2>2, <2>3, <2>4 DEF FloodInv, TypeOK
<1> QED BY <1>1, <1>2, <1>3 DEF FloodInv, Remembered

LEMMA NextFlood == FloodInv /\ [Next]_vars => FloodInv'
<1> SUFFICES ASSUME FloodInv, [Next]_vars PROVE FloodInv'
  OBVIOUS
<1>1. ASSUME NEW ip \in Ips, NEW len \in Lengths, FloodFilterMessage(ip, len)
      PROVE  FloodInv'
  BY <1>1, MessageFlood
<1>2. CASE Tick
  BY <1>2, TickFlood
<1>3. ASSUME NEW ip \in Ips, Observe(ip) PROVE FloodInv'
  BY <1>3, TimeoutsAssumption DEF Observe, statsVars, FloodInv, TypeOK, Account, RateBound,
     Remembered, MemoryOf, NoEntryNoScore
<1>4. CASE UNCHANGED vars
  BY <1>4 DEF vars, statsVars, windowVars, FloodInv, TypeOK, Account, RateBound, Remembered,
     MemoryOf, NoEntryNoScore
<1> QED BY <1>1, <1>2, <1>3, <1>4 DEF Next

\* The inductive invariant of the flood filter.
THEOREM FloodInvariant == Spec => []FloodInv
<1>1. Init => FloodInv
  BY InitFlood
<1>2. FloodInv /\ [Next]_vars => FloodInv'
  BY NextFlood
<1> QED BY <1>1, <1>2, PTL DEF Spec

\* No window of time lets an address through with more than the timeout score and a
\* point a second (FloodFilterMessage and Tick).
THEOREM RateIsBounded == Spec => []RateBound
<1>1. FloodInv => RateBound
  BY DEF FloodInv
<1> QED BY <1>1, FloodInvariant, PTL

\* A repeated timeout is twice as long as the last one, any other has the default
\* length (FloodFilterMessage and the reset period in Tick).
THEOREM TimeoutsAlwaysEscalate == Spec => TimeoutsEscalate
<1> DEFINE Starts(ip) == TimeoutSeconds[ip] = 0 /\ TimeoutSeconds'[ip] > 0
           Escalates(ip) == TimeoutSeconds'[ip] =
             IF lastTimeout[ip] > 0 THEN 2 * lastTimeout[ip] ELSE FloodTimeoutSeconds
<1>1. ASSUME FloodInv, [Next]_vars, NEW ip \in Ips, Starts(ip) PROVE Escalates(ip)
  <2>1. ASSUME NEW j \in Ips, NEW len \in Lengths, FloodFilterMessage(j, len)
        PROVE  Escalates(ip)
    <3>1. j = ip
      BY <1>1, <2>1 DEF FloodFilterMessage, FloodInv, TypeOK
    <3>2. TimeoutSeconds'[ip] = NextTimeout(NextTimeoutSeconds[ip])
      BY <1>1, <2>1, <3>1 DEF FloodFilterMessage, FloodInv, TypeOK
    <3> QED BY <1>1, <3>2 DEF NextTimeout, FloodInv, Remembered, MemoryOf
  <2>2. CASE Tick
    BY <1>1, <2>2 DEF Tick, AfterSecond, Decreased, FloodInv, TypeOK
  <2>3. ASSUME NEW j \in Ips, Observe(j) PROVE Escalates(ip)
    BY <1>1, <2>3 DEF Observe, statsVars
  <2>4. CASE UNCHANGED vars
    BY <1>1, <2>4 DEF vars, statsVars
  <2> QED BY <1>1, <2>1, <2>2, <2>3, <2>4 DEF Next
<1>2. FloodInv /\ [Next]_vars => [\A ip \in Ips : Starts(ip) => Escalates(ip)]_vars
  BY <1>1
<1> QED BY <1>2, FloodInvariant, PTL DEF Spec, TimeoutsEscalate

-----------------------------------------------------------------------------
\* With a timeout long enough for the score to leak, Leaked is kept.
LEMMA NextLeaked ==
  ASSUME FloodTimeoutSeconds >= 2 * FloodMessageScoreLong,
         FloodMessageScoreLong < FloodTimeoutScore,
         FloodInv, Leaked, [Next]_vars
  PROVE  Leaked'
<1>1. ASSUME NEW ip \in Ips, NEW len \in Lengths, FloodFilterMessage(ip, len),
             NEW i \in Ips
      PROVE  LeakOf(i)'
  <2> DEFINE s == CalculateSpamScore(len)
             next == NextTimeout(NextTimeoutSeconds[ip])
  <2>s. s \in Nat /\ s <= FloodMessageScoreLong
    BY SpamScoreRange
  <2>n. next \in Nat /\ next >= FloodTimeoutSeconds /\ next > 0
    BY TimeoutsAssumption DEF NextTimeout, FloodInv, TypeOK, Remembered, MemoryOf
  <2>l. LeakOf(i)
    BY DEF Leaked
  <2>p. firstAfter' = firstAfter \ {ip}
    BY <1>1 DEF FloodFilterMessage
  <2>1. CASE TimeoutSeconds[ip] > 0
    <3>1. UNCHANGED <<SpamScore, TimeoutSeconds>>
      BY <1>1, <2>1 DEF FloodFilterMessage, FloodInv, TypeOK
    <3> QED BY <2>l, <2>p, <3>1 DEF LeakOf
  <2>2. CASE TimeoutSeconds[ip] = 0 /\ ReachesTimeout(SpamScore[ip] + s)
    <3>1. /\ SpamScore' = [SpamScore EXCEPT ![ip] = SpamScore[ip] + s]
          /\ TimeoutSeconds' = [TimeoutSeconds EXCEPT ![ip] = next]
      BY <1>1, <2>2 DEF FloodFilterMessage
    <3> HIDE DEF s, next
    <3> QED BY <2>2, <2>s, <2>n, <2>l, <2>p, <3>1, ScoresAssumption, TimeoutsAssumption
         DEF LeakOf, FloodInv, TypeOK
  <2>3. CASE TimeoutSeconds[ip] = 0 /\ ~ReachesTimeout(SpamScore[ip] + s)
    <3>1. /\ SpamScore' = [SpamScore EXCEPT ![ip] = SpamScore[ip] + s]
          /\ UNCHANGED TimeoutSeconds
      BY <1>1, <2>3 DEF FloodFilterMessage
    <3>2. SpamScore[ip] + s < FloodTimeoutScore
      BY <2>3, <2>s, TimeoutsAssumption DEF ReachesTimeout, FloodInv, TypeOK
    <3> HIDE DEF s, next
    <3> QED BY <2>3, <2>s, <2>l, <2>p, <3>1, <3>2 DEF LeakOf, FloodInv, TypeOK
  <2> QED BY <2>1, <2>2, <2>3 DEF FloodInv, TypeOK
<1>2. ASSUME Tick, NEW i \in Ips PROVE LeakOf(i)'
  <2>1. LeakOf(i) /\ MemoryOf(i)
    BY DEF Leaked, FloodInv, Remembered
  <2>2. CASE i \notin present
    BY <1>2, <2>1, <2>2, TimeoutsAssumption, ScoresAssumption
       DEF LeakOf, MemoryOf, FloodInv, TypeOK, Tick, AfterSecond
  <2>3. CASE i \in present /\ TimeoutSeconds[i] > 0
    <3>1. ~Erased(i)
      BY <2>1, <2>3 DEF Erased, ResetAfterSecond, MemoryOf, FloodInv, TypeOK
    <3> QED BY <1>2, <2>1, <2>3, <3>1, TimeoutsAssumption, ScoresAssumption
         DEF LeakOf, FloodInv, TypeOK, Tick, AfterSecond, Decreased
  <2>4. CASE i \in present /\ TimeoutSeconds[i] = 0
    BY <1>2, <2>1, <2>4, TimeoutsAssumption, ScoresAssumption
       DEF LeakOf, FloodInv, TypeOK, Tick, AfterSecond, Decreased
  <2> QED BY <2>2, <2>3, <2>4 DEF FloodInv, TypeOK
<1>3. ASSUME NEW ip \in Ips, Observe(ip) PROVE Leaked'
  BY <1>3 DEF Observe, statsVars, Leaked, LeakOf
<1>4. CASE UNCHANGED vars
  BY <1>4 DEF vars, statsVars, Leaked, LeakOf
<1> QED BY <1>1, <1>2, <1>3, <1>4 DEF Next, Leaked

\* The first message after a timeout is let through, when the timeout lasts at least
\* twice the long score and one message alone does not reach the timeout score: the
\* promise "You can chat again" of FloodFilterMessage.
THEOREM ChatAgainWhenTimeoutIsLong ==
  ASSUME FloodTimeoutSeconds >= 2 * FloodMessageScoreLong,
         FloodMessageScoreLong < FloodTimeoutScore
  PROVE  Spec => ChatAgainAfterTimeout
<1>1. Init => Leaked
  <2> SUFFICES ASSUME Init, NEW ip \in Ips PROVE LeakOf(ip)
    BY DEF Leaked
  <2>1. SpamScore[ip] = 0 /\ TimeoutSeconds[ip] = 0 /\ firstAfter = {}
    BY DEF Init, Zero
  <2> QED BY <2>1, TimeoutsAssumption DEF LeakOf
<1>2. FloodInv /\ Leaked /\ [Next]_vars => Leaked'
  BY NextLeaked
<1>3. ASSUME FloodInv, Leaked, [Next]_vars, NEW ip \in firstAfter \ firstAfter'
      PROVE  TimeoutSeconds'[ip] = 0
  <2>1. PICK len \in Lengths : FloodFilterMessage(ip, len)
    BY <1>3 DEF Next, FloodFilterMessage, Tick, Observe, vars
  <2>2. CalculateSpamScore(len) \in Nat /\ CalculateSpamScore(len) <= FloodMessageScoreLong
    BY SpamScoreRange
  <2>3. ip \in Ips /\ LeakOf(ip) /\ MemoryOf(ip)
    BY <1>3 DEF FloodInv, TypeOK, Leaked, Remembered
  <2>4. SpamScore[ip] \in Nat /\ TimeoutSeconds[ip] \in Nat
    BY <1>3, <2>3 DEF FloodInv, TypeOK
  <2>5. TimeoutSeconds[ip] = 0
    BY <1>3, <2>3 DEF LeakOf
  <2>6. SpamScore[ip] + CalculateSpamScore(len) < FloodTimeoutScore
    BY <1>3, <2>2, <2>3, <2>4, <2>5, ScoresAssumption, TimeoutsAssumption DEF LeakOf
  <2>7. ~ReachesTimeout(SpamScore[ip] + CalculateSpamScore(len))
    BY <2>2, <2>4, <2>6, TimeoutsAssumption DEF ReachesTimeout
  <2>8. UNCHANGED TimeoutSeconds
    BY <2>1, <2>5, <2>7 DEF FloodFilterMessage
  <2> QED BY <2>5, <2>8
<1>4. FloodInv /\ Leaked /\ [Next]_vars =>
        [\A ip \in firstAfter \ firstAfter' : TimeoutSeconds'[ip] = 0]_vars
  BY <1>3
<1> QED BY <1>1, <1>2, <1>4, FloodInvariant, PTL DEF Spec, ChatAgainAfterTimeout
=============================================================================
