------------------------------ MODULE FloodFilter ------------------------------
(***************************************************************************)
(* The chat flood filter of a host (Server/ServerChat.cpp).  Every message *)
(* of a remote peer adds a score, between a short and a long one depending *)
(* on its length, to the statistics of the peer's address; the score leaks *)
(* one point a second.  An address that reaches the timeout score is timed *)
(* out; another timeout before the reset period is over lasts twice as     *)
(* long.  Statistics that say nothing any more are erased.                 *)
(*                                                                         *)
(* Messages and ticks are handled on the game thread.  Tick is modelled by *)
(* the body of its loop, one second; a frame that catches up on several    *)
(* seconds is that many steps in a row.                                    *)
(***************************************************************************)
EXTENDS Integers

CONSTANTS
  Ips,                        \* IPv4 addresses of remote peers
  Lengths,                    \* lengths of message bodies, at most MaxMessageLength
  FloodMessageScoreShort, FloodMessageScoreLong,
  FloodTimeoutScore, FloodTimeoutSeconds, FloodTimeoutResetSeconds,
  MaxTimeout,                 \* bound: no timeout longer than this is modelled
  MaxWindow                   \* bound: seconds a window of observation lasts

MaxMessageLength == 128

ASSUME LengthsAssumption == Lengths \subseteq 1..MaxMessageLength
ASSUME ScoresAssumption ==
  /\ FloodMessageScoreShort \in Nat
  /\ FloodMessageScoreLong \in Nat
  /\ FloodMessageScoreShort <= FloodMessageScoreLong
ASSUME TimeoutsAssumption ==
  /\ FloodTimeoutScore \in Nat \ {0}
  /\ FloodTimeoutSeconds \in Nat \ {0}
  /\ FloodTimeoutResetSeconds \in Nat \ {0}   \* with 0 no timeout is ever remembered
  /\ MaxTimeout \in Nat /\ MaxWindow \in Nat

VARIABLES
  SpamScore, TimeoutSeconds,  \* the fields of ClientSpamStats, per address; an
  NextTimeoutSeconds,         \* address with no entry in SpamStats has 0 in all,
  TimeoutResetSeconds,        \* as a new entry has
  present,                    \* the addresses that have an entry in SpamStats
  \* --- history
  firstAfter,                 \* addresses silent since their timeout was over
  sinceTimeout,               \* seconds since an address's last timeout was over
  lastTimeout,                \* length of an address's last timeout, 0 once forgotten
  sent, seconds               \* scores let through, and seconds, of a window of time
                              \* that may begin at any moment

statsVars == <<SpamScore, TimeoutSeconds, NextTimeoutSeconds, TimeoutResetSeconds, present>>
windowVars == <<sent, seconds>>
vars == <<statsVars, firstAfter, sinceTimeout, lastTimeout, windowVars>>

-----------------------------------------------------------------------------
\* Mutant: the long score is one too high.
SpamScoreOneMore(len) ==
  FloodMessageScoreShort
    + (len * (FloodMessageScoreLong + 2 - FloodMessageScoreShort)) \div MaxMessageLength

\* CalculateSpamScore
CalculateSpamScore(len) ==
  FloodMessageScoreShort
    + (len * (FloodMessageScoreLong + 1 - FloodMessageScoreShort)) \div (MaxMessageLength + 1)

\* Mutant: the total may pass the timeout score.
ReachesPast(score) == score > FloodTimeoutScore

\* The total score starts a timeout.
ReachesTimeout(score) == score >= FloodTimeoutScore

\* The length of the timeout that starts.
NextTimeout(next) == IF next > 0 THEN 2 * next ELSE FloodTimeoutSeconds

\* FloodFilterMessage for a message of length len from address ip.  The message
\* is let through when the address is not timed out afterwards.
FloodFilterMessage(ip, len) ==
  LET score == SpamScore[ip] + CalculateSpamScore(len)
      next  == NextTimeout(NextTimeoutSeconds[ip])
  IN /\ present' = present \cup {ip}
     /\ firstAfter' = firstAfter \ {ip}
     /\ \/ /\ TimeoutSeconds[ip] > 0
           /\ UNCHANGED <<SpamScore, TimeoutSeconds, NextTimeoutSeconds, TimeoutResetSeconds,
                          sinceTimeout, lastTimeout, sent>>
        \/ /\ TimeoutSeconds[ip] = 0
           /\ ReachesTimeout(score)
           /\ next <= MaxTimeout
           /\ SpamScore' = [SpamScore EXCEPT ![ip] = score]
           /\ NextTimeoutSeconds' = [NextTimeoutSeconds EXCEPT ![ip] = next]
           /\ TimeoutSeconds' = [TimeoutSeconds EXCEPT ![ip] = next]
           /\ TimeoutResetSeconds' = [TimeoutResetSeconds EXCEPT ![ip] = FloodTimeoutResetSeconds]
           /\ lastTimeout' = [lastTimeout EXCEPT ![ip] = TimeoutSeconds'[ip]]
           /\ sinceTimeout' = [sinceTimeout EXCEPT ![ip] = 0]
           /\ UNCHANGED sent
        \/ /\ TimeoutSeconds[ip] = 0
           /\ ~ReachesTimeout(score)
           /\ SpamScore' = [SpamScore EXCEPT ![ip] = score]
           /\ sent' = [sent EXCEPT ![ip] = @ + CalculateSpamScore(len)]
           /\ UNCHANGED <<TimeoutSeconds, NextTimeoutSeconds, TimeoutResetSeconds,
                          sinceTimeout, lastTimeout>>
     /\ UNCHANGED seconds

-----------------------------------------------------------------------------
(* One second of Tick, for every address that has an entry.                *)

Decreased(n) == IF n > 0 THEN n - 1 ELSE n

\* The reset period runs only when no timeout is active.
ResetAfterSecond(ip) ==
  IF TimeoutSeconds[ip] > 0 THEN TimeoutResetSeconds[ip]
  ELSE Decreased(TimeoutResetSeconds[ip])

\* Mutant: an entry is erased although its reset period is running.
ErasedEarly(ip) == Decreased(TimeoutSeconds[ip]) = 0 /\ Decreased(SpamScore[ip]) = 0

\* The entry of ip says nothing any more.
Erased(ip) ==
  /\ Decreased(TimeoutSeconds[ip]) = 0
  /\ Decreased(SpamScore[ip]) = 0
  /\ ResetAfterSecond(ip) = 0

\* What a second makes of the value of a field, new, at an entry.
AfterSecond(field, ip, new) ==
  IF ip \notin present THEN field[ip] ELSE IF Erased(ip) THEN 0 ELSE new

\* An address whose timeout is over has been out of it for at least the reset
\* period when its next timeout is the default one again.
Forgotten(ip) == TimeoutSeconds[ip] = 0 /\ sinceTimeout[ip] + 1 >= FloodTimeoutResetSeconds

Tick ==
  /\ \A ip \in Ips : seconds[ip] < MaxWindow
  /\ SpamScore' = [ip \in Ips |-> AfterSecond(SpamScore, ip, Decreased(SpamScore[ip]))]
  /\ TimeoutSeconds' =
       [ip \in Ips |-> AfterSecond(TimeoutSeconds, ip, Decreased(TimeoutSeconds[ip]))]
  /\ TimeoutResetSeconds' =
       [ip \in Ips |-> AfterSecond(TimeoutResetSeconds, ip, ResetAfterSecond(ip))]
  /\ NextTimeoutSeconds' =
       [ip \in Ips |-> AfterSecond(NextTimeoutSeconds, ip,
                         IF ResetAfterSecond(ip) = 0 THEN 0 ELSE NextTimeoutSeconds[ip])]
  /\ present' = {ip \in present : ~Erased(ip)}
  /\ firstAfter' = firstAfter \cup {ip \in present : TimeoutSeconds[ip] = 1}
  /\ sinceTimeout' = [ip \in Ips |->
       IF TimeoutSeconds[ip] > 0 \/ lastTimeout[ip] = 0 \/ Forgotten(ip) THEN 0
       ELSE sinceTimeout[ip] + 1]
  /\ lastTimeout' = [ip \in Ips |-> IF Forgotten(ip) THEN 0 ELSE lastTimeout[ip]]
  /\ seconds' = [ip \in Ips |-> seconds[ip] + 1]
  /\ UNCHANGED sent

\* A new window of observation begins.
Observe(ip) ==
  /\ sent' = [sent EXCEPT ![ip] = 0]
  /\ seconds' = [seconds EXCEPT ![ip] = 0]
  /\ UNCHANGED <<statsVars, firstAfter, sinceTimeout, lastTimeout>>

-----------------------------------------------------------------------------
Zero == [ip \in Ips |-> 0]

Init ==
  /\ SpamScore = Zero /\ TimeoutSeconds = Zero
  /\ NextTimeoutSeconds = Zero /\ TimeoutResetSeconds = Zero
  /\ present = {}
  /\ firstAfter = {} /\ sinceTimeout = Zero /\ lastTimeout = Zero
  /\ sent = Zero /\ seconds = Zero

Next ==
  \/ \E ip \in Ips, len \in Lengths : FloodFilterMessage(ip, len)
  \/ Tick
  \/ \E ip \in Ips : Observe(ip)

Spec == Init /\ [][Next]_vars

-----------------------------------------------------------------------------
\* The types of the spam statistics: nothing is counted below zero, and the reset
\* period never runs longer than it is set to.
TypeOK ==
  /\ SpamScore \in [Ips -> Nat]
  /\ TimeoutSeconds \in [Ips -> Nat]
  /\ NextTimeoutSeconds \in [Ips -> Nat]
  /\ TimeoutResetSeconds \in [Ips -> 0..FloodTimeoutResetSeconds]
  /\ present \subseteq Ips /\ firstAfter \subseteq Ips
  /\ sinceTimeout \in [Ips -> 0..FloodTimeoutResetSeconds]
  /\ lastTimeout \in [Ips -> Nat]
  /\ sent \in [Ips -> Nat] /\ seconds \in [Ips -> 0..MaxWindow]

\* What an address gets through in any stretch of time is less than the timeout
\* score and a point for each second of it (FloodFilterMessage and the leak in
\* Tick): erasing entries and timeouts that end give nothing away.
RateBound == \A ip \in Ips : sent[ip] < FloodTimeoutScore + seconds[ip]

\* A timeout that starts before the last one has been over for the reset period is
\* twice as long as that one, and any other has the default length: the reset
\* period does not run during a timeout and is not lost when entries are erased.
TimeoutsEscalate ==
  [][\A ip \in Ips : (TimeoutSeconds[ip] = 0 /\ TimeoutSeconds'[ip] > 0) =>
       TimeoutSeconds'[ip] =
         IF lastTimeout[ip] > 0 THEN 2 * lastTimeout[ip] ELSE FloodTimeoutSeconds]_vars

\* "You can chat again in N second(s)": the first message an address sends once its
\* timeout is over is not thrown out.
ChatAgainAfterTimeout ==
  [][\A ip \in firstAfter \ firstAfter' : TimeoutSeconds'[ip] = 0]_vars
=============================================================================
