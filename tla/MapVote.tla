------------------------------- MODULE MapVote --------------------------------
(***************************************************************************)
(* What the map vote promises, without ballots, names, clocks or sessions: *)
(* a vote is opened, it ends by choosing a winner or by a revote, a revote *)
(* happens at most RevotesAllowed times before the vote is closed, and a   *)
(* game is only ever launched by a chosen winner.                          *)
(***************************************************************************)
EXTENDS Naturals

CONSTANT RevotesAllowed

VARIABLES
  phase,     \* "none", "voting", "revote" (to be reopened) or "chosen"
  revotes,   \* revotes used since the vote was opened
  launch     \* the vote has asked the engine to start the game

vars == <<phase, revotes, launch>>

Init == phase = "none" /\ revotes = 0 /\ launch = FALSE

\* A new vote, in place of whatever was going on.
Open == phase' = "voting" /\ revotes' = 0 /\ UNCHANGED launch

\* The time is over: Revote has won ...
Revote ==
  /\ phase = "voting" /\ revotes < RevotesAllowed
  /\ phase' = "revote" /\ revotes' = revotes + 1
  /\ UNCHANGED launch

Reopen == phase = "revote" /\ phase' = "voting" /\ UNCHANGED <<revotes, launch>>

\* ... or an option has.
Choose == phase = "voting" /\ phase' = "chosen" /\ UNCHANGED <<revotes, launch>>

\* The winner's game is started; the engine may refuse.
Launch ==
  /\ phase = "chosen"
  /\ phase' = "none" /\ revotes' = 0
  /\ launch' \in {TRUE, launch}

\* The vote is cancelled, or nobody is left.
Close == phase' = "none" /\ revotes' = 0 /\ UNCHANGED launch

\* The engine starts a game or leaves the session.
Depart == launch' = FALSE /\ phase' = "none" /\ revotes' = 0

Next == Open \/ Revote \/ Reopen \/ Choose \/ Launch \/ Close \/ Depart

Spec == Init /\ [][Next]_vars
=============================================================================
