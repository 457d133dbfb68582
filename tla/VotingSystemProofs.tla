-------------------------- MODULE VotingSystemProofs --------------------------
(***************************************************************************)
(* Proofs about the map vote, for any players, names, pools, times and     *)
(* numbers of options and revotes.                                         *)
(***************************************************************************)
EXTENDS VotingSystem, FiniteSetTheorems, TLAPS

-----------------------------------------------------------------------------
(* The winner findWinner takes from the back of the sorted options.        *)

\* i is the last of the positions 1..n with the largest count.
LastMaximum(c, n, i) ==
  /\ i \in 1..n
  /\ \A j \in 1..n : c[j] < c[i] \/ (c[j] = c[i] /\ j <= i)

\* One more position has a last maximum when the ones before it have one.
LEMMA LastMaximumStep ==
  ASSUME NEW n \in Nat, n >= 1, NEW c, \A j \in 1..(n + 1) : c[j] \in Nat,
         \E i \in 1..n : LastMaximum(c, n, i)
  PROVE  \E i \in 1..(n + 1) : LastMaximum(c, n + 1, i)
<1>1. PICK i \in 1..n : LastMaximum(c, n, i)
  OBVIOUS
<1>2. CASE c[n + 1] < c[i]
  <2>1. LastMaximum(c, n + 1, i)
    BY <1>1, <1>2 DEF LastMaximum
  <2>2. QED BY <2>1
<1>3. CASE ~(c[n + 1] < c[i])
  <2>1. c[i] \in Nat /\ c[n + 1] \in Nat
    OBVIOUS
  <2>2. ASSUME NEW j \in 1..(n + 1)
        PROVE c[j] < c[n + 1] \/ (c[j] = c[n + 1] /\ j <= n + 1)
    <3>1. CASE j = n + 1
      BY <3>1, <2>1
    <3>2. CASE j \in 1..n
      <4>1. c[j] <= c[i] /\ c[j] \in Nat
        BY <3>2, <1>1, <2>1 DEF LastMaximum
      <4>2. QED BY <4>1, <2>1, <1>3, <3>2
    <3>3. QED BY <3>1, <3>2
  <2>3. LastMaximum(c, n + 1, n + 1)
    BY <2>2 DEF LastMaximum
  <2>4. QED BY <2>3
<1>4. QED BY <1>2, <1>3

\* A ballot of one to five options has a last option with the most votes.
LEMMA LastMaximumExists ==
  ASSUME NEW n \in 1..5, NEW c, \A j \in 1..n : c[j] \in Nat
  PROVE  \E i \in 1..n : LastMaximum(c, n, i)
<1>1. \E i \in 1..1 : LastMaximum(c, 1, i)
  <2>1. c[1] \in Nat
    OBVIOUS
  <2>2. LastMaximum(c, 1, 1)
    BY <2>1 DEF LastMaximum
  <2>3. QED BY <2>2
<1>2. ASSUME n >= 2 PROVE \E i \in 1..2 : LastMaximum(c, 2, i)
  BY <1>1, <1>2, LastMaximumStep, 1 + 1 = 2
<1>3. ASSUME n >= 3 PROVE \E i \in 1..3 : LastMaximum(c, 3, i)
  BY <1>2, <1>3, LastMaximumStep, 2 + 1 = 3
<1>4. ASSUME n >= 4 PROVE \E i \in 1..4 : LastMaximum(c, 4, i)
  BY <1>3, <1>4, LastMaximumStep, 3 + 1 = 4
<1>5. ASSUME n >= 5 PROVE \E i \in 1..5 : LastMaximum(c, 5, i)
  BY <1>4, <1>5, LastMaximumStep, 4 + 1 = 5
<1>6. n = 1 \/ n = 2 \/ n = 3 \/ n = 4 \/ n = 5
  OBVIOUS
<1>7. QED BY <1>1, <1>2, <1>3, <1>4, <1>5, <1>6

\* The back of the sorted options is the last of those with the most votes:
\* exactly one option is preceded by all the others.
LEMMA BackOfSorted ==
  ASSUME NEW options, NEW n \in 1..5, Len(options) = n,
         \A i \in 1..n : options[i].Count \in Nat
  PROVE  \E i \in 1..n :
           /\ Sorted(options)[n] = options[i]
           /\ \A j \in 1..n : \/ options[j].Count < options[i].Count
                              \/ options[j].Count = options[i].Count /\ j <= i
<1> DEFINE c == [i \in 1..n |-> options[i].Count]
           S(i) == {j \in 1..n : SortsBefore(options, j, i)}
<1>1. PICK w \in 1..n : LastMaximum(c, n, w)
  <2>1. \A j \in 1..n : c[j] \in Nat
    OBVIOUS
  <2> HIDE DEF c
  <2>2. QED BY <2>1, LastMaximumExists
<1>2. \A i \in 1..n : c[i] = options[i].Count /\ c[i] \in Nat
  OBVIOUS
<1> HIDE DEF c
<1>3. \A j \in 1..n : c[j] < c[w] \/ (c[j] = c[w] /\ j <= w)
  BY <1>1 DEF LastMaximum
<1>4. IsFiniteSet(1..n) /\ Cardinality(1..n) = n
  <2>1. IsFiniteSet(1..n) /\ Cardinality(1..n) = IF 1 > n THEN 0 ELSE n - 1 + 1
    BY FS_Interval
  <2>2. QED BY <2>1
<1>5. \A i \in 1..n : /\ IsFiniteSet((1..n) \ {i})
                      /\ Cardinality((1..n) \ {i}) = n - 1
  BY <1>4, FS_RemoveElement
<1>6. S(w) = (1..n) \ {w}
  <2>1. ASSUME NEW j \in 1..n PROVE SortsBefore(options, j, w) <=> j # w
    BY <1>2, <1>3 DEF SortsBefore
  <2>2. QED BY <2>1
<1>7. SortRank(options, w) = n
  <2>1. Cardinality(S(w)) = n - 1
    BY <1>5, <1>6
  <2>2. SortRank(options, w) = Cardinality(S(w)) + 1
    BY DEF SortRank
  <2>3. QED BY <2>1, <2>2
<1>8. ASSUME NEW i \in 1..n, SortRank(options, i) = n PROVE i = w
  <2>1. S(i) \subseteq (1..n) \ {i}
    BY <1>2 DEF SortsBefore
  <2>2. Cardinality(S(i)) = n - 1
    <3>1. SortRank(options, i) = Cardinality(S(i)) + 1
      BY DEF SortRank
    <3>2. Cardinality(S(i)) \in Nat
      BY <2>1, <1>5, FS_Subset, FS_CardinalityType
    <3>3. QED BY <3>1, <3>2, <1>8
  <2>3. S(i) = (1..n) \ {i}
    <3>1. IsFiniteSet((1..n) \ {i}) /\ Cardinality((1..n) \ {i}) = Cardinality(S(i))
      BY <1>5, <2>2
    <3> HIDE DEF S
    <3>2. QED BY <3>1, <2>1, FS_Subset
  <2>4. i # w => SortsBefore(options, w, i)
    BY <2>3
  <2>5. SortsBefore(options, w, i) => FALSE
    BY <1>2, <1>3 DEF SortsBefore
  <2>6. QED BY <2>4, <2>5
<1>9. Sorted(options)[n] = options[w]
  <2>1. (CHOOSE i \in 1..n : SortRank(options, i) = n) = w
    BY <1>7, <1>8
  <2>2. Sorted(options)[n] = options[CHOOSE i \in 1..n : SortRank(options, i) = n]
    BY DEF Sorted
  <2>3. QED BY <2>1, <2>2
<1>10. QED BY <1>9, <1>3, <1>2

-----------------------------------------------------------------------------
(* The ballots.                                                            *)

\* A ballot that a vote can run on when revotes used so far are given.
BallotFor(options, used) ==
  /\ options \in Seq(BallotEntry)
  /\ Len(options) \in 1..5
  /\ \A i \in 1..Len(options) :
       /\ options[i].Count = 0 /\ options[i].index = i
       /\ options[i].isRevoteOption => used < NumberOfRevotesAllowed

\* A function on 1..n is a sequence of length n.
LEMMA FunctionIsSequence ==
  ASSUME NEW S, NEW n \in Nat, NEW f \in [1..n -> S]
  PROVE  f \in Seq(S) /\ Len(f) = n
OBVIOUS

LEMMA CandidatesType ==
  ASSUME haloMaps \subseteq Maps, gameTypes \subseteq GameTypes
  PROVE  Candidates \subseteq Option
BY DEF Candidates, Option, GameTypes

\* What StartVoting puts on the ballot: typed, uncounted, numbered in order, and
\* with Revote only while revotes are left.
LEMMA BallotOptionsType ==
  ASSUME haloMaps \subseteq Maps, gameTypes \subseteq GameTypes,
         NEW n \in 1..4, NEW b \in Ballots(n), NEW used \in Nat
  PROVE  BallotFor(BallotOptions(b, n, used), used)
<1> DEFINE options == BallotOptions(b, n, used)
           drawn == [i \in 1..n |-> [option |-> b[i], index |-> i,
                                     isRevoteOption |-> FALSE, Count |-> 0]]
           revote == [option |-> NoOption, index |-> n + 1,
                      isRevoteOption |-> TRUE, Count |-> 0]
<1>1. \A i \in 1..n : b[i] \in Option
  BY CandidatesType DEF Ballots
<1>2. /\ drawn \in Seq(BallotEntry) /\ Len(drawn) = n
      /\ \A i \in 1..n : /\ drawn[i].Count = 0 /\ drawn[i].index = i
                         /\ ~drawn[i].isRevoteOption
  <2>1. \A i \in 1..n : drawn[i] \in BallotEntry
    BY <1>1 DEF BallotEntry
  <2>2. QED BY <2>1
<1>3. /\ revote \in BallotEntry /\ revote.Count = 0 /\ revote.index = n + 1
  BY DEF BallotEntry
<1>4. options = IF used < NumberOfRevotesAllowed THEN Append(drawn, revote) ELSE drawn
  BY DEF BallotOptions
<1> HIDE DEF drawn, revote, options
<1> SUFFICES BallotFor(options, used)
  BY DEF options
<1>5. CASE used < NumberOfRevotesAllowed
  <2>1. options = Append(drawn, revote)
    BY <1>4, <1>5
  <2>2. options \in Seq(BallotEntry) /\ Len(options) = n + 1
    BY <2>1, <1>2, <1>3
  <2>3. \A i \in 1..n : options[i] = drawn[i]
    BY <2>1, <1>2
  <2>4. options[n + 1] = revote
    BY <2>1, <1>2
  <2>5. QED BY <2>2, <2>3, <2>4, <1>2, <1>3, <1>5 DEF BallotFor
<1>6. CASE ~(used < NumberOfRevotesAllowed)
  BY <1>4, <1>6, <1>2 DEF BallotFor
<1>7. QED BY <1>5, <1>6

LEMMA VotesForType ==
  ASSUME NEW votes, NEW i PROVE VotesFor(votes, i) \in Nat
<1>1. {m \in Names : votes[m] = i} \subseteq Names
  OBVIOUS
<1>2. IsFiniteSet({m \in Names : votes[m] = i})
  BY <1>1, NamesAssumption, FS_Subset
<1>3. QED BY <1>2, FS_CardinalityType DEF VotesFor

\* Setting the count of an entry changes nothing else of it.
LEMMA SetCount ==
  ASSUME NEW e \in BallotEntry, NEW n \in Nat
  PROVE  /\ [e EXCEPT !.Count = n] \in BallotEntry
         /\ [e EXCEPT !.Count = n].option = e.option
         /\ [e EXCEPT !.Count = n].isRevoteOption = e.isRevoteOption
         /\ [e EXCEPT !.Count = n].index = e.index
         /\ [e EXCEPT !.Count = n].Count = n
BY DEF BallotEntry

\* Counting votes changes nothing on a ballot but its counts.
LEMMA CountVotesType ==
  ASSUME NEW options \in Seq(BallotEntry), NEW votes
  PROVE  /\ CountVotes(options, votes) \in Seq(BallotEntry)
         /\ Len(CountVotes(options, votes)) = Len(options)
         /\ \A i \in 1..Len(options) :
              /\ CountVotes(options, votes)[i].option = options[i].option
              /\ CountVotes(options, votes)[i].isRevoteOption = options[i].isRevoteOption
              /\ CountVotes(options, votes)[i].index = options[i].index
              /\ CountVotes(options, votes)[i].Count =
                   options[i].Count + VotesFor(votes, i)
<1> DEFINE tally(i) == VotesFor(votes, i)
           counted == [i \in 1..Len(options) |-> [options[i] EXCEPT !.Count = @ + tally(i)]]
<1>1. \A i \in 1..Len(options) : tally(i) \in Nat
  BY VotesForType
<1>2. CountVotes(options, votes) = counted
  BY DEF CountVotes
<1>3. \A i \in 1..Len(options) : options[i] \in BallotEntry
  OBVIOUS
<1> HIDE DEF tally
<1>4. \A i \in 1..Len(options) :
        /\ counted[i] \in BallotEntry
        /\ counted[i].option = options[i].option
        /\ counted[i].isRevoteOption = options[i].isRevoteOption
        /\ counted[i].index = options[i].index
        /\ counted[i].Count = options[i].Count + tally(i)
  <2> TAKE i \in 1..Len(options)
  <2>1. counted[i] = [options[i] EXCEPT !.Count = options[i].Count + tally(i)]
    OBVIOUS
  <2>2. options[i] \in BallotEntry /\ tally(i) \in Nat
    BY <1>1, <1>3
  <2> HIDE DEF counted
  <2>3. options[i].Count + tally(i) \in Nat
    BY <2>2 DEF BallotEntry
  <2>4. QED BY <2>1, <2>2, <2>3, SetCount
<1>5. counted \in Seq(BallotEntry) /\ Len(counted) = Len(options)
  <2>1. counted \in [1..Len(options) -> BallotEntry]
    BY <1>4
  <2>2. Len(options) \in Nat
    OBVIOUS
  <2> HIDE DEF counted
  <2>3. QED BY <2>1, <2>2, FunctionIsSequence
<1>6. QED BY <1>2, <1>4, <1>5 DEF tally

\* Broadcasting the tally leaves a clean ballot as it was.
LEMMA TallyBroadcastType ==
  ASSUME NEW options \in Seq(BallotEntry), NEW votes
  PROVE  /\ TallyBroadcast(options, votes) \in Seq(BallotEntry)
         /\ Len(TallyBroadcast(options, votes)) = Len(options)
         /\ \A i \in 1..Len(options) :
              /\ TallyBroadcast(options, votes)[i].option = options[i].option
              /\ TallyBroadcast(options, votes)[i].isRevoteOption = options[i].isRevoteOption
              /\ TallyBroadcast(options, votes)[i].index = options[i].index
              /\ TallyBroadcast(options, votes)[i].Count = 0
<1> DEFINE counted == CountVotes(options, votes)
           back == [i \in 1..Len(options) |-> [counted[i] EXCEPT !.Count = 0]]
<1>1. TallyBroadcast(options, votes) = back
  BY DEF TallyBroadcast
<1>2. /\ counted \in Seq(BallotEntry) /\ Len(counted) = Len(options)
      /\ \A i \in 1..Len(options) :
           /\ counted[i].option = options[i].option
           /\ counted[i].isRevoteOption = options[i].isRevoteOption
           /\ counted[i].index = options[i].index
  BY CountVotesType
<1> HIDE DEF counted
<1>3. \A i \in 1..Len(options) :
        /\ back[i] \in BallotEntry /\ back[i].Count = 0
        /\ back[i].option = options[i].option
        /\ back[i].isRevoteOption = options[i].isRevoteOption
        /\ back[i].index = options[i].index
  <2>1. \A i \in 1..Len(options) : counted[i] \in BallotEntry
    BY <1>2
  <2>2. QED BY <1>2, <2>1 DEF BallotEntry
<1>4. back \in Seq(BallotEntry) /\ Len(back) = Len(options)
  <2>1. back \in [1..Len(options) -> BallotEntry]
    BY <1>3
  <2>2. Len(options) \in Nat
    OBVIOUS
  <2> HIDE DEF back
  <2>3. QED BY <2>1, <2>2, FunctionIsSequence
<1>5. QED BY <1>1, <1>3, <1>4

\* The option findWinner takes is on the ballot, has the most votes, and is the
\* last of those that do.
LEMMA WinningOption ==
  ASSUME NEW options \in Seq(BallotEntry), Len(options) \in 1..5, NEW votes
  PROVE  LET counted == CountVotes(options, votes)
             sorted == Sorted(counted)
         IN /\ Len(sorted) = Len(options)
            /\ \E i \in 1..Len(options) :
                 /\ sorted[Len(sorted)] = counted[i]
                 /\ \A j \in 1..Len(options) :
                      \/ counted[j].Count < counted[i].Count
                      \/ counted[j].Count = counted[i].Count /\ j <= i
<1> DEFINE counted == CountVotes(options, votes)
           n == Len(options)
<1>1. counted \in Seq(BallotEntry) /\ Len(counted) = n
  BY CountVotesType
<1> HIDE DEF counted
<1>2. \A i \in 1..n : counted[i].Count \in Nat
  <2>1. \A i \in 1..n : counted[i] \in BallotEntry
    BY <1>1
  <2>2. QED BY <2>1 DEF BallotEntry
<1>3. Len(Sorted(counted)) = n
  BY <1>1 DEF Sorted
<1>4. \E i \in 1..n :
        /\ Sorted(counted)[n] = counted[i]
        /\ \A j \in 1..n : \/ counted[j].Count < counted[i].Count
                           \/ counted[j].Count = counted[i].Count /\ j <= i
  BY <1>1, <1>2, BackOfSorted
<1>5. QED BY <1>3, <1>4 DEF counted

-----------------------------------------------------------------------------
(* The inductive invariant.                                                *)

\* StartVoting opens a vote on a fresh ballot, or stops the thread.
LEMMA StartVotingStep ==
  ASSUME TypeOK, NEW used \in Nat, StartVoting(used)
  PROVE  \/ /\ voteElapsed' = 0 /\ gameThread' = gameThread
            /\ BallotFor(currentVotingOptions', used)
         \/ /\ voteElapsed' = voteElapsed
            /\ currentVotingOptions' = currentVotingOptions
            /\ gameThread' \in {"crashed", "hung"}
<1>1. haloMaps \subseteq Maps /\ gameTypes \subseteq GameTypes /\ numOptions \in 1..4
  BY OptionsAssumption DEF TypeOK
<1>2. CASE \E b \in Ballots(numOptions) :
             /\ currentVotingOptions' = BallotOptions(b, numOptions, used)
             /\ voteElapsed' = 0 /\ gameThread' = gameThread
  <2>1. PICK b \in Ballots(numOptions) :
             /\ currentVotingOptions' = BallotOptions(b, numOptions, used)
             /\ voteElapsed' = 0 /\ gameThread' = gameThread
    BY <1>2
  <2>2. BallotFor(currentVotingOptions', used)
    <3>1. BallotFor(BallotOptions(b, numOptions, used), used)
      BY <1>1, BallotOptionsType
    <3>2. QED BY <2>1, <3>1
  <2>3. QED BY <2>1, <2>2
<1>3. CASE /\ gameThread' = IF DrawMayCrash THEN "crashed" ELSE "hung"
           /\ UNCHANGED <<currentVotingOptions, voteElapsed>>
  BY <1>3
<1>4. QED BY <1>2, <1>3 DEF StartVoting

\* Reset leaves nothing of a vote, whatever else the handler does.
LEMMA ResetStep ==
  ASSUME VotingInv, Reset,
         hosting' \in BOOLEAN, menuLoaded' \in BOOLEAN, infoSocketOpen' \in BOOLEAN,
         lifecycle' \in {"None", "PreGame", "StartGame", "InGame", "Leaving"},
         mapName' \in {"mainmenu", "ingame"},
         players' \subseteq Players,
         startRequested' \in BOOLEAN, votingEnabled' \in BOOLEAN,
         haloMaps' \subseteq Maps, gameTypes' \subseteq GameTypes,
         idle' \in BOOLEAN,
         UNCHANGED <<numOptions, revoteFlag, currentVotingOptions, selected, gameThread>>
  PROVE  VotingInv'
BY RevotesAssumption, NamesAssumption
   DEF VotingInv, TypeOK, WinnerWaitsAlone, NoLingeringVotes, BallotIsClean, Reset,
       NoVotes, NoneCast

\* The initial states satisfy it.
LEMMA InitInv == Init => VotingInv
<1> SUFFICES ASSUME Init PROVE VotingInv
  OBVIOUS
<1>1. haloMaps \subseteq Maps /\ gameTypes \subseteq GameTypes
  BY JsonAssumption, MapsAssumption, TypesAssumption
     DEF Init, LoadVotingJson, GameTypes
<1>2. /\ hosting \in BOOLEAN /\ menuLoaded \in BOOLEAN /\ infoSocketOpen \in BOOLEAN
      /\ startRequested \in BOOLEAN /\ votingEnabled \in BOOLEAN
      /\ idle \in BOOLEAN /\ revoteFlag \in BOOLEAN
      /\ ~idle /\ voteElapsed = NotSet /\ winnerElapsed = NotSet
      /\ mapVotes = NoVotes /\ cast = NoneCast /\ numberOfRevotesUsed = 0
      /\ selected = NoOption /\ gameThread = "running"
      /\ lifecycle = "None" /\ mapName = "mainmenu" /\ players = {}
      /\ numOptions \in OptionCounts
  BY Zenon DEF Init
<1>3. QED
  BY <1>1, <1>2, RevotesAssumption, NamesAssumption
     DEF VotingInv, TypeOK, WinnerWaitsAlone, NoLingeringVotes, BallotIsClean,
         NoVotes, NoneCast

\* A step that leaves the vote itself alone preserves it.
LEMMA SameVoteStep ==
  ASSUME VotingInv,
         UNCHANGED <<voteVars, currentVotingOptions, selected, idle, revoteFlag,
                     poolVars>>,
         hosting' \in BOOLEAN, menuLoaded' \in BOOLEAN, infoSocketOpen' \in BOOLEAN,
         lifecycle' \in {"None", "PreGame", "StartGame", "InGame", "Leaving"},
         mapName' \in {"mainmenu", "ingame"},
         players' \subseteq Players,
         startRequested' \in BOOLEAN, votingEnabled' \in BOOLEAN,
         numOptions' \in OptionCounts,
         gameThread' \in {"running", "hung", "crashed"}
  PROVE  VotingInv'
BY DEF VotingInv, TypeOK, WinnerWaitsAlone, NoLingeringVotes, BallotIsClean, voteVars, poolVars

\* The pool that LoadVotingJson and loadDefaultMapsAndTypes leave behind.
LEMMA LoadPoolStep ==
  ASSUME NEW doc \in VotingJsons, LoadPool(doc)
  PROVE  haloMaps' \subseteq Maps /\ gameTypes' \subseteq GameTypes
BY JsonAssumption, MapsAssumption, TypesAssumption DEF LoadPool, LoadVotingJson, GameTypes

LEMMA SameVote ==
  ASSUME VotingInv, UNCHANGED vars
  PROVE  VotingInv'
BY DEF VotingInv, TypeOK, WinnerWaitsAlone, NoLingeringVotes, BallotIsClean, vars,
       engineVars, configVars, voteVars, poolVars

\* The pieces of a step in which StartVoting runs: whatever votes and winner the
\* handler leaves, it leaves no winner, and no revote used up unless it is the
\* pending revote that is started.
LEMMA OpenStep ==
  ASSUME VotingInv, NEW used \in Nat, StartVoting(used),
         used <= numberOfRevotesUsed,
         numberOfRevotesUsed' = used, winnerElapsed' = NotSet,
         mapVotes' = NoVotes \/ mapVotes' = mapVotes,
         cast' = NoneCast \/ cast' = cast,
         ~idle',
         revoteFlag' = FALSE \/ (revoteFlag' = revoteFlag /\ used = 0),
         idle' \in BOOLEAN,
         hosting' \in BOOLEAN, menuLoaded' \in BOOLEAN, infoSocketOpen' \in BOOLEAN,
         lifecycle' \in {"None", "PreGame", "StartGame", "InGame", "Leaving"},
         startRequested' \in BOOLEAN,
         UNCHANGED <<mapName, players, votingEnabled, numOptions, poolVars, selected>>
  PROVE  VotingInv'
<1>1. TypeOK
  BY DEF VotingInv
<1>2. /\ mapVotes' \in [Names -> {NoVote} \cup Votes]
      /\ cast' \in [Players -> {NoVote} \cup Votes]
  BY <1>1 DEF TypeOK, NoVotes, NoneCast
<1>3. 0 \in 0..MapVotingTime /\ NotSet # 0
  BY TimesAssumption DEF NotSet
<1>4. revoteFlag' \in BOOLEAN
  BY <1>1 DEF TypeOK
<1>5. CASE /\ voteElapsed' = 0 /\ gameThread' = gameThread
           /\ BallotFor(currentVotingOptions', used)
  <2>1. TypeOK'
    BY <1>1, <1>2, <1>3, <1>4, <1>5 DEF TypeOK, BallotFor, poolVars
  <2>2. numberOfRevotesUsed' <= NumberOfRevotesAllowed
    BY RevotesAssumption, <1>1 DEF VotingInv, TypeOK
  <2>3. QED
    BY <2>1, <2>2, <1>3, <1>5
       DEF VotingInv, WinnerWaitsAlone, NoLingeringVotes, BallotIsClean, BallotFor
<1>6. CASE /\ voteElapsed' = voteElapsed
           /\ currentVotingOptions' = currentVotingOptions
           /\ gameThread' \in {"crashed", "hung"}
  <2>1. TypeOK'
    BY <1>1, <1>2, <1>4, <1>6 DEF TypeOK, poolVars
  <2>2. numberOfRevotesUsed' <= NumberOfRevotesAllowed
    BY RevotesAssumption, <1>1 DEF VotingInv, TypeOK
  <2>3. NoLingeringVotes'
    BY <1>6 DEF VotingInv, NoLingeringVotes, NoVotes
  <2>4. BallotIsClean'
    BY <1>6 DEF VotingInv, BallotIsClean
  <2>5. voteElapsed' # NotSet =>
          /\ Len(currentVotingOptions') \in 1..5
          /\ \A i \in 1..Len(currentVotingOptions') :
               currentVotingOptions'[i].isRevoteOption =>
                 numberOfRevotesUsed' < NumberOfRevotesAllowed
    BY <1>6, <1>1, RevotesAssumption DEF VotingInv, TypeOK
  <2>6. revoteFlag' /\ voteElapsed' # NotSet => numberOfRevotesUsed' = 0
    OBVIOUS
  <2>7. QED
    BY <2>1, <2>2, <2>3, <2>4, <2>5, <2>6 DEF VotingInv, WinnerWaitsAlone
<1>7. QED BY <1>1, <1>5, <1>6, StartVotingStep

\* StartNewVote, inside an engine callback that may change the session.
LEMMA StartNewVoteStep ==
  ASSUME VotingInv, NEW est, StartNewVote(est),
         hosting' \in BOOLEAN, menuLoaded' \in BOOLEAN, infoSocketOpen' \in BOOLEAN,
         lifecycle' \in {"None", "PreGame", "StartGame", "InGame", "Leaving"},
         UNCHANGED <<mapName, players, startRequested, configVars, poolVars, idle,
                     revoteFlag, selected>>
  PROVE  VotingInv'
<1> USE DEF configVars, poolVars
<1>1. TypeOK
  BY DEF VotingInv
<1>2. /\ startRequested' \in BOOLEAN /\ votingEnabled' \in BOOLEAN /\ idle' \in BOOLEAN
      /\ mapName' \in {"mainmenu", "ingame"} /\ players' \subseteq Players
      /\ haloMaps' \subseteq Maps /\ gameTypes' \subseteq GameTypes
      /\ numOptions' \in OptionCounts
  BY <1>1 DEF TypeOK
<1>3. CASE ~(est /\ votingEnabled)
  <2>1. UNCHANGED <<voteVars, currentVotingOptions, gameThread>>
    BY <1>3 DEF StartNewVote
  <2>2. gameThread' \in {"running", "hung", "crashed"}
    BY <1>1, <2>1 DEF TypeOK
  <2>3. QED BY <1>2, <2>1, <2>2, SameVoteStep
<1>4. CASE (est /\ votingEnabled) /\ idle
  <2>1. Reset /\ UNCHANGED <<currentVotingOptions, gameThread>>
    BY <1>4 DEF StartNewVote
  <2>2. QED BY <1>2, <2>1, ResetStep
<1>5. CASE (est /\ votingEnabled) /\ ~idle
  <2>1. /\ numberOfRevotesUsed' = 0 /\ winnerElapsed' = NotSet
        /\ mapVotes' = NoVotes /\ cast' = NoneCast /\ StartVoting(0)
    BY <1>5 DEF StartNewVote
  <2>2. 0 <= numberOfRevotesUsed
    BY <1>1 DEF TypeOK
  <2>3. QED BY <1>2, <1>5, <2>1, <2>2, OpenStep
<1>6. QED BY <1>3, <1>4, <1>5

\* TickWakeUp: an idle host has no revote used up, so the vote it opens starts a
\* new series.
LEMMA TickWakeUpInv == ASSUME VotingInv, TickWakeUp PROVE VotingInv'
<1> USE DEF engineVars, configVars, poolVars
<1>1. TypeOK /\ numberOfRevotesUsed = 0 /\ winnerElapsed = NotSet /\ ~idle'
      /\ idle' \in BOOLEAN
  BY DEF VotingInv, TickWakeUp
<1>2. /\ hosting' \in BOOLEAN /\ menuLoaded' \in BOOLEAN /\ infoSocketOpen' \in BOOLEAN
      /\ lifecycle' \in {"None", "PreGame", "StartGame", "InGame", "Leaving"}
      /\ startRequested' \in BOOLEAN
      /\ UNCHANGED <<mapName, players, votingEnabled, numOptions, poolVars, selected,
                     revoteFlag>>
  BY <1>1 DEF TypeOK, TickWakeUp
<1>3. CASE mapName = "mainmenu"
  <2>1. /\ StartVoting(0) /\ numberOfRevotesUsed' = 0 /\ winnerElapsed' = NotSet
        /\ mapVotes' = mapVotes /\ cast' = cast
    BY <1>1, <1>3 DEF TickWakeUp
  <2>2. 0 \in Nat /\ 0 <= numberOfRevotesUsed
    BY <1>1
  <2>3. UNCHANGED <<mapName, players, votingEnabled, numOptions, poolVars, selected>>
    BY <1>2
  <2>4. revoteFlag' = FALSE \/ (revoteFlag' = revoteFlag /\ 0 = 0)
    BY <1>2
  <2> HIDE DEF poolVars
  <2>5. QED BY <1>1, <1>2, <2>1, <2>2, <2>3, <2>4, OpenStep, Zenon
<1>4. CASE mapName # "mainmenu"
  <2>1. UNCHANGED <<voteVars, currentVotingOptions, gameThread>>
    BY <1>4 DEF TickWakeUp
  <2>2. QED
    BY <1>1, <1>2, <2>1
       DEF VotingInv, TypeOK, WinnerWaitsAlone, NoLingeringVotes, BallotIsClean, voteVars
<1>5. QED BY <1>3, <1>4

\* findWinner closes the vote: Revote can only win while revotes are left.
LEMMA FindWinnerInv ==
  ASSUME VotingInv, voteElapsed # NotSet, ~revoteFlag, ~idle,
         FindWinner(numberOfRevotesUsed, mapVotes),
         startRequested' \in BOOLEAN,
         UNCHANGED <<engineVars, configVars, poolVars, idle, gameThread>>
  PROVE  VotingInv'
<1> USE DEF engineVars, configVars, poolVars
<1> DEFINE counted == CountVotes(currentVotingOptions, mapVotes)
           sorted == Sorted(counted)
           winning == sorted[Len(sorted)]
<1>1. /\ TypeOK /\ currentVotingOptions \in Seq(BallotEntry)
      /\ Len(currentVotingOptions) \in 1..5
      /\ winnerElapsed = NotSet
  BY DEF VotingInv, TypeOK, WinnerWaitsAlone
<1>2. PICK i \in 1..Len(currentVotingOptions) : winning = counted[i]
  BY <1>1, WinningOption
<1>3. /\ winning.option = currentVotingOptions[i].option
      /\ winning.isRevoteOption = currentVotingOptions[i].isRevoteOption
  <2>1. /\ counted[i].option = currentVotingOptions[i].option
        /\ counted[i].isRevoteOption = currentVotingOptions[i].isRevoteOption
    BY <1>1, CountVotesType
  <2> HIDE DEF winning, counted
  <2>2. QED BY <1>2, <2>1
<1>4. currentVotingOptions[i] \in BallotEntry
  BY <1>1
<1>5. /\ voteElapsed' = NotSet /\ mapVotes' = NoVotes /\ cast' = NoneCast
      /\ IF winning.isRevoteOption
           THEN /\ numberOfRevotesUsed' = numberOfRevotesUsed + 1
                /\ revoteFlag' = TRUE
                /\ UNCHANGED <<winnerElapsed, selected>>
           ELSE /\ selected' = winning.option
                /\ winnerElapsed' = 0
                /\ numberOfRevotesUsed' = numberOfRevotesUsed
                /\ UNCHANGED revoteFlag
  BY DEF FindWinner
<1> HIDE DEF winning
<1>6. 0 \in 0..(TimeBetweenVoteEndAndGameStart + 1)
  BY TimesAssumption
<1>7. CASE winning.isRevoteOption
  <2>1. numberOfRevotesUsed < NumberOfRevotesAllowed
    BY <1>3, <1>7 DEF VotingInv
  <2>2. revoteFlag' \in BOOLEAN
    BY <1>5, <1>7
  <2>3. QED
    BY <1>1, <1>5, <1>7, <2>1, <2>2, RevotesAssumption
       DEF VotingInv, TypeOK, WinnerWaitsAlone, NoLingeringVotes, BallotIsClean,
           NoVotes, NoneCast
<1>8. CASE ~winning.isRevoteOption
  <2>1. selected' \in Option \cup {NoOption}
    BY <1>3, <1>4, <1>5, <1>8 DEF BallotEntry
  <2>2. QED
    BY <1>1, <1>5, <1>6, <1>8, <2>1, RevotesAssumption
       DEF VotingInv, TypeOK, WinnerWaitsAlone, NoLingeringVotes, BallotIsClean,
           NoVotes, NoneCast
<1>9. QED BY <1>7, <1>8

\* TickVote: a winner that is due waits alone, so its Reset is all that happens;
\* a pending revote is opened; a vote whose time is over is decided.
LEMMA TickVoteInv == ASSUME VotingInv, TickVote PROVE VotingInv'
<1> USE DEF engineVars, configVars, poolVars
<1> DEFINE due == /\ winnerElapsed # NotSet
                  /\ winnerElapsed > TimeBetweenVoteEndAndGameStart
           over == voteElapsed # NotSet /\ voteElapsed >= MapVotingTime
<1>1. /\ TypeOK /\ ~idle /\ UNCHANGED <<engineVars, configVars, poolVars, idle>>
      /\ startRequested' \in BOOLEAN
  BY DEF VotingInv, TypeOK, TickVote
<1>2. CASE due
  <2>1. ~revoteFlag /\ voteElapsed = NotSet
    BY <1>2 DEF VotingInv, WinnerWaitsAlone
  <2>2. Reset /\ UNCHANGED <<revoteFlag, currentVotingOptions, selected, gameThread>>
    BY <1>2, <2>1 DEF TickVote, Reset
  <2>3. /\ hosting' \in BOOLEAN /\ menuLoaded' \in BOOLEAN /\ infoSocketOpen' \in BOOLEAN
        /\ lifecycle' \in {"None", "PreGame", "StartGame", "InGame", "Leaving"}
        /\ mapName' \in {"mainmenu", "ingame"} /\ players' \subseteq Players
        /\ votingEnabled' \in BOOLEAN /\ idle' \in BOOLEAN
        /\ haloMaps' \subseteq Maps /\ gameTypes' \subseteq GameTypes
        /\ UNCHANGED <<numOptions, revoteFlag, currentVotingOptions, selected, gameThread>>
    BY <1>1, <2>2 DEF TypeOK
  <2>4. QED BY <1>1, <2>2, <2>3, ResetStep
<1>3. CASE ~due /\ revoteFlag
  <2>1. winnerElapsed = NotSet
    BY <1>3 DEF VotingInv, WinnerWaitsAlone
  <2>2. /\ StartVoting(numberOfRevotesUsed) /\ revoteFlag' = FALSE
        /\ numberOfRevotesUsed' = numberOfRevotesUsed /\ winnerElapsed' = NotSet
        /\ mapVotes' = mapVotes /\ cast' = cast
        /\ UNCHANGED selected
    BY <1>3, <2>1 DEF TickVote
  <2>3. numberOfRevotesUsed \in Nat /\ numberOfRevotesUsed <= numberOfRevotesUsed
    BY <1>1 DEF TypeOK
  <2>4. /\ hosting' \in BOOLEAN /\ menuLoaded' \in BOOLEAN /\ infoSocketOpen' \in BOOLEAN
        /\ lifecycle' \in {"None", "PreGame", "StartGame", "InGame", "Leaving"}
        /\ ~idle' /\ idle' \in BOOLEAN
        /\ UNCHANGED <<mapName, players, votingEnabled, numOptions, poolVars, selected>>
    BY <1>1, <2>2 DEF TypeOK
  <2> HIDE DEF poolVars
  <2>5. QED BY <1>1, <2>2, <2>3, <2>4, OpenStep, Zenon
<1>4. CASE ~due /\ ~revoteFlag /\ over
  <2>1. FindWinner(numberOfRevotesUsed, mapVotes) /\ UNCHANGED gameThread
    BY <1>4 DEF TickVote
  <2>2. QED BY <1>1, <1>4, <2>1, FindWinnerInv
<1>5. CASE ~due /\ ~revoteFlag /\ ~over
  <2>1. UNCHANGED <<voteVars, revoteFlag, currentVotingOptions, selected, gameThread>>
    BY <1>5 DEF TickVote, voteVars
  <2>2. QED
    BY <1>1, <2>1
       DEF VotingInv, TypeOK, WinnerWaitsAlone, NoLingeringVotes, BallotIsClean, voteVars
<1>6. QED BY <1>2, <1>3, <1>4, <1>5

\* LogVote: the vote is recorded during a vote, and the tally is taken off the
\* ballot again.
LEMMA LogVoteInv ==
  ASSUME VotingInv, NEW p \in Players, NEW vote \in Votes, LogVote(p, vote)
  PROVE  VotingInv'
<1> USE DEF engineVars, configVars, poolVars
<1>1. /\ TypeOK /\ voteElapsed # NotSet /\ currentVotingOptions \in Seq(BallotEntry)
      /\ currentVotingOptions' = TallyBroadcast(currentVotingOptions, mapVotes')
  BY DEF VotingInv, TypeOK, LogVote
<1>2. BallotFor(currentVotingOptions', numberOfRevotesUsed)
  <2>1. /\ currentVotingOptions' \in Seq(BallotEntry)
        /\ Len(currentVotingOptions') = Len(currentVotingOptions)
        /\ \A i \in 1..Len(currentVotingOptions) :
             /\ currentVotingOptions'[i].isRevoteOption =
                  currentVotingOptions[i].isRevoteOption
             /\ currentVotingOptions'[i].index = currentVotingOptions[i].index
             /\ currentVotingOptions'[i].Count = 0
    <3>1. \A v : /\ TallyBroadcast(currentVotingOptions, v) \in Seq(BallotEntry)
                 /\ Len(TallyBroadcast(currentVotingOptions, v)) =
                      Len(currentVotingOptions)
                 /\ \A i \in 1..Len(currentVotingOptions) :
                      /\ TallyBroadcast(currentVotingOptions, v)[i].isRevoteOption =
                           currentVotingOptions[i].isRevoteOption
                      /\ TallyBroadcast(currentVotingOptions, v)[i].index =
                           currentVotingOptions[i].index
                      /\ TallyBroadcast(currentVotingOptions, v)[i].Count = 0
      BY <1>1, TallyBroadcastType
    <3>2. QED BY <1>1, <3>1
  <2>2. QED BY <1>1, <2>1 DEF VotingInv, BallotIsClean, BallotFor
<1>3. /\ mapVotes' \in [Names -> {NoVote} \cup Votes]
      /\ cast' \in [Players -> {NoVote} \cup Votes]
  BY <1>1, NamesAssumption DEF TypeOK, LogVote, RecordVote
<1>4. UNCHANGED <<engineVars, startRequested, configVars, poolVars, idle, revoteFlag,
                  voteElapsed, winnerElapsed, numberOfRevotesUsed, selected, gameThread>>
  BY DEF LogVote
<1>5. TypeOK'
  BY <1>1, <1>2, <1>3, <1>4 DEF TypeOK, BallotFor
<1>6. QED
  BY <1>1, <1>2, <1>4, <1>5
     DEF VotingInv, WinnerWaitsAlone, NoLingeringVotes, BallotIsClean, BallotFor

\* A second passing sets no time stamp and clears none.
LEMMA ClockInv == ASSUME VotingInv, Clock PROVE VotingInv'
<1> USE DEF engineVars, configVars, poolVars
<1>1. ASSUME NEW bound \in Nat, NEW t \in {NotSet} \cup 0..bound
      PROVE  /\ Elapse(t, bound) \in {NotSet} \cup 0..bound
             /\ Elapse(t, bound) = NotSet <=> t = NotSet
  BY DEF Elapse, NotSet
<1>2. /\ voteElapsed' \in {NotSet} \cup 0..MapVotingTime
      /\ winnerElapsed' \in {NotSet} \cup 0..(TimeBetweenVoteEndAndGameStart + 1)
      /\ voteElapsed' = NotSet <=> voteElapsed = NotSet
      /\ winnerElapsed' = NotSet <=> winnerElapsed = NotSet
  <2>1. MapVotingTime \in Nat /\ TimeBetweenVoteEndAndGameStart + 1 \in Nat
    BY TimesAssumption
  <2> QED BY <1>1, <2>1 DEF VotingInv, TypeOK, Clock
<1>3. UNCHANGED <<engineVars, startRequested, configVars, poolVars, idle, revoteFlag,
                  numberOfRevotesUsed, mapVotes, cast, currentVotingOptions, selected,
                  gameThread>>
  BY DEF Clock
<1>4. QED
  BY <1>2, <1>3 DEF VotingInv, TypeOK, WinnerWaitsAlone, NoLingeringVotes, BallotIsClean

\* The operator's commands: all but one end in Reset.
LEMMA OperatorInv == ASSUME VotingInv, Operator PROVE VotingInv'
<1> USE DEF engineVars, configVars, poolVars
<1>1. TypeOK
  BY DEF VotingInv
<1>2. CASE CancelVoteInProgress
  BY <1>1, <1>2, ResetStep DEF CancelVoteInProgress, TypeOK
<1>3. CASE Disable
  BY <1>1, <1>3, ResetStep DEF Disable, TypeOK
<1>4. ASSUME NEW doc \in VotingJsons, Enable(doc) PROVE VotingInv'
  <2>1. haloMaps' \subseteq Maps /\ gameTypes' \subseteq GameTypes
    BY <1>4, LoadPoolStep DEF Enable
  <2>2. QED BY <1>1, <1>4, <2>1, ResetStep DEF Enable, TypeOK
<1>5. ASSUME NEW n \in OptionCounts, SetNumberOfVotingOptions(n) PROVE VotingInv'
  BY <1>1, <1>5, SameVoteStep DEF SetNumberOfVotingOptions, TypeOK
<1>6. QED BY <1>2, <1>3, <1>4, <1>5 DEF Operator

\* The engine's events.
LEMMA EngineInv == ASSUME VotingInv, Engine PROVE VotingInv'
<1> USE DEF engineVars, configVars, poolVars
<1>1. TypeOK
  BY DEF VotingInv
<1>2. ASSUME NEW online \in BOOLEAN, NEW est \in BOOLEAN, NEW bound \in BOOLEAN,
             CreateSession(online, est, bound)
      PROVE  VotingInv'
  <2>1. /\ hosting' \in BOOLEAN /\ menuLoaded' \in BOOLEAN /\ infoSocketOpen' \in BOOLEAN
        /\ lifecycle' \in {"None", "PreGame", "StartGame", "InGame", "Leaving"}
        /\ UNCHANGED <<mapName, players, startRequested, configVars, poolVars, idle,
                       revoteFlag, selected>>
    BY <1>1, <1>2 DEF CreateSession, TypeOK
  <2>2. CASE online /\ ~infoSocketOpen
    <3>1. StartNewVote(est)
      BY <1>2, <2>2 DEF CreateSession
    <3>2. QED BY <2>1, <3>1, StartNewVoteStep
  <2>3. CASE ~(online /\ ~infoSocketOpen)
    <3>1. UNCHANGED <<voteVars, currentVotingOptions, gameThread>>
      BY <1>2, <2>3 DEF CreateSession
    <3>2. QED BY <1>1, <2>1, <3>1, SameVoteStep DEF TypeOK
  <2>4. QED BY <2>2, <2>3
<1>3. CASE LeaveSession
  BY <1>1, <1>3, SameVoteStep DEF LeaveSession, TypeOK
<1>4. CASE SessionGone
  BY <1>1, <1>4, ResetStep DEF SessionGone, TypeOK
<1>5. CASE StartGame
  BY <1>1, <1>5, ResetStep DEF StartGame, TypeOK
<1>6. CASE GameRuns
  BY <1>1, <1>6, SameVoteStep DEF GameRuns, TypeOK
<1>7. CASE GameEnds
  BY <1>1, <1>7, SameVoteStep DEF GameEnds, TypeOK
<1>8. CASE MapLoaded
  <2>1. /\ hosting' \in BOOLEAN /\ menuLoaded' \in BOOLEAN /\ infoSocketOpen' \in BOOLEAN
        /\ lifecycle' \in {"None", "PreGame", "StartGame", "InGame", "Leaving"}
        /\ UNCHANGED <<mapName, players, startRequested, configVars, poolVars, idle,
                       revoteFlag, selected>>
    BY <1>1, <1>8 DEF MapLoaded, TypeOK
  <2>2. CASE infoSocketOpen
    <3>1. StartNewVote(hosting)
      BY <1>8, <2>2 DEF MapLoaded
    <3>2. QED BY <2>1, <3>1, StartNewVoteStep
  <2>3. CASE ~infoSocketOpen
    <3>1. UNCHANGED <<voteVars, currentVotingOptions, gameThread>>
      BY <1>8, <2>3 DEF MapLoaded
    <3>2. QED BY <1>1, <2>1, <3>1, SameVoteStep DEF TypeOK
  <2>4. QED BY <2>2, <2>3
<1>9. ASSUME NEW p \in Players, PlayerJoins(p) PROVE VotingInv'
  BY <1>1, <1>9, SameVoteStep DEF PlayerJoins, TypeOK
<1>10. ASSUME NEW p \in Players, PlayerLeaves(p) PROVE VotingInv'
  BY <1>1, <1>10, SameVoteStep DEF PlayerLeaves, TypeOK
<1>11. QED
  BY <1>2, <1>3, <1>4, <1>5, <1>6, <1>7, <1>8, <1>9, <1>10 DEF Engine

\* TickGoIdle forgets the vote of a session that has emptied.
LEMMA TickGoIdleInv == ASSUME VotingInv, TickGoIdle PROVE VotingInv'
<1>1. TypeOK
  BY DEF VotingInv
<1>2. QED
  BY <1>1, ResetStep DEF TickGoIdle, TypeOK, engineVars, configVars, poolVars

\* Every step of the host preserves the invariant.
LEMMA NextInv == ASSUME VotingInv, [Next]_vars PROVE VotingInv'
<1>1. CASE Tick
  BY <1>1, TickWakeUpInv, TickGoIdleInv, TickVoteInv DEF Tick
<1>2. ASSUME NEW p \in Players, NEW vote \in Votes, LogVote(p, vote) PROVE VotingInv'
  BY <1>2, LogVoteInv
<1>3. CASE Operator
  BY <1>3, OperatorInv
<1>4. CASE Engine
  BY <1>4, EngineInv
<1>5. CASE Clock
  BY <1>5, ClockInv
<1>6. CASE UNCHANGED vars
  BY <1>6, SameVote
<1>7. QED BY <1>1, <1>2, <1>3, <1>4, <1>5, <1>6 DEF Next

\* The inductive invariant holds in every reachable state of VotingSystem.cpp.
THEOREM VotingInvariant == Spec => []VotingInv
<1>1. Init => VotingInv
  BY InitInv
<1>2. VotingInv /\ [Next]_vars => VotingInv'
  BY NextInv
<1>3. QED BY <1>1, <1>2, PTL DEF Spec

\* The variables keep their types.
THEOREM VotingTypeCorrect == Spec => []TypeOK
<1>1. VotingInv => TypeOK
  BY DEF VotingInv
<1>2. QED BY <1>1, VotingInvariant, PTL

\* Tick never starts a game in the middle of a vote or with a revote pending.
THEOREM WinnerWaitsAloneAlways == Spec => []WinnerWaitsAlone
<1>1. VotingInv => WinnerWaitsAlone
  BY DEF VotingInv
<1>2. QED BY <1>1, VotingInvariant, PTL

\* A logged vote never survives the vote it was cast in.
THEOREM NoVoteLingers == Spec => []NoLingeringVotes
<1>1. VotingInv => NoLingeringVotes
  BY DEF VotingInv
<1>2. QED BY <1>1, VotingInvariant, PTL

\* countVotes always starts from zero counts, with option i at position i.
THEOREM BallotStaysClean == Spec => []BallotIsClean
<1>1. VotingInv => BallotIsClean
  BY DEF VotingInv
<1>2. QED BY <1>1, VotingInvariant, PTL

\* Revote wins at most NumberOfRevotesAllowed times in a row.
THEOREM RevotesStayBounded == Spec => []RevotesBounded
<1>1. VotingInv => RevotesBounded
  BY RevotesAssumption DEF VotingInv, TypeOK, RevotesBounded
<1>2. QED BY <1>1, VotingInvariant, PTL

-----------------------------------------------------------------------------
(* Every name has one vote.                                                *)

\* The votes of a host are logged, cleared together with what was cast, or left alone.
LEMMA VotesStep ==
  ASSUME [Next]_vars
  PROVE  \/ UNCHANGED <<mapVotes, cast>>
         \/ mapVotes' = NoVotes /\ cast' = NoneCast
         \/ \E p \in Players, vote \in Votes : LogVote(p, vote)
<1>1. ASSUME NEW est, StartNewVote(est)
      PROVE  UNCHANGED <<mapVotes, cast>> \/ (mapVotes' = NoVotes /\ cast' = NoneCast)
  BY <1>1 DEF StartNewVote, Reset, voteVars
<1>2. CASE TickVote
  BY <1>2 DEF TickVote, FindWinner
<1>3. CASE TickWakeUp \/ TickGoIdle
  BY <1>3 DEF TickWakeUp, TickGoIdle, Reset, voteVars
<1>4. CASE Operator
  BY <1>4 DEF Operator, CancelVoteInProgress, Enable, Disable, Reset,
              SetNumberOfVotingOptions, voteVars
<1>5. CASE Clock
  BY <1>5 DEF Clock
<1>6. CASE UNCHANGED vars
  BY <1>6 DEF vars, voteVars
<1>7. CASE Engine
  <2>1. ASSUME NEW online, NEW est, NEW bound, CreateSession(online, est, bound)
        PROVE  UNCHANGED <<mapVotes, cast>> \/ (mapVotes' = NoVotes /\ cast' = NoneCast)
    BY <1>1, <2>1 DEF CreateSession, voteVars
  <2>2. CASE MapLoaded
    BY <1>1, <2>2 DEF MapLoaded, voteVars
  <2>3. CASE LeaveSession \/ SessionGone \/ StartGame \/ GameRuns \/ GameEnds
    BY <2>3 DEF LeaveSession, SessionGone, StartGame, GameRuns, GameEnds, Reset, voteVars
  <2>4. ASSUME NEW p \in Players, PlayerJoins(p) \/ PlayerLeaves(p)
        PROVE  UNCHANGED <<mapVotes, cast>>
    BY <2>4 DEF PlayerJoins, PlayerLeaves, voteVars
  <2>5. QED BY <1>7, <2>1, <2>2, <2>3, <2>4 DEF Engine
<1>8. QED BY <1>2, <1>3, <1>4, <1>5, <1>6, <1>7 DEF Next, Tick

\* No two players have the same display name.
DistinctNames == \A p, q \in Players : NameOf[p] = NameOf[q] => p = q

\* A logged vote is the last vote of a player with its name, and a player who has
\* voted left a vote under the name.
LogByName ==
  /\ mapVotes \in [Names -> {NoVote} \cup Votes]
  /\ cast \in [Players -> {NoVote} \cup Votes]
  /\ \A n \in Names : mapVotes[n] # NoVote =>
       \E p \in Players : NameOf[p] = n /\ cast[p] = mapVotes[n]
  /\ \A p \in Players : cast[p] # NoVote => mapVotes[NameOf[p]] # NoVote

\* Clearing the log clears both.
LEMMA LogCleared ==
  ASSUME NEW votes, NEW casts, votes = NoVotes, casts = NoneCast
  PROVE  /\ votes \in [Names -> {NoVote} \cup Votes]
         /\ casts \in [Players -> {NoVote} \cup Votes]
         /\ \A n \in Names : votes[n] = NoVote
         /\ \A p \in Players : casts[p] = NoVote
BY DEF NoVotes, NoneCast

\* LogVote replaces the vote of one name by that of one of its players.
LEMMA LogByNameStep ==
  ASSUME LogByName, [Next]_vars
  PROVE  LogByName'
<1>1. CASE UNCHANGED <<mapVotes, cast>>
  BY <1>1 DEF LogByName
<1>2. CASE mapVotes' = NoVotes /\ cast' = NoneCast
  BY <1>2, LogCleared DEF LogByName
<1>3. ASSUME NEW p \in Players, NEW vote \in Votes, LogVote(p, vote) PROVE LogByName'
  <2>1. /\ mapVotes' = [mapVotes EXCEPT ![NameOf[p]] = vote]
        /\ cast' = [cast EXCEPT ![p] = vote]
    BY <1>3 DEF LogVote, RecordVote
  <2>2. NameOf[p] \in Names /\ \A q \in Players : NameOf[q] \in Names
    BY NamesAssumption
  <2>3. vote # NoVote
    BY VotesAssumption DEF NoVote
  <2>4. /\ mapVotes' \in [Names -> {NoVote} \cup Votes]
        /\ cast' \in [Players -> {NoVote} \cup Votes]
    BY <2>1 DEF LogByName
  <2>5. ASSUME NEW n \in Names, mapVotes'[n] # NoVote
        PROVE  \E q \in Players : NameOf[q] = n /\ cast'[q] = mapVotes'[n]
    <3>1. CASE n = NameOf[p]
      BY <2>1, <2>2, <3>1 DEF LogByName
    <3>2. CASE n # NameOf[p]
      <4>1. mapVotes'[n] = mapVotes[n]
        BY <2>1, <3>2 DEF LogByName
      <4>2. PICK q \in Players : NameOf[q] = n /\ cast[q] = mapVotes[n]
        BY <2>5, <4>1 DEF LogByName
      <4>3. cast'[q] = cast[q]
        BY <2>1, <3>2, <4>2 DEF LogByName
      <4> QED BY <4>1, <4>2, <4>3
    <3> QED BY <3>1, <3>2
  <2>6. \A q \in Players : cast'[q] # NoVote => mapVotes'[NameOf[q]] # NoVote
    BY <2>1, <2>2, <2>3 DEF LogByName
  <2> QED BY <2>4, <2>5, <2>6 DEF LogByName
<1> QED BY <1>1, <1>2, <1>3, VotesStep

\* Each display name has one vote, for what one of its players chose last; with names
\* that are shared as with names that are not (LogVote, mapVotes).
THEOREM OneVotePerNameAlways == Spec => []OneVotePerName
<1>1. Init => LogByName
  BY LogCleared DEF Init, LogByName
<1>2. LogByName /\ [Next]_vars => LogByName'
  BY LogByNameStep
<1>3. LogByName => OneVotePerName
  <2> SUFFICES ASSUME LogByName, NEW n \in Names
               PROVE  LET chosen == {cast[p] : p \in {q \in Players : NameOf[q] = n}} \ {NoVote}
                      IN IF chosen = {} THEN mapVotes[n] = NoVote ELSE mapVotes[n] \in chosen
    BY DEF OneVotePerName
  <2> DEFINE chosen == {cast[p] : p \in {q \in Players : NameOf[q] = n}} \ {NoVote}
  <2>1. mapVotes[n] # NoVote => mapVotes[n] \in chosen
    BY DEF LogByName
  <2>2. chosen # {} => mapVotes[n] # NoVote
    BY DEF LogByName
  <2> HIDE DEF chosen
  <2> QED BY <2>1, <2>2 DEF chosen
<1> QED BY <1>1, <1>2, <1>3, PTL DEF Spec

-----------------------------------------------------------------------------
(* When a draw fails.                                                      *)

\* A draw that fails has a pool without maps or with too few options.
LEMMA FailedDraw ==
  ASSUME VotingDuplicationLevel # 0, numOptions \in Nat \ {0},
         DrawMayCrash \/ DrawHangs(numOptions)
  PROVE  haloMaps = {} \/ Cardinality(Displayed) < numOptions
<1>1. CASE Candidates = {}
  BY <1>1, FS_EmptySet DEF Displayed
<1>2. CASE Candidates # {} /\ DrawMayCrash
  BY <1>2 DEF DrawMayCrash, Candidates
<1>3. CASE Candidates # {} /\ DrawHangs(numOptions)
  <2>1. PICK k \in 0..(numOptions - 1) : \E b \in Ballots(k) :
          \A o \in Candidates : \E i \in 1..k : SameOption(o, b[i])
    BY <1>3 DEF DrawHangs
  <2>2. PICK b \in Ballots(k) : \A o \in Candidates : \E i \in 1..k : SameOption(o, b[i])
    BY <2>1
  <2>3. b \in [1..k -> Candidates]
    BY DEF Ballots
  <2>4. VotingDuplicationLevel = 1
    BY <1>3, <2>2, LevelAssumption DEF SameOption
  <2> DEFINE f == [i \in 1..k |-> DisplayOf(b[i])]
  <2>5. f \in [1..k -> Displayed]
    BY <2>3 DEF Displayed
  <2>6. \A d \in Displayed : \E i \in 1..k : f[i] = d
    <3> TAKE d \in Displayed
    <3>1. PICK o \in Candidates : d = DisplayOf(o)
      BY DEF Displayed
    <3>2. PICK i \in 1..k : SameOption(o, b[i])
      BY <2>2
    <3>3. DisplayOf(b[i]) = DisplayOf(o)
      BY <2>4, <3>2 DEF SameOption, SameMap, SameType, DisplayOf
    <3> QED BY <3>1, <3>3
  <2> HIDE DEF f
  <2>7. f \in Surjection(1..k, Displayed)
    BY <2>5, <2>6 DEF Surjection
  <2>8. k \in Nat /\ k < numOptions
    OBVIOUS
  <2>9. Cardinality(Displayed) <= k
    BY <2>7, <2>8, FS_SurjCardinalityBound DEF ExistsSurjection
  <2>10. Cardinality(Displayed) \in Nat
    BY <2>7, <2>8, FS_Interval, FS_Surjection, FS_CardinalityType
  <2> QED BY <2>8, <2>9, <2>10
<1> QED BY <1>1, <1>2, <1>3

\* The game thread stops in a step that draws a ballot and in no other.
LEMMA ThreadStops ==
  ASSUME [Next]_vars, gameThread = "running", gameThread' # "running"
  PROVE  /\ DrawMayCrash \/ DrawHangs(numOptions)
         /\ UNCHANGED <<haloMaps, gameTypes, numOptions>>
<1>1. ASSUME NEW used, StartVoting(used) PROVE DrawMayCrash \/ DrawHangs(numOptions)
  BY <1>1 DEF StartVoting
<1>2. ASSUME NEW est, StartNewVote(est) PROVE DrawMayCrash \/ DrawHangs(numOptions)
  BY <1>1, <1>2 DEF StartNewVote
<1>3. CASE TickWakeUp
  BY <1>1, <1>3 DEF TickWakeUp, poolVars, configVars
<1>4. CASE TickVote
  <2>1. UNCHANGED <<haloMaps, gameTypes, numOptions>>
    BY <1>4 DEF TickVote, poolVars, configVars
  <2>2. \E used : StartVoting(used)
    BY <1>4 DEF TickVote
  <2>. QED BY <1>1, <2>1, <2>2
<1>5. CASE TickGoIdle
  BY <1>5 DEF TickGoIdle
<1>6. ASSUME NEW p \in Players, NEW vote \in Votes, LogVote(p, vote) PROVE FALSE
  BY <1>6 DEF LogVote
<1>7. CASE Operator
  BY <1>7 DEF Operator, CancelVoteInProgress, Enable, Disable, SetNumberOfVotingOptions
<1>8. CASE Clock
  BY <1>8 DEF Clock
<1>9. CASE UNCHANGED vars
  BY <1>9 DEF vars
<1>10. CASE Engine
  <2>1. ASSUME NEW online, NEW est, NEW bound, CreateSession(online, est, bound)
        PROVE  /\ DrawMayCrash \/ DrawHangs(numOptions)
               /\ UNCHANGED <<haloMaps, gameTypes, numOptions>>
    BY <1>2, <2>1 DEF CreateSession, poolVars, configVars
  <2>2. CASE MapLoaded
    BY <1>2, <2>2 DEF MapLoaded, poolVars, configVars
  <2>3. CASE LeaveSession \/ SessionGone \/ StartGame \/ GameRuns \/ GameEnds
    BY <2>3 DEF LeaveSession, SessionGone, StartGame, GameRuns, GameEnds
  <2>4. ASSUME NEW p \in Players, PlayerJoins(p) \/ PlayerLeaves(p) PROVE FALSE
    BY <2>4 DEF PlayerJoins, PlayerLeaves
  <2>. QED BY <1>10, <2>1, <2>2, <2>3, <2>4 DEF Engine
<1>. QED
  BY <1>3, <1>4, <1>5, <1>6, <1>7, <1>8, <1>9, <1>10 DEF Next, Tick

\* A stopped game thread takes no step at all.
LEMMA StoppedForGood ==
  ASSUME [Next]_vars, gameThread # "running" PROVE UNCHANGED vars
<1>1. ASSUME Next PROVE FALSE
  <2>1. ~Tick
    BY DEF Tick, TickWakeUp, TickGoIdle, TickVote, TickGate
  <2>2. \A p \in Players, vote \in Votes : ~LogVote(p, vote)
    BY DEF LogVote
  <2>3. ~Operator
    BY DEF Operator, CancelVoteInProgress, Enable, Disable, SetNumberOfVotingOptions
  <2>4. ~Clock
    BY DEF Clock
  <2>5. ~Engine
    BY DEF Engine, CreateSession, LeaveSession, SessionGone, StartGame, GameRuns,
           GameEnds, MapLoaded, PlayerJoins, PlayerLeaves
  <2>. QED BY <1>1, <2>1, <2>2, <2>3, <2>4, <2>5 DEF Next
<1>. QED BY <1>1

\* The drawing loop of StartVoting can only hang or divide by zero for a pool
\* without maps or with fewer options that look different than the ballot has places, unless
\* Server.VotingDuplicationLevel is 0.
THEOREM DrawFailsOnlyOnSmallPoolAlways == Spec => []DrawFailsOnlyOnSmallPool
<1>1. Init => DrawFailsOnlyOnSmallPool
  BY DEF Init, DrawFailsOnlyOnSmallPool
<1>2. VotingInv /\ DrawFailsOnlyOnSmallPool /\ [Next]_vars => DrawFailsOnlyOnSmallPool'
  <2>. SUFFICES ASSUME VotingInv, DrawFailsOnlyOnSmallPool, [Next]_vars,
                       VotingDuplicationLevel # 0, gameThread' # "running"
                PROVE  (haloMaps = {} \/ Cardinality(Displayed) < numOptions)'
    BY DEF DrawFailsOnlyOnSmallPool
  <2>1. CASE gameThread = "running"
    <3>1. /\ DrawMayCrash \/ DrawHangs(numOptions)
          /\ UNCHANGED <<haloMaps, gameTypes, numOptions>>
      BY <2>1, ThreadStops
    <3>2. numOptions \in Nat \ {0}
      BY OptionsAssumption DEF VotingInv, TypeOK
    <3>3. haloMaps = {} \/ Cardinality(Displayed) < numOptions
      BY <3>1, <3>2, FailedDraw
    <3>4. Displayed' = Displayed
      BY <3>1 DEF Displayed, Candidates
    <3>. QED BY <3>1, <3>3, <3>4
  <2>2. CASE gameThread # "running"
    <3>1. UNCHANGED <<haloMaps, gameTypes, numOptions>>
      BY <2>2, StoppedForGood DEF vars, poolVars, configVars
    <3>2. Displayed' = Displayed
      BY <3>1 DEF Displayed, Candidates
    <3>. QED BY <2>2, <3>1, <3>2 DEF DrawFailsOnlyOnSmallPool
  <2>. QED BY <2>1, <2>2
<1>. QED
  BY <1>1, <1>2, VotingInvariant, PTL DEF Spec

-----------------------------------------------------------------------------
(* The winner has the most votes.                                          *)

\* A winner appears in no step but the end of a vote.
LEMMA WinnerAppears ==
  ASSUME VotingInv, [Next]_vars, winnerElapsed = NotSet, winnerElapsed' # NotSet
  PROVE  /\ TickVote /\ voteElapsed # NotSet
         /\ FindWinner(numberOfRevotesUsed, mapVotes)
<1>1. ASSUME NEW est, StartNewVote(est) PROVE FALSE
  BY <1>1 DEF StartNewVote, Reset, voteVars
<1>2. CASE TickVote
  BY <1>2 DEF TickVote
<1>3. CASE TickWakeUp \/ TickGoIdle
  BY <1>3 DEF TickWakeUp, TickGoIdle, Reset, voteVars
<1>4. ASSUME NEW p \in Players, NEW vote \in Votes, LogVote(p, vote) PROVE FALSE
  BY <1>4 DEF LogVote
<1>5. CASE Operator
  BY <1>5 DEF Operator, CancelVoteInProgress, Enable, Disable, Reset,
              SetNumberOfVotingOptions, voteVars
<1>6. CASE Clock
  BY <1>6 DEF Clock, Elapse
<1>7. CASE UNCHANGED vars
  BY <1>7 DEF vars, voteVars
<1>8. CASE Engine
  <2>1. ASSUME NEW online, NEW est, NEW bound, CreateSession(online, est, bound)
        PROVE  FALSE
    BY <1>1, <2>1 DEF CreateSession, voteVars
  <2>2. CASE MapLoaded
    BY <1>1, <2>2 DEF MapLoaded, voteVars
  <2>3. CASE LeaveSession \/ SessionGone \/ StartGame \/ GameRuns \/ GameEnds
    BY <2>3 DEF LeaveSession, SessionGone, StartGame, GameRuns, GameEnds, Reset, voteVars
  <2>4. ASSUME NEW p \in Players, PlayerJoins(p) \/ PlayerLeaves(p) PROVE FALSE
    BY <2>4 DEF PlayerJoins, PlayerLeaves, voteVars
  <2>5. QED BY <1>8, <2>1, <2>2, <2>3, <2>4 DEF Engine
<1>9. QED BY <1>2, <1>3, <1>4, <1>5, <1>6, <1>7, <1>8 DEF Next, Tick

\* findWinner selects an option no other option has more votes than, and the
\* latter one among equals.
THEOREM WinnerHasMostVotesAlways == Spec => WinnerHasMostVotes
<1>1. ASSUME VotingInv, [Next]_vars, winnerElapsed = NotSet, winnerElapsed' # NotSet
      PROVE  \E i \in 1..Len(currentVotingOptions) :
               /\ selected' = currentVotingOptions[i].option
               /\ \A j \in 1..Len(currentVotingOptions) :
                    TallyOf(j) < TallyOf(i) \/ (TallyOf(j) = TallyOf(i) /\ j <= i)
  <2> DEFINE counted == CountVotes(currentVotingOptions, mapVotes)
             sorted == Sorted(counted)
             winning == sorted[Len(sorted)]
  <2>1. voteElapsed # NotSet /\ FindWinner(numberOfRevotesUsed, mapVotes)
    BY <1>1, WinnerAppears
  <2>2. selected' = winning.option
    BY <1>1, <2>1 DEF FindWinner
  <2>3. /\ currentVotingOptions \in Seq(BallotEntry)
        /\ Len(currentVotingOptions) \in 1..5
        /\ \A i \in 1..Len(currentVotingOptions) : currentVotingOptions[i].Count = 0
    BY <1>1, <2>1 DEF VotingInv, TypeOK, BallotIsClean
  <2>4. PICK i \in 1..Len(currentVotingOptions) :
          /\ winning = counted[i]
          /\ \A j \in 1..Len(currentVotingOptions) :
               \/ counted[j].Count < counted[i].Count
               \/ counted[j].Count = counted[i].Count /\ j <= i
    BY <2>3, WinningOption
  <2>5. \A j \in 1..Len(currentVotingOptions) :
          /\ counted[j].option = currentVotingOptions[j].option
          /\ counted[j].Count = TallyOf(j)
    <3> TAKE j \in 1..Len(currentVotingOptions)
    <3>1. /\ counted[j].option = currentVotingOptions[j].option
          /\ counted[j].Count = currentVotingOptions[j].Count + VotesFor(mapVotes, j)
      BY <2>3, CountVotesType
    <3>2. VotesFor(mapVotes, j) \in Nat
      BY VotesForType
    <3> HIDE DEF counted
    <3>3. QED BY <2>3, <3>1, <3>2 DEF TallyOf
  <2> HIDE DEF counted, winning
  <2>6. QED BY <2>2, <2>4, <2>5
<1>2. VotingInv /\ [Next]_vars =>
        [winnerElapsed = NotSet /\ winnerElapsed' # NotSet =>
           \E i \in 1..Len(currentVotingOptions) :
             /\ selected' = currentVotingOptions[i].option
             /\ \A j \in 1..Len(currentVotingOptions) :
                  TallyOf(j) < TallyOf(i) \/ (TallyOf(j) = TallyOf(i) /\ j <= i)]_vars
  BY <1>1
<1>3. QED BY <1>2, VotingInvariant, PTL DEF Spec, WinnerHasMostVotes

-----------------------------------------------------------------------------
(* The host implements the abstract map vote.                              *)

\* The phases, read off the state.
LEMMA PhaseCases ==
  /\ winnerElapsed # NotSet => Phase = "chosen"
  /\ winnerElapsed = NotSet /\ voteElapsed # NotSet => Phase = "voting"
  /\ winnerElapsed = NotSet /\ voteElapsed = NotSet =>
       /\ revoteFlag /\ numberOfRevotesUsed > 0 => Phase = "revote"
       /\ ~(revoteFlag /\ numberOfRevotesUsed > 0) => Phase = "none"
BY DEF Phase

LEMMA PhaseCasesNext ==
  /\ winnerElapsed' # NotSet => Phase' = "chosen"
  /\ winnerElapsed' = NotSet /\ voteElapsed' # NotSet => Phase' = "voting"
  /\ winnerElapsed' = NotSet /\ voteElapsed' = NotSet =>
       /\ revoteFlag' /\ numberOfRevotesUsed' > 0 => Phase' = "revote"
       /\ ~(revoteFlag' /\ numberOfRevotesUsed' > 0) => Phase' = "none"
BY DEF Phase

\* The revotes of the abstract vote.
Revotes == IF Phase = "none" THEN 0 ELSE numberOfRevotesUsed

\* The abstract step of a handler that ends in Reset.
LEMMA ResetCloses ==
  ASSUME VotingInv, Reset
  PROVE  /\ Phase' = "none" /\ Revotes' = 0
         /\ startRequested' = startRequested => Abstract!Close
         /\ startRequested' = FALSE => Abstract!Depart
<1>1. winnerElapsed' = NotSet /\ voteElapsed' = NotSet /\ numberOfRevotesUsed' = 0
  BY DEF Reset
<1>2. ~(numberOfRevotesUsed' > 0)
  BY <1>1
<1>3. Phase' = "none"
  BY <1>1, <1>2, PhaseCasesNext
<1>4. QED BY <1>3 DEF Revotes, Abstract!Close, Abstract!Depart

\* The abstract step of StartVoting: a new vote, a reopened one, or, when the
\* thread stops, none at all.
LEMMA OpenOpens ==
  ASSUME VotingInv, StartVoting(numberOfRevotesUsed'), numberOfRevotesUsed' \in Nat,
         winnerElapsed' = NotSet, startRequested' = startRequested,
         \/ numberOfRevotesUsed' = 0
         \/ /\ revoteFlag /\ voteElapsed = NotSet /\ winnerElapsed = NotSet
            /\ numberOfRevotesUsed' = numberOfRevotesUsed /\ ~revoteFlag'
  PROVE  Abstract!Next
<1>1. TypeOK
  BY DEF VotingInv
<1>2. \/ voteElapsed' = 0
      \/ voteElapsed' = voteElapsed
  BY <1>1, StartVotingStep
<1>3. NotSet # 0
  BY DEF NotSet
<1>4. CASE numberOfRevotesUsed' = 0
  <2>1. CASE voteElapsed' # NotSet
    <3>1. Phase' = "voting"
      BY <2>1, PhaseCasesNext
    <3>2. Abstract!Open
      BY <3>1, <1>4 DEF Abstract!Open
    <3>3. QED BY <3>2 DEF Abstract!Next
  <2>2. CASE voteElapsed' = NotSet
    <3>1. Phase' = "none"
      BY <2>2, <1>4, PhaseCasesNext
    <3>2. Abstract!Close
      BY <3>1 DEF Abstract!Close
    <3>3. QED BY <3>2 DEF Abstract!Next
  <2>3. QED BY <2>1, <2>2
<1>5. CASE /\ revoteFlag /\ voteElapsed = NotSet /\ winnerElapsed = NotSet
           /\ numberOfRevotesUsed' = numberOfRevotesUsed /\ ~revoteFlag'
           /\ numberOfRevotesUsed' # 0
  <2>1. Phase = "revote"
    BY <1>5, PhaseCases
  <2>2. CASE voteElapsed' = 0
    <3>1. Phase' = "voting"
      BY <2>2, <1>3, PhaseCasesNext
    <3>2. Abstract!Reopen
      BY <2>1, <3>1, <1>5 DEF Abstract!Reopen
    <3>3. QED BY <3>2 DEF Abstract!Next
  <2>3. CASE voteElapsed' = voteElapsed
    <3>1. Phase' = "none"
      BY <2>3, <1>5, PhaseCasesNext
    <3>2. Abstract!Close
      BY <3>1 DEF Abstract!Close
    <3>3. QED BY <3>2 DEF Abstract!Next
  <2>4. QED BY <1>2, <2>2, <2>3
<1>6. QED BY <1>4, <1>5

\* A step that leaves the vote's own variables alone is a stutter, unless the
\* engine's start or end of a session takes the request back.
LEMMA SamePhase ==
  ASSUME UNCHANGED <<winnerElapsed, voteElapsed, numberOfRevotesUsed, revoteFlag,
                     startRequested>>
  PROVE  UNCHANGED Abstract!vars
BY DEF Abstract!vars, Phase

LEMMA StartNewVoteImplements ==
  ASSUME VotingInv, NEW est, StartNewVote(est), UNCHANGED <<startRequested, revoteFlag>>
  PROVE  [Abstract!Next]_(Abstract!vars)
<1>1. CASE ~(est /\ votingEnabled)
  <2>1. UNCHANGED <<winnerElapsed, voteElapsed, numberOfRevotesUsed>>
    BY <1>1 DEF StartNewVote, voteVars
  <2>2. QED BY <2>1, SamePhase
<1>2. CASE (est /\ votingEnabled) /\ idle
  <2>1. Reset
    BY <1>2 DEF StartNewVote
  <2>2. QED BY <2>1, ResetCloses DEF Abstract!Next
<1>3. CASE (est /\ votingEnabled) /\ ~idle
  <2>1. /\ numberOfRevotesUsed' = 0 /\ winnerElapsed' = NotSet /\ StartVoting(0)
    BY <1>3 DEF StartNewVote
  <2>2. StartVoting(numberOfRevotesUsed') /\ numberOfRevotesUsed' \in Nat
    BY <2>1
  <2>3. QED BY <2>1, <2>2, OpenOpens
<1>4. QED BY <1>1, <1>2, <1>3

\* findWinner is the abstract vote's Revote or Choose.
LEMMA FindWinnerImplements ==
  ASSUME VotingInv, voteElapsed # NotSet,
         FindWinner(numberOfRevotesUsed, mapVotes),
         startRequested' = startRequested
  PROVE  Abstract!Next
<1> DEFINE counted == CountVotes(currentVotingOptions, mapVotes)
           sorted == Sorted(counted)
           winning == sorted[Len(sorted)]
<1>1. /\ TypeOK /\ currentVotingOptions \in Seq(BallotEntry)
      /\ Len(currentVotingOptions) \in 1..5
      /\ winnerElapsed = NotSet /\ numberOfRevotesUsed \in Nat
  BY DEF VotingInv, TypeOK, WinnerWaitsAlone
<1>2. PICK i \in 1..Len(currentVotingOptions) : winning = counted[i]
  BY <1>1, WinningOption
<1>3. winning.isRevoteOption = currentVotingOptions[i].isRevoteOption
  <2>1. counted[i].isRevoteOption = currentVotingOptions[i].isRevoteOption
    BY <1>1, CountVotesType
  <2> HIDE DEF winning, counted
  <2>2. QED BY <1>2, <2>1
<1>4. /\ voteElapsed' = NotSet
      /\ IF winning.isRevoteOption
           THEN /\ numberOfRevotesUsed' = numberOfRevotesUsed + 1
                /\ revoteFlag' = TRUE
                /\ winnerElapsed' = winnerElapsed
           ELSE /\ winnerElapsed' = 0
                /\ numberOfRevotesUsed' = numberOfRevotesUsed
  BY DEF FindWinner
<1> HIDE DEF winning
<1>5. Phase = "voting"
  BY <1>1, PhaseCases
<1>6. CASE winning.isRevoteOption
  <2>1. numberOfRevotesUsed < NumberOfRevotesAllowed
    BY <1>3, <1>6 DEF VotingInv
  <2>2. revoteFlag' /\ numberOfRevotesUsed' > 0
    BY <1>1, <1>4, <1>6
  <2>3. Phase' = "revote"
    BY <1>1, <1>4, <1>6, <2>2, PhaseCasesNext
  <2>4. Abstract!Revote
    BY <1>4, <1>5, <1>6, <2>1, <2>3 DEF Abstract!Revote
  <2>5. QED BY <2>4 DEF Abstract!Next
<1>7. CASE ~winning.isRevoteOption
  <2>1. winnerElapsed' # NotSet
    BY <1>4, <1>7 DEF NotSet
  <2>2. Phase' = "chosen"
    BY <2>1, PhaseCasesNext
  <2>3. Abstract!Choose
    BY <1>4, <1>5, <1>7, <2>2 DEF Abstract!Choose
  <2>4. QED BY <2>3 DEF Abstract!Next
<1>8. QED BY <1>6, <1>7

LEMMA TickVoteImplements ==
  ASSUME VotingInv, TickVote
  PROVE  [Abstract!Next]_(Abstract!vars)
<1> DEFINE due == /\ winnerElapsed # NotSet
                  /\ winnerElapsed > TimeBetweenVoteEndAndGameStart
           over == voteElapsed # NotSet /\ voteElapsed >= MapVotingTime
<1>1. TypeOK
  BY DEF VotingInv
<1>2. CASE due
  <2>1. ~revoteFlag /\ voteElapsed = NotSet
    BY <1>2 DEF VotingInv, WinnerWaitsAlone
  <2>2. Reset /\ startRequested' \in {TRUE, startRequested}
    BY <1>2, <2>1 DEF TickVote, Reset
  <2>3. Phase = "chosen"
    BY <1>2, PhaseCases
  <2>4. Abstract!Launch
    BY <2>2, <2>3, ResetCloses DEF Abstract!Launch
  <2>5. QED BY <2>4 DEF Abstract!Next
<1>3. CASE ~due /\ revoteFlag
  <2>1. winnerElapsed = NotSet
    BY <1>3 DEF VotingInv, WinnerWaitsAlone
  <2>2. /\ StartVoting(numberOfRevotesUsed) /\ ~revoteFlag'
        /\ numberOfRevotesUsed' = numberOfRevotesUsed /\ winnerElapsed' = NotSet
        /\ startRequested' = startRequested
    BY <1>3, <2>1 DEF TickVote
  <2>3. StartVoting(numberOfRevotesUsed') /\ numberOfRevotesUsed' \in Nat
    BY <1>1, <2>2 DEF TypeOK
  <2>4. voteElapsed # NotSet => numberOfRevotesUsed' = 0
    BY <1>3, <2>2 DEF VotingInv
  <2>5. QED BY <1>3, <2>1, <2>2, <2>3, <2>4, OpenOpens
<1>4. CASE ~due /\ ~revoteFlag /\ over
  <2>1. FindWinner(numberOfRevotesUsed, mapVotes) /\ startRequested' = startRequested
    BY <1>4 DEF TickVote
  <2>2. QED BY <1>4, <2>1, FindWinnerImplements
<1>5. CASE ~due /\ ~revoteFlag /\ ~over
  <2>1. UNCHANGED <<winnerElapsed, voteElapsed, numberOfRevotesUsed, revoteFlag,
                    startRequested>>
    BY <1>5 DEF TickVote
  <2>2. QED BY <2>1, SamePhase
<1>6. QED BY <1>2, <1>3, <1>4, <1>5

\* A second that passes changes no phase.
LEMMA ClockImplements ==
  ASSUME VotingInv, Clock
  PROVE  UNCHANGED Abstract!vars
<1>1. /\ voteElapsed' = NotSet <=> voteElapsed = NotSet
      /\ winnerElapsed' = NotSet <=> winnerElapsed = NotSet
  <2>1. ASSUME NEW bound \in Nat, NEW t \in {NotSet} \cup 0..bound
        PROVE  Elapse(t, bound) = NotSet <=> t = NotSet
    BY DEF Elapse, NotSet
  <2>2. MapVotingTime \in Nat /\ TimeBetweenVoteEndAndGameStart + 1 \in Nat
    BY TimesAssumption
  <2>3. QED BY <2>1, <2>2 DEF VotingInv, TypeOK, Clock
<1>2. UNCHANGED <<startRequested, revoteFlag, numberOfRevotesUsed>>
  BY DEF Clock
<1>3. Phase' = Phase
  BY <1>1, <1>2 DEF Phase
<1>4. QED BY <1>2, <1>3 DEF Abstract!vars

\* Every step is a step of the abstract vote or leaves it alone.
LEMMA NextImplements ==
  ASSUME VotingInv, [Next]_vars
  PROVE  [Abstract!Next]_(Abstract!vars)
<1>1. CASE TickVote
  BY <1>1, TickVoteImplements
<1>2. CASE TickGoIdle
  BY <1>2, ResetCloses DEF TickGoIdle, Abstract!Next
<1>3. CASE TickWakeUp
  <2>1. numberOfRevotesUsed = 0 /\ winnerElapsed = NotSet
    BY <1>3 DEF VotingInv, TickWakeUp
  <2>2. CASE mapName = "mainmenu"
    <3>1. /\ StartVoting(numberOfRevotesUsed') /\ numberOfRevotesUsed' = 0
          /\ winnerElapsed' = NotSet /\ startRequested' = startRequested
      BY <1>3, <2>1, <2>2 DEF TickWakeUp
    <3>2. QED BY <3>1, OpenOpens
  <2>3. CASE mapName # "mainmenu"
    BY <1>3, <2>3, SamePhase DEF TickWakeUp, voteVars
  <2>4. QED BY <2>2, <2>3
<1>4. ASSUME NEW p \in Players, NEW vote \in Votes, LogVote(p, vote)
      PROVE  UNCHANGED Abstract!vars
  BY <1>4, SamePhase DEF LogVote
<1>5. CASE Clock
  BY <1>5, ClockImplements
<1>6. CASE UNCHANGED vars
  BY <1>6, SamePhase DEF vars, voteVars
<1>7. CASE Operator
  <2>1. CASE CancelVoteInProgress \/ Disable \/ \E doc \in VotingJsons : Enable(doc)
    BY <2>1, ResetCloses DEF CancelVoteInProgress, Disable, Enable, Abstract!Next
  <2>2. ASSUME NEW n \in OptionCounts, SetNumberOfVotingOptions(n)
        PROVE  UNCHANGED Abstract!vars
    BY <2>2, SamePhase DEF SetNumberOfVotingOptions, voteVars
  <2>3. QED BY <1>7, <2>1, <2>2 DEF Operator
<1>8. CASE Engine
  <2>1. ASSUME NEW online \in BOOLEAN, NEW est \in BOOLEAN, NEW bound \in BOOLEAN,
               CreateSession(online, est, bound)
        PROVE  [Abstract!Next]_(Abstract!vars)
    <3>1. UNCHANGED <<startRequested, revoteFlag>>
      BY <2>1 DEF CreateSession
    <3>2. CASE online /\ ~infoSocketOpen
      BY <2>1, <3>1, <3>2, StartNewVoteImplements DEF CreateSession
    <3>3. CASE ~(online /\ ~infoSocketOpen)
      BY <2>1, <3>1, <3>3, SamePhase DEF CreateSession, voteVars
    <3>4. QED BY <3>2, <3>3
  <2>2. CASE MapLoaded
    <3>1. UNCHANGED <<startRequested, revoteFlag>>
      BY <2>2 DEF MapLoaded
    <3>2. CASE infoSocketOpen
      BY <2>2, <3>1, <3>2, StartNewVoteImplements DEF MapLoaded
    <3>3. CASE ~infoSocketOpen
      BY <2>2, <3>1, <3>3, SamePhase DEF MapLoaded, voteVars
    <3>4. QED BY <3>2, <3>3
  <2>3. CASE SessionGone \/ StartGame
    BY <2>3, ResetCloses DEF SessionGone, StartGame, Abstract!Next
  <2>4. CASE LeaveSession \/ GameRuns \/ GameEnds
    BY <2>4, SamePhase DEF LeaveSession, GameRuns, GameEnds, voteVars
  <2>5. ASSUME NEW p \in Players, PlayerJoins(p) \/ PlayerLeaves(p)
        PROVE  UNCHANGED Abstract!vars
    BY <2>5, SamePhase DEF PlayerJoins, PlayerLeaves, voteVars
  <2>6. QED BY <1>8, <2>1, <2>2, <2>3, <2>4, <2>5 DEF Engine
<1>9. QED
  BY <1>1, <1>2, <1>3, <1>4, <1>5, <1>6, <1>7, <1>8 DEF Next, Tick

\* The host implements the abstract map vote: a game is launched only by a chosen
\* winner, a winner is chosen only out of a running vote, and revotes stay within
\* their bound.
THEOREM HostImplementsMapVote == Spec => ImplementsMapVote
<1>1. Init => Abstract!Init
  <2> SUFFICES ASSUME Init PROVE Abstract!Init
    OBVIOUS
  <2>1. /\ winnerElapsed = NotSet /\ voteElapsed = NotSet /\ ~revoteFlag
        /\ startRequested = FALSE
    BY DEF Init
  <2>2. Phase = "none"
    BY <2>1, PhaseCases
  <2>3. QED BY <2>1, <2>2 DEF Abstract!Init
<1>2. VotingInv /\ [Next]_vars => [Abstract!Next]_(Abstract!vars)
  BY NextImplements
<1>3. QED
  BY <1>1, <1>2, VotingInvariant, PTL DEF Spec, ImplementsMapVote, Abstract!Spec

=============================================================================
