------------------------- MODULE MatchingGame_proofs -------------------------
(***************************************************************************)
(* Proofs about MatchingGame, for any users, numbers and requests, and any *)
(* number of processes that end.                                           *)
(***************************************************************************)
EXTENDS MatchingGame, FoldLemmas

-----------------------------------------------------------------------------
(* The game. *)

\* At most one user waits at a number.
Queue == {<<>>} \cup {<<u>> : u \in User}
Trie  == UNION {[D -> Queue] : D \in SUBSET Number}
Pair  == [user1 : User, user2 : User]

LEMMA QueueFacts ==
  ASSUME NEW q \in Queue, NEW u \in User
  PROVE  /\ q = <<>> \/ \E v \in User : q = <<v>>
         /\ q = <<>> => Append(q, u) \in Queue /\ RemoveFirst(q, u) = <<>>
         /\ q # <<>> => Head(q) \in User /\ Tail(q) = <<>> /\ q = <<Head(q)>>
         /\ RemoveFirst(q, u) \in Queue
         /\ u \in ToSet(q) => RemoveFirst(q, u) = <<>> /\ q = <<u>>
<1>1. q = <<>> \/ \E v \in User : q = <<v>>
  BY DEF Queue
<1>2. CASE q = <<>>
  <2>1. Append(q, u) = <<u>> /\ RemoveFirst(q, u) = q
    BY <1>2 DEF RemoveFirst
  <2>2. ToSet(q) = {}
    BY <1>2 DEF ToSet
  <2>. QED  BY <1>2, <2>1, <2>2 DEF Queue
<1>3. ASSUME NEW v \in User, q = <<v>>
      PROVE  /\ Head(q) = v /\ Tail(q) = <<>> /\ q # <<>>
             /\ u = v => RemoveFirst(q, u) = <<>>
             /\ u # v => RemoveFirst(q, u) = q
             /\ ToSet(q) = {v}
  <2>1. Len(q) = 1 /\ q[1] = v /\ Head(q) = v /\ Tail(q) = <<>> /\ q # <<>>
    BY <1>3
  <2>2. ToSet(q) = {v}
    BY <1>3 DEF ToSet
  <2>3. ASSUME u # v PROVE RemoveFirst(q, u) = q
    BY <2>1, <2>3 DEF RemoveFirst
  <2>4. ASSUME u = v PROVE RemoveFirst(q, u) = <<>>
    <3>1. {i \in 1..Len(q) : q[i] = u} = {1}
      BY <2>1, <2>4
    <3>2. Min({1}) = 1
      BY DEF Min
    <3>3. SelectInSeq(q, LAMBDA x : x = u) = 1
      BY <3>1, <3>2 DEF SelectInSeq
    <3>4. RemoveFirst(q, u) = RemoveAt(q, 1)
      BY <2>1, <2>4, <3>3 DEF RemoveFirst
    <3>5. SubSeq(q, 1, 0) = <<>> /\ SubSeq(q, 2, 1) = <<>>
      <4>1. q \in Seq(User)
        BY <1>3
      <4>. QED  BY <2>1, <4>1, StretchFacts
    <3>. QED  BY <2>1, <3>4, <3>5 DEF RemoveAt
  <2>. QED  BY <2>1, <2>2, <2>3, <2>4
<1>. QED  BY <1>1, <1>2, <1>3 DEF Queue

LEMMA TrieFacts ==
  ASSUME NEW game \in Trie
  PROVE  /\ DOMAIN game \subseteq Number
         /\ \A n \in DOMAIN game : game[n] \in Queue
         /\ \A n \in Number : Waiting(game, n) \in Queue
  BY DEF Trie, Waiting, Queue

LEMMA EmptyTrie == TrieRootEmpty \in Trie /\ DOMAIN TrieRootEmpty = {}
<1>1. <<>> \in [{} -> Queue]
  OBVIOUS
<1>. QED  BY <1>1 DEF TrieRootEmpty, Trie

LEMMA RequestFacts ==
  ASSUME NEW r \in Request
  PROVE  r.address \in User /\ r.number \in Number /\ r.kind \in {"submit", "cancel"}
  BY DEF Request

LEMMA PlayedWaiting ==
  ASSUME NEW game \in Trie, NEW r \in Request
  PROVE  /\ Played(game, r) \in Trie
         /\ \A n \in Number \ {r.number} : Waiting(Played(game, r), n) = Waiting(game, n)
         /\ MatchPair(game, r) \in Pair \/ MatchPair(game, r) = Unmatched
         /\ r.kind = "submit" /\ Waiting(game, r.number) = <<>> =>
               /\ Waiting(Played(game, r), r.number) = <<r.address>>
               /\ MatchPair(game, r) = Unmatched
         /\ r.kind = "submit" /\ Waiting(game, r.number) # <<>> =>
               /\ Waiting(Played(game, r), r.number) = <<>>
               /\ MatchPair(game, r)
                     = [user1 |-> Head(Waiting(game, r.number)), user2 |-> r.address]
               /\ MatchPair(game, r) # Unmatched
         /\ r.kind = "cancel" =>
               /\ MatchPair(game, r) = Unmatched
               /\ ~Panics(game, r) => Waiting(Played(game, r), r.number) = <<>>
<1>. DEFINE q == Waiting(game, r.number)
            after == Played(game, r)
<1>1. /\ r.address \in User /\ r.number \in Number /\ r.kind \in {"submit", "cancel"}
      /\ q \in Queue /\ DOMAIN game \subseteq Number
      /\ game = [n \in DOMAIN game |-> game[n]]
      /\ \A n \in DOMAIN game : game[n] \in Queue
  BY RequestFacts, TrieFacts DEF Trie
<1>2. CASE r.kind = "cancel" /\ r.number \notin DOMAIN game
  <2>1. after = game /\ q = <<>> /\ MatchPair(game, r) = Unmatched
    BY <1>2 DEF Played, Waiting, MatchPair
  <2>. QED  BY <1>2, <2>1
<1>3. CASE r.kind = "cancel" /\ r.number \in DOMAIN game
  <2>1. /\ after = [game EXCEPT ![r.number] = RemoveFirst(game[r.number], r.address)]
        /\ q = game[r.number] /\ MatchPair(game, r) = Unmatched
    BY <1>3 DEF Played, Waiting, MatchPair
  <2>2. RemoveFirst(q, r.address) \in Queue
        /\ (r.address \in ToSet(q) => RemoveFirst(q, r.address) = <<>>)
    BY <1>1, QueueFacts
  <2>3. /\ after \in [DOMAIN game -> Queue]
        /\ after[r.number] = RemoveFirst(q, r.address)
        /\ \A n \in DOMAIN game \ {r.number} : after[n] = game[n]
    BY <1>1, <1>3, <2>1, <2>2
  <2>. HIDE DEF after, q
  <2>4. after \in Trie
    BY <1>1, <2>3 DEF Trie
  <2>. QED  BY <1>3, <2>1, <2>2, <2>3, <2>4 DEF Waiting, Panics, after
<1>4. CASE r.kind = "submit" /\ q # <<>>
  <2>1. Head(q) \in User /\ Tail(q) = <<>>
    BY <1>1, <1>4, QueueFacts
  <2>2. /\ MatchPair(game, r) = [user1 |-> Head(q), user2 |-> r.address]
        /\ r.number \in DOMAIN game /\ q = game[r.number]
    BY <1>4 DEF MatchPair, Waiting
  <2>3. MatchPair(game, r) \in Pair /\ MatchPair(game, r) # Unmatched
    BY <1>1, <2>1, <2>2, GameAssumption DEF Pair, Unmatched
  <2>4. after = [game EXCEPT ![r.number] = Tail(game[r.number])]
    BY <1>4, <2>2, <2>3 DEF Played
  <2>5. /\ after \in [DOMAIN game -> Queue] /\ after[r.number] = <<>>
        /\ \A n \in DOMAIN game \ {r.number} : after[n] = game[n]
    BY <1>1, <2>1, <2>2, <2>4 DEF Queue
  <2>. HIDE DEF after
  <2>6. after \in Trie
    BY <1>1, <2>5 DEF Trie
  <2>. QED  BY <1>4, <2>2, <2>3, <2>5, <2>6 DEF Waiting, after
<1>5. CASE r.kind = "submit" /\ q = <<>>
  <2>1. MatchPair(game, r) = Unmatched
    BY <1>5 DEF MatchPair
  <2>2. after = [n \in DOMAIN game \cup {r.number} |->
                   IF n = r.number THEN Append(q, r.address) ELSE game[n]]
    BY <1>5, <2>1 DEF Played
  <2>3. Append(q, r.address) = <<r.address>> /\ <<r.address>> \in Queue
    BY <1>1, <1>5 DEF Queue
  <2>4. /\ after \in [DOMAIN game \cup {r.number} -> Queue]
        /\ after[r.number] = <<r.address>>
        /\ \A n \in DOMAIN game \ {r.number} : after[n] = game[n]
    <3>. HIDE DEF q
    <3>. QED  BY <1>1, <2>2, <2>3
  <2>. HIDE DEF after
  <2>5. after \in Trie
    BY <1>1, <2>4 DEF Trie
  <2>. QED  BY <1>1, <1>5, <2>1, <2>4, <2>5 DEF Waiting, after
<1>. QED  BY <1>1, <1>2, <1>3, <1>4, <1>5

-----------------------------------------------------------------------------
(* Replays. *)

Result == [root : Trie, matches : Seq(Pair)]

Start(game) == [root |-> game, matches |-> <<>>]

Turn(acc, r) ==
    [root |-> Played(acc.root, r),
     matches |-> IF MatchPair(acc.root, r) = Unmatched THEN acc.matches
                 ELSE Append(acc.matches, MatchPair(acc.root, r))]

Turns == [acc \in Result |-> [r \in Request |-> Turn(acc, r)]]

LEMMA StartIsResult ==
  ASSUME NEW game \in Trie
  PROVE  Start(game) \in Result /\ Start(game).root = game /\ Start(game).matches = <<>>
  BY DEF Start, Result

LEMMA TurnFacts ==
  ASSUME NEW acc \in Result, NEW r \in Request
  PROVE  Turn(acc, r) \in Result /\ Turns[acc][r] = Turn(acc, r)
<1>1. /\ acc.root \in Trie /\ acc.matches \in Seq(Pair)
  BY DEF Result
<1>2. /\ Played(acc.root, r) \in Trie
      /\ MatchPair(acc.root, r) \in Pair \/ MatchPair(acc.root, r) = Unmatched
  BY <1>1, PlayedWaiting
<1>. QED  BY <1>1, <1>2 DEF Turn, Turns, Result

LEMMA TurnsIsStep == IsStep(Turns, Result, Request)
<1>1. \A acc \in Result : Turns[acc] = [r \in Request |-> Turn(acc, r)]
  BY DEF Turns
<1>2. \A acc \in Result : Turns[acc] \in [Request -> Result]
  BY <1>1, TurnFacts
<1>3. Turns = [acc \in Result |-> Turns[acc]]
  BY DEF Turns
<1>. HIDE DEF Turns
<1>. QED  BY <1>2, <1>3 DEF IsStep

LEMMA ReplayIsFolded ==
  ASSUME NEW game \in Trie, NEW reqs \in Seq(Request)
  PROVE  ApplyRequests(game, reqs) = Folded(Turns, Start(game), reqs)
<1>. DEFINE Solves(h) ==
               h = [s \in SUBSET DOMAIN reqs |->
                      IF s = {} THEN Start(game)
                      ELSE Turn(h[s \ {Max(s)}], reqs[Max(s)])]
<1>1. /\ Start(game) \in Result /\ IsStep(Turns, Result, Request)
      /\ DOMAIN reqs = 1..Len(reqs) /\ Len(reqs) \in Nat
  BY StartIsResult, TurnsIsStep
<1>2. \A s \in SUBSET DOMAIN reqs : s # {} => reqs[Max(s)] \in Request
  <2>. SUFFICES ASSUME NEW s \in SUBSET DOMAIN reqs, s # {} PROVE reqs[Max(s)] \in Request
    OBVIOUS
  <2>1. Max(s) \in 1..Len(reqs)
    BY <1>1, MaxOfNumbers
  <2>. QED  BY <2>1
<1>3. PICK g \in [SUBSET DOMAIN reqs -> Result] : FoldSolves(g, Turns, Start(game), reqs)
  BY <1>1, FoldSolvable
<1>4. Solves(g)
  <2>1. ASSUME NEW s \in SUBSET DOMAIN reqs
        PROVE  g[s] = IF s = {} THEN Start(game) ELSE Turn(g[s \ {Max(s)}], reqs[Max(s)])
    <3>1. g[s \ {Max(s)}] \in Result
      OBVIOUS
    <3>. QED  BY <1>2, <1>3, <3>1, TurnFacts DEF FoldSolves
  <2>. QED  BY <2>1
<1>. DEFINE h == CHOOSE h : Solves(h)
<1>5. Solves(h)
  <2>. HIDE DEF Solves
  <2>. QED  BY <1>4
<1>6. ApplyRequests(game, reqs) = h[DOMAIN reqs]
  BY DEF ApplyRequests, FoldLeft, MapThenFoldSet, Start, Turn
<1>. HIDE DEF h
<1>7. FoldFits(h, Result, Turns, Start(game), reqs)
  <2>1. h[{}] = Start(game)
    BY <1>5
  <2>2. ASSUME NEW s \in SUBSET DOMAIN reqs, s # {}, h[s \ {Max(s)}] \in Result
        PROVE  h[s] = Turns[h[s \ {Max(s)}]][reqs[Max(s)]]
    <3>1. h[s] = Turn(h[s \ {Max(s)}], reqs[Max(s)])
      BY <1>5, <2>2
    <3>. QED  BY <1>2, <2>2, <3>1, TurnFacts
  <2>. QED  BY <2>1, <2>2 DEF FoldFits
<1>. QED  BY <1>1, <1>6, <1>7, FoldIsFolded

LEMMA ReplayFacts ==
  ASSUME NEW game \in Trie, NEW reqs \in Seq(Request)
  PROVE  /\ ApplyRequests(game, reqs) \in Result
         /\ reqs = <<>> => ApplyRequests(game, reqs) = Start(game)
         /\ \A r \in Request :
               ApplyRequests(game, Append(reqs, r)) = Turn(ApplyRequests(game, reqs), r)
<1>1. Start(game) \in Result /\ IsStep(Turns, Result, Request)
  BY StartIsResult, TurnsIsStep
<1>2. ApplyRequests(game, reqs) \in Result
  BY <1>1, ReplayIsFolded, FoldedType
<1>3. ASSUME reqs = <<>> PROVE ApplyRequests(game, reqs) = Start(game)
  <2>1. Folded(Turns, Start(game), <<>>) = Start(game)
    BY <1>1, FoldedEmpty
  <2>. QED  BY <1>3, <2>1, ReplayIsFolded
<1>4. ASSUME NEW r \in Request
      PROVE  ApplyRequests(game, Append(reqs, r)) = Turn(ApplyRequests(game, reqs), r)
  <2>1. Append(reqs, r) \in Seq(Request)
    OBVIOUS
  <2>2. Folded(Turns, Start(game), Append(reqs, r)) = Turns[Folded(Turns, Start(game), reqs)][r]
    BY <1>1, FoldedAppend
  <2>3. ApplyRequests(game, Append(reqs, r)) = Turns[ApplyRequests(game, reqs)][r]
    BY <2>1, <2>2, ReplayIsFolded
  <2>. QED  BY <1>2, <2>3, TurnFacts
<1>. QED  BY <1>2, <1>3, <1>4

LEMMA AppendedToSet ==
  ASSUME NEW T, NEW seq \in Seq(T), NEW x \in T
  PROVE  ToSet(Append(seq, x)) = ToSet(seq) \cup {x}
<1>. DEFINE more == Append(seq, x)
<1>1. /\ Len(seq) \in Nat /\ DOMAIN seq = 1..Len(seq) /\ DOMAIN more = 1..(Len(seq) + 1)
      /\ more[Len(seq) + 1] = x /\ \A i \in 1..Len(seq) : more[i] = seq[i]
  OBVIOUS
<1>. HIDE DEF more
<1>2. ToSet(more) = {more[i] : i \in DOMAIN more} /\ ToSet(seq) = {seq[i] : i \in DOMAIN seq}
  BY DEF ToSet
<1>3. \A i \in 1..(Len(seq) + 1) : i \in 1..Len(seq) \/ i = Len(seq) + 1
  BY <1>1
<1>4. \A i \in 1..Len(seq) : i \in 1..(Len(seq) + 1)
  BY <1>1
<1>5. Len(seq) + 1 \in 1..(Len(seq) + 1)
  BY <1>1
<1>6. ToSet(more) = ToSet(seq) \cup {x}
  BY <1>1, <1>2, <1>3, <1>4, <1>5
<1>. QED  BY <1>6 DEF more

\* The game after the first k requests.
RootAfter(reqs, k) == ApplyRequests(TrieRootEmpty, SubSeq(reqs, 1, k)).root

LEMMA RootFacts ==
  ASSUME NEW reqs \in Seq(Request)
  PROVE  /\ RootAfter(reqs, 0) = TrieRootEmpty
         /\ \A k \in 0..Len(reqs) : RootAfter(reqs, k) \in Trie
         /\ \A k \in 0..(Len(reqs) - 1) :
               RootAfter(reqs, k + 1) = Played(RootAfter(reqs, k), reqs[k + 1])
<1>1. TrieRootEmpty \in Trie
  BY EmptyTrie
<1>2. \A k \in 0..Len(reqs) :
         /\ SubSeq(reqs, 1, k) \in Seq(Request)
         /\ k = 0 => SubSeq(reqs, 1, k) = <<>>
         /\ k < Len(reqs) =>
               SubSeq(reqs, 1, k + 1) = Append(SubSeq(reqs, 1, k), reqs[k + 1])
  <2>1. 1 \in 1..(Len(reqs) + 1) /\ 0 = 1 - 1 /\ 0..Len(reqs) = (1 - 1)..Len(reqs)
    OBVIOUS
  <2>. QED  BY <2>1, StretchFacts
<1>3. ASSUME NEW k \in 0..Len(reqs)
      PROVE  /\ ApplyRequests(TrieRootEmpty, SubSeq(reqs, 1, k)) \in Result
             /\ RootAfter(reqs, k) \in Trie
  <2>1. ApplyRequests(TrieRootEmpty, SubSeq(reqs, 1, k)) \in Result
    BY <1>1, <1>2, ReplayFacts
  <2>. QED  BY <2>1 DEF RootAfter, Result
<1>4. RootAfter(reqs, 0) = TrieRootEmpty
  <2>1. 0 \in 0..Len(reqs)
    OBVIOUS
  <2>. QED  BY <1>1, <1>2, <2>1, ReplayFacts, StartIsResult DEF RootAfter
<1>5. ASSUME NEW k \in 0..(Len(reqs) - 1)
      PROVE  RootAfter(reqs, k + 1) = Played(RootAfter(reqs, k), reqs[k + 1])
  <2>1. k \in 0..Len(reqs) /\ k < Len(reqs) /\ k + 1 \in 1..Len(reqs)
    OBVIOUS
  <2>2. reqs[k + 1] \in Request
    BY <2>1
  <2>3. ApplyRequests(TrieRootEmpty, SubSeq(reqs, 1, k + 1))
           = Turn(ApplyRequests(TrieRootEmpty, SubSeq(reqs, 1, k)), reqs[k + 1])
    BY <1>1, <1>2, <2>1, <2>2, ReplayFacts
  <2>. QED  BY <2>3 DEF RootAfter, Turn
<1>. QED  BY <1>3, <1>4, <1>5

\* The replay of the requests from b + 1 to e, from where the first b lead to,
\* ends where the first e lead to, and finds the matches that playing them one
\* by one finds.
LEMMA BatchReplay ==
  ASSUME NEW reqs \in Seq(Request), NEW b \in 0..Len(reqs), NEW e \in b..Len(reqs),
         NEW M, \A k \in b..(e - 1) :
                   MatchPair(RootAfter(reqs, k), reqs[k + 1]) \in M \cup {Unmatched}
  PROVE  /\ ApplyRequests(RootAfter(reqs, b), SubSeq(reqs, b + 1, e)) \in Result
         /\ ApplyRequests(RootAfter(reqs, b), SubSeq(reqs, b + 1, e)).root = RootAfter(reqs, e)
         /\ ToSet(ApplyRequests(RootAfter(reqs, b), SubSeq(reqs, b + 1, e)).matches) \subseteq M
<1>. DEFINE game == RootAfter(reqs, b)
            Replay(i) == ApplyRequests(game, SubSeq(reqs, b + 1, b + i))
            F == {i \in Nat : Replay(i).root = RootAfter(reqs, b + i)
                               /\ ToSet(Replay(i).matches) \subseteq M}
<1>1. b \in Nat /\ e \in Nat /\ e - b \in Nat /\ b + (e - b) = e /\ Len(reqs) \in Nat
  OBVIOUS
<1>2. game \in Trie
  BY RootFacts
<1>3. \A i \in 0..(e - b) :
         /\ SubSeq(reqs, b + 1, b + i) \in Seq(Request)
         /\ i = 0 => SubSeq(reqs, b + 1, b + i) = <<>>
         /\ i < e - b => SubSeq(reqs, b + 1, b + (i + 1))
                            = Append(SubSeq(reqs, b + 1, b + i), reqs[b + i + 1])
  <2>. SUFFICES ASSUME NEW i \in 0..(e - b)
                PROVE  /\ SubSeq(reqs, b + 1, b + i) \in Seq(Request)
                       /\ i = 0 => SubSeq(reqs, b + 1, b + i) = <<>>
                       /\ i < e - b => SubSeq(reqs, b + 1, b + (i + 1))
                                          = Append(SubSeq(reqs, b + 1, b + i), reqs[b + i + 1])
    OBVIOUS
  <2>1. b + 1 \in 1..(Len(reqs) + 1) /\ b + i \in (b + 1 - 1)..Len(reqs)
        /\ (i = 0 => b + i = b + 1 - 1) /\ b + (i + 1) = b + i + 1
        /\ (i < e - b => b + i < Len(reqs))
    BY <1>1
  <2>. HIDE DEF F, game
  <2>. QED  BY <2>1, StretchFacts
<1>. HIDE DEF game
<1>4. 0 \in F
  <2>1. 0 \in 0..(e - b)
    BY <1>1
  <2>2. Replay(0) = Start(game)
    BY <1>2, <1>3, <2>1, ReplayFacts
  <2>3. Replay(0).root = game /\ Replay(0).matches = <<>>
    BY <1>2, <2>2, StartIsResult
  <2>4. ToSet(<<>>) = {} /\ b + 0 = b
    BY <1>1 DEF ToSet
  <2>. QED  BY <2>3, <2>4 DEF game
<1>5. ASSUME NEW i \in 0..((e - b) - 1), i \in F
      PROVE  i + 1 \in F
  <2>. DEFINE r == reqs[b + i + 1]
              acc == Replay(i)
  <2>1. /\ i \in Nat /\ i \in 0..(e - b) /\ i < e - b /\ b + i \in 0..(Len(reqs) - 1)
        /\ b + i \in b..(e - 1) /\ b + i + 1 \in 1..Len(reqs) /\ b + (i + 1) = b + i + 1
    BY <1>1, <1>5
  <2>2. r \in Request
    BY <2>1
  <2>3. acc \in Result /\ Replay(i + 1) = Turn(acc, r)
    BY <1>2, <1>3, <2>1, <2>2, ReplayFacts
  <2>4. acc.root = RootAfter(reqs, b + i) /\ ToSet(acc.matches) \subseteq M
    BY <1>5
  <2>5. RootAfter(reqs, b + i + 1) = Played(RootAfter(reqs, b + i), r)
    BY <2>1, RootFacts
  <2>. DEFINE m == MatchPair(acc.root, r)
              after == Replay(i + 1)
  <2>6. m \in M \cup {Unmatched}
    <3>1. MatchPair(RootAfter(reqs, b + i), reqs[b + i + 1]) \in M \cup {Unmatched}
      <4>. HIDE DEF acc, r, F
      <4>. QED  BY <2>1
    <3>. HIDE DEF acc, F
    <3>. QED  BY <2>4, <3>1
  <2>7. /\ after.root = Played(acc.root, r)
        /\ after.matches = IF m = Unmatched THEN acc.matches ELSE Append(acc.matches, m)
    <3>1. /\ Turn(acc, r).root = Played(acc.root, r)
          /\ Turn(acc, r).matches = IF m = Unmatched THEN acc.matches ELSE Append(acc.matches, m)
      <4>. HIDE DEF acc, r, F
      <4>. QED  BY DEF Turn
    <3>. HIDE DEF acc, r, m, F, Replay
    <3>. QED  BY <2>3, <3>1
  <2>8. ToSet(after.matches) \subseteq M
    <3>1. CASE m = Unmatched
      BY <2>4, <2>7, <3>1
    <3>2. CASE m # Unmatched
      <4>1. acc.matches \in Seq(Pair) /\ m \in Pair
        BY <2>2, <2>3, <3>2, PlayedWaiting DEF Result
      <4>2. PICK p, q : p = m /\ q = acc.matches
        OBVIOUS
      <4>. HIDE DEF m, acc, after, F
      <4>3. ToSet(Append(q, p)) = ToSet(q) \cup {p}
        BY <4>1, <4>2, AppendedToSet
      <4>. QED  BY <2>4, <2>6, <2>7, <3>2, <4>2, <4>3
    <3>. QED  BY <3>1, <3>2
  <2>9. after.root = RootAfter(reqs, b + (i + 1))
    BY <2>1, <2>4, <2>5, <2>7
  <2>. QED  BY <2>1, <2>8, <2>9
<1>6. e - b \in F
  <2>1. e - b \in 0..(e - b)
    BY <1>1
  <2>. HIDE DEF F
  <2>. QED  BY <1>1, <1>4, <1>5, <2>1, InductionUpTo
<1>7. Replay(e - b) \in Result
  <2>1. e - b \in 0..(e - b)
    BY <1>1
  <2>. QED  BY <1>2, <1>3, <2>1, ReplayFacts
<1>. QED  BY <1>1, <1>6, <1>7 DEF game

-----------------------------------------------------------------------------
(* The invariant. *)

Job == [status : {"none", "pending", "relayed", "failed"}, pre : Trie, post : Trie,
        matches : Seq(Pair)]
Batcher == [pc : {"init", "idle", "submit", "save"}, nonce : Nat, end : Nat, job : Job]

\* What the engine has played, and that it has made every match of it.
EngineInv ==
    /\ requests \in Seq(Request)
    /\ processed_global_index \in Nat
    /\ \/ engine = "recv" /\ Len(requests) = processed_global_index
       \/ engine = "seen" /\ Len(requests) = processed_global_index + 1
    /\ merkle_root_engine = RootAfter(requests, processed_global_index)
    /\ \A k \in 0..(processed_global_index - 1) :
          MatchPair(RootAfter(requests, k), requests[k + 1]) \in made \cup {Unmatched}

\* Where the batcher is, and where the batch in its hands ends.
BatcherInv ==
    /\ batcher \in Batcher
    /\ next_batch_global_index \in 0..(processed_global_index + 1)
    /\ batcher.pc # "init" => next_batch_global_index > 0
    /\ next_batch_global_index > 0 =>
          merkle_root_batcher = RootAfter(requests, next_batch_global_index - 1)
    /\ batcher.pc \in {"submit", "save"} =>
          /\ batcher.end \in next_batch_global_index..processed_global_index
          /\ batcher.job.post = RootAfter(requests, batcher.end)
    /\ ToSet(batcher.job.matches) \subseteq made

\* What is on its way to the chain are matches that an engine made.
ChainInv ==
    /\ made \in SUBSET Pair
    /\ jobs \in [Index -> Job]
    /\ \A n \in Index : ToSet(jobs[n].matches) \subseteq made
    /\ userToPartner \in [User -> User \cup {Nobody}]

GameInv == EngineInv /\ BatcherInv /\ ChainInv

LEMMA AtTheStart ==
  /\ NoJob \in Job /\ ToSet(NoJob.matches) = {}
  /\ BatcherAtStart \in Batcher /\ BatcherAtStart.job = NoJob /\ BatcherAtStart.pc = "init"
  /\ RootAfter(<<>>, 0) = TrieRootEmpty
<1>1. TrieRootEmpty \in Trie /\ <<>> \in Seq(Pair) /\ ToSet(<<>>) = {}
  BY EmptyTrie DEF ToSet
<1>2. NoJob \in Job /\ NoJob.matches = <<>>
  BY <1>1 DEF NoJob, Job
<1>3. BatcherAtStart \in Batcher /\ BatcherAtStart.job = NoJob /\ BatcherAtStart.pc = "init"
  BY <1>2 DEF BatcherAtStart, Batcher
<1>4. RootAfter(<<>>, 0) = TrieRootEmpty
  <2>. DEFINE none == <<>>
  <2>1. none \in Seq(Request)
    OBVIOUS
  <2>. HIDE DEF none
  <2>2. RootAfter(none, 0) = TrieRootEmpty
    BY <2>1, RootFacts
  <2>. QED  BY <2>2 DEF none
<1>. QED  BY <1>1, <1>2, <1>3, <1>4

LEMMA InitHasGameInv == Init => GameInv
<1>. SUFFICES ASSUME Init PROVE GameInv
  OBVIOUS
<1>1. EngineInv
  <2>1. requests \in Seq(Request) /\ Len(requests) = 0
    BY DEF Init
  <2>2. merkle_root_engine = RootAfter(requests, 0)
    BY AtTheStart DEF Init
  <2>. QED  BY <2>1, <2>2 DEF EngineInv, Init
<1>2. BatcherInv
  BY AtTheStart DEF BatcherInv, Init
<1>3. ChainInv
  <2>1. jobs = [n \in Index |-> NoJob] /\ made = {} /\ userToPartner = [u \in User |-> Nobody]
    BY DEF Init
  <2>2. jobs \in [Index -> Job] /\ \A n \in Index : jobs[n] = NoJob
    BY <2>1, AtTheStart
  <2>. QED  BY <2>1, <2>2, AtTheStart DEF ChainInv
<1>. QED  BY <1>1, <1>2, <1>3 DEF GameInv

\* The next process starts as the first did.
LEMMA EndsKeepsGameInv == GameInv /\ Ends /\ UNCHANGED <<jobs, chainVars, made>> => GameInv'
<1>. SUFFICES ASSUME GameInv, Ends, UNCHANGED <<jobs, chainVars, made>> PROVE GameInv'
  OBVIOUS
<1>1. EngineInv'
  <2>1. requests' \in Seq(Request) /\ Len(requests') = 0
    BY DEF Ends
  <2>2. merkle_root_engine' = RootAfter(requests', 0)
    BY AtTheStart DEF Ends
  <2>. QED  BY <2>1, <2>2 DEF EngineInv, Ends
<1>2. BatcherInv'
  BY AtTheStart DEF BatcherInv, Ends
<1>3. ChainInv'
  BY DEF ChainInv, GameInv, chainVars
<1>. QED  BY <1>1, <1>2, <1>3 DEF GameInv

\* A request more changes none of the games before it.
LEMMA RootWithMore ==
  ASSUME NEW reqs \in Seq(Request), NEW r \in Request, NEW k \in 0..Len(reqs)
  PROVE  /\ RootAfter(Append(reqs, r), k) = RootAfter(reqs, k)
         /\ k < Len(reqs) => Append(reqs, r)[k + 1] = reqs[k + 1]
<1>. DEFINE more == Append(reqs, r)
<1>1. /\ more \in Seq(Request) /\ Len(more) = Len(reqs) + 1 /\ Len(reqs) \in Nat /\ k \in Nat
      /\ k <= Len(reqs) /\ \A i \in 1..Len(reqs) : more[i] = reqs[i]
  OBVIOUS
<1>. HIDE DEF more
<1>2. /\ 1 \in 1..(Len(reqs) + 1) /\ 1 \in 1..(Len(more) + 1)
      /\ k \in (1 - 1)..Len(reqs) /\ k \in (1 - 1)..Len(more) /\ k - 1 + 1 = k
  BY <1>1
<1>. DEFINE a == SubSeq(more, 1, k)
            b == SubSeq(reqs, 1, k)
<1>3. a \in Seq(Request) /\ Len(a) = k /\ \A j \in 1..k : a[j] = more[1 + j - 1]
  BY <1>1, <1>2, StretchFacts
<1>4. b \in Seq(Request) /\ Len(b) = k /\ \A j \in 1..k : b[j] = reqs[1 + j - 1]
  BY <1>2, StretchFacts
<1>. HIDE DEF a, b
<1>5. \A j \in 1..Len(a) : a[j] = b[j]
  <2>1. \A j \in 1..k : 1 + j - 1 = j /\ j \in 1..Len(reqs)
    BY <1>1
  <2>. QED  BY <1>1, <1>3, <1>4, <2>1
<1>6. a = b
  BY <1>3, <1>4, <1>5, SeqEqual
<1>7. k < Len(reqs) => k + 1 \in 1..Len(reqs)
  BY <1>1
<1>. QED  BY <1>1, <1>6, <1>7 DEF RootAfter, more, a, b

LEMMA SeeKeepsGameInv ==
  ASSUME GameInv, NEW r \in Request, See(r)
  PROVE  GameInv'
<1>1. /\ requests \in Seq(Request) /\ Len(requests) \in Nat
      /\ processed_global_index \in Nat /\ Len(requests) = processed_global_index
  BY DEF GameInv, EngineInv, See
<1>2. requests' = Append(requests, r)
  BY DEF See
<1>3. \A k \in 0..processed_global_index :
         /\ RootAfter(requests', k) = RootAfter(requests, k)
         /\ k < processed_global_index => requests'[k + 1] = requests[k + 1]
  BY <1>1, <1>2, RootWithMore
<1>4. EngineInv'
  <2>1. requests' \in Seq(Request) /\ Len(requests') = processed_global_index + 1
    BY <1>1, <1>2
  <2>2. merkle_root_engine' = RootAfter(requests', processed_global_index)
    <3>1. processed_global_index \in 0..processed_global_index
      BY <1>1
    <3>. QED  BY <1>3, <3>1 DEF GameInv, EngineInv, See
  <2>3. ASSUME NEW k \in 0..(processed_global_index - 1)
        PROVE  MatchPair(RootAfter(requests', k), requests'[k + 1]) \in made \cup {Unmatched}
    <3>1. k \in 0..processed_global_index /\ k < processed_global_index
      BY <1>1
    <3>2. RootAfter(requests', k) = RootAfter(requests, k) /\ requests'[k + 1] = requests[k + 1]
      BY <1>3, <3>1
    <3>. QED  BY <3>2 DEF GameInv, EngineInv
  <2>. QED  BY <1>1, <2>1, <2>2, <2>3 DEF EngineInv, See
<1>5. BatcherInv'
  <2>1. UNCHANGED <<batcher, next_batch_global_index, merkle_root_batcher,
                    processed_global_index, made>>
    BY DEF See
  <2>2. /\ next_batch_global_index \in 0..(processed_global_index + 1)
        /\ batcher.pc # "init" => next_batch_global_index > 0
        /\ next_batch_global_index > 0 =>
              merkle_root_batcher = RootAfter(requests, next_batch_global_index - 1)
        /\ batcher.pc \in {"submit", "save"} =>
              /\ batcher.end \in next_batch_global_index..processed_global_index
              /\ batcher.job.post = RootAfter(requests, batcher.end)
        /\ ToSet(batcher.job.matches) \subseteq made /\ batcher \in Batcher
    BY DEF GameInv, BatcherInv
  <2>3. next_batch_global_index > 0 =>
           RootAfter(requests', next_batch_global_index - 1)
              = RootAfter(requests, next_batch_global_index - 1)
    <3>1. next_batch_global_index > 0 =>
             next_batch_global_index - 1 \in 0..processed_global_index
      BY <1>1, <2>2
    <3>. QED  BY <1>3, <3>1
  <2>4. batcher.pc \in {"submit", "save"} =>
           RootAfter(requests', batcher.end) = RootAfter(requests, batcher.end)
    <3>1. batcher.pc \in {"submit", "save"} => batcher.end \in 0..processed_global_index
      BY <1>1, <2>2
    <3>. QED  BY <1>3, <3>1
  <2>. QED  BY <2>1, <2>2, <2>3, <2>4 DEF BatcherInv
<1>6. ChainInv'
  BY DEF ChainInv, GameInv, chainVars, See
<1>. QED  BY <1>4, <1>5, <1>6 DEF GameInv

\* The request that the engine has seen and not played.
LEMMA SeenFacts ==
  ASSUME GameInv, engine = "seen"
  PROVE  /\ Last(requests) \in Request
         /\ Last(requests) = requests[processed_global_index + 1]
         /\ processed_global_index \in Nat
         /\ Len(requests) = processed_global_index + 1
         /\ merkle_root_engine \in Trie
         /\ RootAfter(requests, processed_global_index + 1)
               = Played(merkle_root_engine, Last(requests))
<1>1. /\ requests \in Seq(Request) /\ processed_global_index \in Nat
      /\ Len(requests) = processed_global_index + 1
      /\ merkle_root_engine = RootAfter(requests, processed_global_index)
  BY DEF GameInv, EngineInv
<1>2. /\ Last(requests) = requests[processed_global_index + 1]
      /\ processed_global_index + 1 \in 1..Len(requests)
      /\ processed_global_index \in 0..Len(requests)
      /\ processed_global_index \in 0..(Len(requests) - 1)
  BY <1>1 DEF Last
<1>3. Last(requests) \in Request
  BY <1>1, <1>2
<1>. QED  BY <1>1, <1>2, <1>3, RootFacts

LEMMA ApplyKeepsGameInv == GameInv /\ Apply => GameInv'
<1>. SUFFICES ASSUME GameInv, Apply PROVE GameInv'
  OBVIOUS
<1>. DEFINE r == Last(requests)
            match == MatchPair(merkle_root_engine, r)
<1>1. /\ r \in Request /\ r = requests[processed_global_index + 1]
      /\ processed_global_index \in Nat /\ Len(requests) = processed_global_index + 1
      /\ merkle_root_engine \in Trie
      /\ RootAfter(requests, processed_global_index + 1) = Played(merkle_root_engine, r)
  BY SeenFacts DEF Apply
<1>2. /\ requests' = requests /\ processed_global_index' = processed_global_index + 1
      /\ merkle_root_engine' = Played(merkle_root_engine, r)
      /\ made' = (IF match = Unmatched THEN made ELSE made \cup {match})
      /\ engine' = "recv"
      /\ UNCHANGED <<next_batch_global_index, merkle_root_batcher, batcher, jobs, userToPartner>>
  BY <1>1 DEF Apply, SetEngineRoot, chainVars
<1>3. match \in Pair \/ match = Unmatched
  BY <1>1, PlayedWaiting
<1>4. match \in made' \cup {Unmatched} /\ made \subseteq made' /\ made' \in SUBSET Pair
  BY <1>2, <1>3 DEF GameInv, ChainInv
<1>. HIDE DEF match
<1>5. EngineInv'
  <2>1. ASSUME NEW k \in 0..(processed_global_index' - 1)
        PROVE  MatchPair(RootAfter(requests', k), requests'[k + 1]) \in made' \cup {Unmatched}
    <3>1. k = processed_global_index \/ k \in 0..(processed_global_index - 1)
      BY <1>1, <1>2
    <3>2. CASE k = processed_global_index
      BY <1>1, <1>2, <1>4, <3>2 DEF GameInv, EngineInv, match
    <3>3. CASE k \in 0..(processed_global_index - 1)
      <4>1. MatchPair(RootAfter(requests, k), requests[k + 1]) \in made \cup {Unmatched}
        BY <3>3 DEF GameInv, EngineInv
      <4>. QED  BY <1>2, <1>4, <4>1
    <3>. QED  BY <3>1, <3>2, <3>3
  <2>2. requests' \in Seq(Request) /\ processed_global_index' \in Nat
        /\ Len(requests') = processed_global_index'
    BY <1>1, <1>2 DEF GameInv, EngineInv
  <2>3. merkle_root_engine' = RootAfter(requests', processed_global_index')
    BY <1>1, <1>2
  <2>. QED  BY <1>2, <2>1, <2>2, <2>3 DEF EngineInv
<1>6. BatcherInv'
  <2>1. /\ batcher \in Batcher
        /\ next_batch_global_index \in 0..(processed_global_index + 1)
        /\ batcher.pc # "init" => next_batch_global_index > 0
        /\ next_batch_global_index > 0 =>
              merkle_root_batcher = RootAfter(requests, next_batch_global_index - 1)
        /\ batcher.pc \in {"submit", "save"} =>
              /\ batcher.end \in next_batch_global_index..processed_global_index
              /\ batcher.job.post = RootAfter(requests, batcher.end)
        /\ ToSet(batcher.job.matches) \subseteq made
    BY DEF GameInv, BatcherInv
  <2>2. next_batch_global_index \in 0..(processed_global_index' + 1)
    BY <1>1, <1>2, <2>1
  <2>3. batcher.pc \in {"submit", "save"} =>
           batcher.end \in next_batch_global_index..processed_global_index'
    BY <1>1, <1>2, <2>1
  <2>. QED  BY <1>2, <1>4, <2>1, <2>2, <2>3 DEF BatcherInv
<1>7. ChainInv'
  BY <1>2, <1>4 DEF ChainInv, GameInv
<1>. QED  BY <1>5, <1>6, <1>7 DEF GameInv

LEMMA EnsureInitializedKeepsGameInv == GameInv /\ EnsureInitialized => GameInv'
<1>. SUFFICES ASSUME GameInv, EnsureInitialized PROVE GameInv'
  OBVIOUS
<1>1. EngineInv' /\ ChainInv'
  BY DEF EngineInv, ChainInv, GameInv, EnsureInitialized, chainVars
<1>2. BatcherInv'
  <2>1. /\ processed_global_index' = processed_global_index /\ processed_global_index \in Nat
        /\ requests' = requests /\ requests \in Seq(Request)
        /\ batcher \in Batcher /\ ToSet(batcher.job.matches) \subseteq made /\ made' = made
    BY DEF EngineInv, BatcherInv, GameInv, EnsureInitialized
  <2>2. batcher' \in Batcher /\ batcher'.pc = "idle" /\ batcher'.job = batcher.job
    BY <2>1 DEF Batcher, EnsureInitialized
  <2>3. next_batch_global_index' = 1 /\ merkle_root_batcher' = RootAfter(requests', 1 - 1)
    BY <2>1, RootFacts DEF EnsureInitialized
  <2>. QED  BY <2>1, <2>2, <2>3 DEF BatcherInv
<1>. QED  BY <1>1, <1>2 DEF GameInv

LEMMA CollectKeepsGameInv == GameInv /\ Collect => GameInv'
<1>. SUFFICES ASSUME GameInv, Collect PROVE GameInv'
  OBVIOUS
<1>1. EngineInv' /\ ChainInv'
  BY DEF EngineInv, ChainInv, GameInv, Collect, chainVars, stateVars
<1>2. BatcherInv'
  <2>. DEFINE batch == SubSeq(requests, next_batch_global_index, processed_global_index)
  <2>1. /\ UNCHANGED <<requests, processed_global_index, next_batch_global_index,
                       merkle_root_batcher, made>>
        /\ batcher' = [batcher EXCEPT !.pc = "submit", !.end = processed_global_index,
                                      !.job = Proven(merkle_root_batcher, batch)]
        /\ batcher.pc = "idle" /\ next_batch_global_index <= processed_global_index
    BY DEF Collect, stateVars, PreRoot
  <2>2. /\ requests \in Seq(Request) /\ Len(requests) \in Nat
        /\ processed_global_index \in Nat /\ processed_global_index <= Len(requests)
        /\ batcher \in Batcher
        /\ next_batch_global_index \in Nat /\ next_batch_global_index > 0
        /\ merkle_root_batcher = RootAfter(requests, next_batch_global_index - 1)
    BY <2>1 DEF GameInv, EngineInv, BatcherInv
  <2>3. PICK b : b = next_batch_global_index - 1
    OBVIOUS
  <2>4. /\ b \in 0..Len(requests) /\ processed_global_index \in b..Len(requests)
        /\ next_batch_global_index = b + 1
    BY <2>1, <2>2, <2>3
  <2>5. \A k \in b..(processed_global_index - 1) :
           MatchPair(RootAfter(requests, k), requests[k + 1]) \in made \cup {Unmatched}
    <3>1. \A k \in b..(processed_global_index - 1) : k \in 0..(processed_global_index - 1)
      BY <2>2, <2>4
    <3>. QED  BY <3>1 DEF GameInv, EngineInv
  <2>6. PICK result : result = ApplyRequests(RootAfter(requests, b), batch)
    OBVIOUS
  <2>7. /\ result \in Result /\ result.root = RootAfter(requests, processed_global_index)
        /\ ToSet(result.matches) \subseteq made
    BY <2>2, <2>4, <2>5, <2>6, BatchReplay
  <2>8. merkle_root_batcher \in Trie
    BY <2>2, <2>3, <2>4, RootFacts
  <2>9. PICK job : job = Proven(merkle_root_batcher, batch)
    OBVIOUS
  <2>10. /\ job \in Job /\ job.post = RootAfter(requests, processed_global_index)
         /\ job.matches = result.matches
    <3>1. result.root \in Trie /\ result.matches \in Seq(Pair)
      BY <2>7 DEF Result
    <3>2. job = [status |-> "pending", pre |-> merkle_root_batcher, post |-> result.root,
                 matches |-> result.matches]
      BY <2>2, <2>3, <2>6, <2>9 DEF Proven
    <3>. QED  BY <2>7, <2>8, <3>1, <3>2 DEF Job
  <2>. HIDE DEF batch
  <2>11. /\ batcher' \in Batcher /\ batcher'.pc = "submit"
         /\ batcher'.end = processed_global_index /\ batcher'.job = job
    BY <2>1, <2>2, <2>9, <2>10 DEF Batcher
  <2>12. /\ next_batch_global_index \in 0..(processed_global_index + 1)
         /\ processed_global_index \in next_batch_global_index..processed_global_index
    BY <2>1, <2>2
  <2>. QED  BY <2>1, <2>2, <2>7, <2>10, <2>11, <2>12 DEF BatcherInv
<1>. QED  BY <1>1, <1>2 DEF GameInv

LEMMA StoreKeepsChainInv ==
  ASSUME GameInv, NEW n, Store(n), UNCHANGED <<made, userToPartner>>
  PROVE  ChainInv'
<1>1. /\ made \in SUBSET Pair /\ jobs \in [Index -> Job]
      /\ \A k \in Index : ToSet(jobs[k].matches) \subseteq made
      /\ userToPartner \in [User -> User \cup {Nobody}]
      /\ batcher.job \in Job /\ ToSet(batcher.job.matches) \subseteq made
  BY DEF GameInv, ChainInv, BatcherInv, Batcher
<1>2. jobs' = jobs \/ jobs' = [jobs EXCEPT ![n] = batcher.job]
  BY DEF Store
<1>3. jobs' \in [Index -> Job] /\ \A k \in Index : jobs'[k] = jobs[k] \/ jobs'[k] = batcher.job
  BY <1>1, <1>2
<1>. QED  BY <1>1, <1>3 DEF ChainInv

LEMMA SubmitKeepsGameInv == GameInv /\ (Submit \/ SubmitLost) => GameInv'
<1>. SUFFICES ASSUME GameInv, Submit \/ SubmitLost PROVE GameInv'
  OBVIOUS
<1>1. /\ Store(batcher.nonce) /\ UNCHANGED <<stateVars, engine, chainVars, made, ends>>
      /\ batcher.pc = "submit"
      /\ batcher' = [batcher EXCEPT !.pc = "save"] \/ batcher' = batcher
  BY DEF Submit, SubmitLost
<1>2. EngineInv'
  BY <1>1 DEF EngineInv, GameInv, stateVars
<1>3. ChainInv'
  BY <1>1, StoreKeepsChainInv DEF chainVars
<1>4. BatcherInv'
  <2>1. batcher \in Batcher
    BY DEF GameInv, BatcherInv
  <2>2. /\ batcher' \in Batcher /\ batcher'.pc \in {"submit", "save"}
        /\ batcher'.end = batcher.end /\ batcher'.job = batcher.job
    BY <1>1, <2>1 DEF Batcher
  <2>3. UNCHANGED <<requests, processed_global_index, next_batch_global_index,
                    merkle_root_batcher, made>>
    BY <1>1 DEF stateVars
  <2>. QED  BY <1>1, <2>2, <2>3 DEF GameInv, BatcherInv
<1>. QED  BY <1>2, <1>3, <1>4 DEF GameInv

LEMMA SaveKeepsGameInv == GameInv /\ Save => GameInv'
<1>. SUFFICES ASSUME GameInv, Save PROVE GameInv'
  OBVIOUS
<1>1. EngineInv' /\ ChainInv'
  BY DEF EngineInv, ChainInv, GameInv, Save, chainVars
<1>2. BatcherInv'
  <2>1. /\ batcher \in Batcher /\ processed_global_index \in Nat
        /\ next_batch_global_index \in Nat
        /\ batcher.end \in next_batch_global_index..processed_global_index
        /\ batcher.job.post = RootAfter(requests, batcher.end)
        /\ ToSet(batcher.job.matches) \subseteq made
    BY DEF GameInv, BatcherInv, EngineInv, Save
  <2>2. /\ UNCHANGED <<requests, processed_global_index, made>>
        /\ next_batch_global_index' = batcher.end + 1
        /\ merkle_root_batcher' = batcher.job.post
        /\ batcher' = [batcher EXCEPT !.pc = "idle", !.nonce = @ + 1]
    BY DEF Save, SaveNextBatch
  <2>3. batcher' \in Batcher /\ batcher'.pc = "idle" /\ batcher'.job = batcher.job
    <3>1. batcher.nonce \in Nat /\ batcher.nonce + 1 \in Nat
      BY <2>1 DEF Batcher
    <3>. QED  BY <2>1, <2>2, <3>1 DEF Batcher
  <2>4. /\ batcher.end + 1 \in 0..(processed_global_index + 1) /\ batcher.end + 1 > 0
        /\ batcher.end + 1 - 1 = batcher.end
    BY <2>1
  <2>. QED  BY <2>1, <2>2, <2>3, <2>4 DEF BatcherInv
<1>. QED  BY <1>1, <1>2 DEF GameInv

-----------------------------------------------------------------------------
(* The partners on chain. *)

Marry(acc, m) == [acc EXCEPT ![m.user1] = m.user2, ![m.user2] = m.user1]

\* What can become of the partners through some of the matches.
Marriages(partner, M) ==
    {p \in [User -> User \cup {Nobody}] :
        \A u \in User : \/ p[u] = partner[u]
                        \/ [user1 |-> u, user2 |-> p[u]] \in M
                        \/ [user1 |-> p[u], user2 |-> u] \in M}

LEMMA MarryFacts ==
  ASSUME NEW partner, NEW M \in SUBSET Pair, NEW acc \in Marriages(partner, M), NEW m \in M
  PROVE  Marry(acc, m) \in Marriages(partner, M)
<1>1. /\ m.user1 \in User /\ m.user2 \in User
      /\ m = [user1 |-> m.user1, user2 |-> m.user2]
      /\ acc \in [User -> User \cup {Nobody}]
  BY DEF Pair, Marriages
<1>2. PICK p : p = Marry(acc, m)
  OBVIOUS
<1>3. /\ p \in [User -> User \cup {Nobody}]
      /\ \A u \in User : p[u] = IF u = m.user2 THEN m.user1
                                ELSE IF u = m.user1 THEN m.user2 ELSE acc[u]
  BY <1>1, <1>2 DEF Marry
<1>4. ASSUME NEW u \in User
      PROVE  \/ p[u] = partner[u]
             \/ [user1 |-> u, user2 |-> p[u]] \in M
             \/ [user1 |-> p[u], user2 |-> u] \in M
  <2>1. CASE u = m.user2
    BY <1>1, <1>3, <2>1
  <2>2. CASE u # m.user2 /\ u = m.user1
    BY <1>1, <1>3, <2>2
  <2>3. CASE u # m.user2 /\ u # m.user1
    <3>1. p[u] = acc[u]
      BY <1>3, <2>3
    <3>. QED  BY <3>1 DEF Marriages
  <2>. QED  BY <2>1, <2>2, <2>3
<1>. QED  BY <1>2, <1>3, <1>4 DEF Marriages

LEMMA PartnersFacts ==
  ASSUME NEW partner \in [User -> User \cup {Nobody}], NEW M \in SUBSET Pair,
         NEW matches \in Seq(M)
  PROVE  Partners(partner, matches) \in Marriages(partner, M)
<1>. DEFINE S == Marriages(partner, M)
            step == [acc \in S |-> [m \in M |-> Marry(acc, m)]]
            Solves(h) ==
               h = [s \in SUBSET DOMAIN matches |->
                      IF s = {} THEN partner
                      ELSE Marry(h[s \ {Max(s)}], matches[Max(s)])]
<1>1. partner \in S /\ DOMAIN matches = 1..Len(matches) /\ Len(matches) \in Nat
  BY DEF Marriages
<1>2. \A acc \in S, m \in M : step[acc][m] = Marry(acc, m) /\ Marry(acc, m) \in S
  BY MarryFacts
<1>. HIDE DEF S
<1>3. IsStep(step, S, M)
  <2>1. \A acc \in S : [m \in M |-> Marry(acc, m)] \in [M -> S]
    BY <1>2
  <2>. QED  BY <2>1 DEF IsStep
<1>. HIDE DEF step
<1>4. \A s \in SUBSET DOMAIN matches : s # {} => matches[Max(s)] \in M
  <2>. SUFFICES ASSUME NEW s \in SUBSET DOMAIN matches, s # {} PROVE matches[Max(s)] \in M
    OBVIOUS
  <2>1. Max(s) \in 1..Len(matches)
    BY <1>1, MaxOfNumbers
  <2>. QED  BY <2>1
<1>5. PICK g \in [SUBSET DOMAIN matches -> S] : FoldSolves(g, step, partner, matches)
  BY <1>1, <1>3, FoldSolvable
<1>6. Solves(g)
  <2>1. ASSUME NEW s \in SUBSET DOMAIN matches
        PROVE  g[s] = IF s = {} THEN partner ELSE Marry(g[s \ {Max(s)}], matches[Max(s)])
    <3>1. g[s \ {Max(s)}] \in S
      OBVIOUS
    <3>. QED  BY <1>2, <1>4, <1>5, <3>1 DEF FoldSolves
  <2>. QED  BY <2>1
<1>. DEFINE h == CHOOSE h : Solves(h)
<1>7. Solves(h)
  <2>. HIDE DEF Solves
  <2>. QED  BY <1>6
<1>8. Partners(partner, matches) = h[DOMAIN matches]
  BY DEF Partners, FoldLeft, MapThenFoldSet, Marry
<1>. HIDE DEF h
<1>9. FoldFits(h, S, step, partner, matches)
  <2>1. h[{}] = partner
    BY <1>7
  <2>2. ASSUME NEW s \in SUBSET DOMAIN matches, s # {}, h[s \ {Max(s)}] \in S
        PROVE  h[s] = step[h[s \ {Max(s)}]][matches[Max(s)]]
    <3>1. h[s] = Marry(h[s \ {Max(s)}], matches[Max(s)])
      BY <1>7, <2>2
    <3>. QED  BY <1>2, <1>4, <2>2, <3>1
  <2>. QED  BY <2>1, <2>2 DEF FoldFits
<1>10. Folded(step, partner, matches) \in S /\ h[DOMAIN matches] = Folded(step, partner, matches)
  BY <1>1, <1>3, <1>9, FoldIsFolded
<1>. QED  BY <1>8, <1>10 DEF S

\* A job's matches make no others partners than those who were matched.
LEMMA JobPartners ==
  ASSUME GameInv, NEW n \in Index
  PROVE  Partners(userToPartner, jobs[n].matches) \in Marriages(userToPartner, made)
<1>1. /\ made \in SUBSET Pair /\ userToPartner \in [User -> User \cup {Nobody}]
      /\ jobs[n].matches \in Seq(Pair) /\ ToSet(jobs[n].matches) \subseteq made
  BY DEF GameInv, ChainInv, Job
<1>2. PICK matches : matches = jobs[n].matches
  OBVIOUS
<1>3. matches \in Seq(made)
  <2>1. \A i \in 1..Len(matches) : matches[i] \in ToSet(matches)
    BY <1>1, <1>2 DEF ToSet
  <2>. QED  BY <1>1, <1>2, <2>1
<1>. QED  BY <1>1, <1>2, <1>3, PartnersFacts

LEMMA RelayKeepsGameInv ==
  ASSUME GameInv, NEW n \in Index, Relay(n)
  PROVE  GameInv'
<1>1. EngineInv' /\ BatcherInv'
  BY DEF EngineInv, BatcherInv, GameInv, Relay, stateVars
<1>2. /\ made \in SUBSET Pair /\ jobs \in [Index -> Job] /\ made' = made
      /\ \A k \in Index : ToSet(jobs[k].matches) \subseteq made
      /\ userToPartner \in [User -> User \cup {Nobody}]
  BY DEF GameInv, ChainInv, Relay
<1>3. /\ jobs' \in [Index -> Job] /\ \A k \in Index : jobs'[k].matches = jobs[k].matches
  <2>1. PICK status \in {"relayed", "failed"} : jobs' = [jobs EXCEPT ![n].status = status]
    BY DEF Relay
  <2>2. [jobs[n] EXCEPT !.status = status] \in Job
        /\ [jobs[n] EXCEPT !.status = status].matches = jobs[n].matches
    <3>1. jobs[n] \in Job
      BY <1>2
    <3>. QED  BY <3>1 DEF Job
  <2>3. jobs' = [jobs EXCEPT ![n] = [jobs[n] EXCEPT !.status = status]]
    BY <2>1
  <2>. QED  BY <1>2, <2>2, <2>3
<1>4. userToPartner' \in [User -> User \cup {Nobody}]
  <2>1. userToPartner' = userToPartner
        \/ userToPartner' = Partners(userToPartner, jobs[n].matches)
    BY DEF Relay, chainVars
  <2>. QED  BY <1>2, <2>1, JobPartners DEF Marriages
<1>5. ChainInv'
  BY <1>2, <1>3, <1>4 DEF ChainInv
<1>. QED  BY <1>1, <1>5 DEF GameInv

LEMMA NextKeepsGameInv == GameInv /\ [Next]_vars => GameInv'
<1>. SUFFICES ASSUME GameInv, [Next]_vars PROVE GameInv'
  OBVIOUS
<1>1. ASSUME NEW r \in Request, See(r) PROVE GameInv'
  BY <1>1, SeeKeepsGameInv
<1>2. CASE Apply
  BY <1>2, ApplyKeepsGameInv
<1>3. CASE ApplyPanics \/ SubmitRefused \/ Crash
  <2>1. Ends /\ UNCHANGED <<jobs, chainVars, made>>
    BY <1>3 DEF ApplyPanics, SubmitRefused, Crash
  <2>. QED  BY <2>1, EndsKeepsGameInv
<1>4. CASE EnsureInitialized
  BY <1>4, EnsureInitializedKeepsGameInv
<1>5. CASE Collect
  BY <1>5, CollectKeepsGameInv
<1>6. CASE Submit \/ SubmitLost
  BY <1>6, SubmitKeepsGameInv
<1>7. CASE Save
  BY <1>7, SaveKeepsGameInv
<1>8. ASSUME NEW n \in Index, Relay(n) PROVE GameInv'
  BY <1>8, RelayKeepsGameInv
<1>9. CASE UNCHANGED vars
  BY <1>9 DEF GameInv, EngineInv, BatcherInv, ChainInv, vars, stateVars, chainVars
<1>. QED  BY <1>1, <1>2, <1>3, <1>4, <1>5, <1>6, <1>7, <1>8, <1>9
          DEF Next, EngineStep, BatcherStep, ChainStep, Done

\* What the engine has made of the requests, where the batcher is in them and
\* whose matches are on the way to the chain, in every reachable state.
THEOREM GameInvariant == Spec => []GameInv
<1>. QED  BY InitHasGameInv, NextKeepsGameInv, PTL DEF Spec

\* The roots of the engine and of the batcher are the replays of the requests
\* in ServerState, through batches of any size, retries and processes that end.
THEOREM RootsAreReplaysHolds == Spec => []RootsAreReplays
<1>1. GameInv => RootsAreReplays
  BY DEF GameInv, EngineInv, BatcherInv, RootsAreReplays, RootAfter
<1>. QED  BY <1>1, GameInvariant, PTL

-----------------------------------------------------------------------------
(* The game of Pairing. *)

WaitingAt(game) ==
    [n \in Number |-> IF Waiting(game, n) = <<>> THEN Nobody ELSE Head(game[n])]

PairsOf(M) == {<<m.user1, m.user2>> : m \in M}

LEMMA WaitingAtFacts ==
  ASSUME NEW game \in Trie, NEW n \in Number
  PROVE  /\ Waiting(game, n) = <<>> => WaitingAt(game)[n] = Nobody
         /\ Waiting(game, n) # <<>> =>
               /\ WaitingAt(game)[n] = Head(Waiting(game, n))
               /\ WaitingAt(game)[n] \in User /\ WaitingAt(game)[n] # Nobody
<1>1. Waiting(game, n) \in Queue
  BY TrieFacts
<1>2. PICK q : q = Waiting(game, n)
  OBVIOUS
<1>3. q # <<>> => Head(q) \in User
  BY <1>1, <1>2 DEF Queue
<1>4. q # <<>> => q = game[n]
  BY <1>2 DEF Waiting
<1>5. WaitingAt(game)[n] = IF q = <<>> THEN Nobody ELSE Head(game[n])
  BY <1>2 DEF WaitingAt
<1>. QED  BY <1>2, <1>3, <1>4, <1>5, GameAssumption

\* A request that the engine plays is a player who comes, meets or leaves, or
\* nothing.
LEMMA PlayIsPairing ==
  ASSUME NEW game \in Trie, NEW r \in Request, ~Panics(game, r)
  PROVE  LET w  == WaitingAt(game)
             w2 == WaitingAt(Played(game, r))
             m  == MatchPair(game, r)
         IN  \/ /\ w[r.number] = Nobody /\ m = Unmatched
                /\ w2 = [w EXCEPT ![r.number] = r.address]
             \/ /\ w[r.number] # Nobody /\ m # Unmatched
                /\ m.user1 = w[r.number] /\ m.user2 = r.address
                /\ w2 = [w EXCEPT ![r.number] = Nobody]
             \/ /\ w[r.number] # Nobody /\ m = Unmatched
                /\ w2 = [w EXCEPT ![r.number] = Nobody]
             \/ m = Unmatched /\ w2 = w
<1>1. PICK after, n, w, w2 : /\ after = Played(game, r) /\ n = r.number
                             /\ w = WaitingAt(game) /\ w2 = WaitingAt(after)
  OBVIOUS
<1>2. r.address \in User /\ n \in Number /\ r.kind \in {"submit", "cancel"}
  BY <1>1, RequestFacts
<1>3. after \in Trie /\ \A k \in Number \ {n} : Waiting(after, k) = Waiting(game, k)
  BY <1>1, PlayedWaiting
<1>4. w = [k \in Number |-> w[k]] /\ w2 = [k \in Number |-> w2[k]]
  BY <1>1 DEF WaitingAt
<1>5. \A k \in Number \ {n} : w2[k] = w[k]
  <2>1. \A k \in Number : /\ w[k] = IF Waiting(game, k) = <<>> THEN Nobody
                                    ELSE Head(Waiting(game, k))
                          /\ w2[k] = IF Waiting(after, k) = <<>> THEN Nobody
                                     ELSE Head(Waiting(after, k))
    BY <1>1, <1>3, WaitingAtFacts
  <2>. QED  BY <1>3, <2>1
<1>6. \A x : w2[n] = x => w2 = [w EXCEPT ![n] = x]
  BY <1>2, <1>4, <1>5
<1>7. CASE r.kind = "submit" /\ Waiting(game, n) = <<>>
  <2>1. Waiting(after, n) = <<r.address>> /\ MatchPair(game, r) = Unmatched
    BY <1>1, <1>7, PlayedWaiting
  <2>2. w[n] = Nobody /\ w2[n] = r.address
    <3>1. w2[n] = Head(Waiting(after, n))
      BY <1>1, <1>2, <1>3, <2>1, WaitingAtFacts
    <3>. QED  BY <1>1, <1>2, <1>7, <2>1, <3>1, WaitingAtFacts
  <2>. QED  BY <1>1, <1>6, <2>1, <2>2
<1>8. CASE r.kind = "submit" /\ Waiting(game, n) # <<>>
  <2>1. /\ Waiting(after, n) = <<>> /\ MatchPair(game, r) # Unmatched
        /\ MatchPair(game, r) = [user1 |-> Head(Waiting(game, n)), user2 |-> r.address]
    BY <1>1, <1>8, PlayedWaiting
  <2>2. w[n] # Nobody /\ w[n] = Head(Waiting(game, n)) /\ w2[n] = Nobody
    BY <1>1, <1>2, <1>3, <1>8, <2>1, WaitingAtFacts
  <2>. QED  BY <1>1, <1>6, <2>1, <2>2
<1>9. CASE r.kind = "cancel"
  <2>1. Waiting(after, n) = <<>> /\ MatchPair(game, r) = Unmatched
    BY <1>1, <1>9, PlayedWaiting
  <2>2. w2[n] = Nobody
    BY <1>1, <1>2, <1>3, <2>1, WaitingAtFacts
  <2>3. w[n] = Nobody => w2 = w
    <3>1. w[n] = Nobody => \A k \in Number : w2[k] = w[k]
      BY <1>5, <2>2
    <3>. QED  BY <1>4, <3>1
  <2>. QED  BY <1>1, <1>6, <2>1, <2>2, <2>3
<1>. QED  BY <1>2, <1>7, <1>8, <1>9

LEMMA EmptyTrieWaiting == WaitingAt(TrieRootEmpty) = [n \in Number |-> Nobody]
<1>1. \A n \in Number : Waiting(TrieRootEmpty, n) = <<>>
  BY EmptyTrie DEF Waiting
<1>. QED  BY <1>1 DEF WaitingAt

\* What Pairing sees of a state and of a step.
LEMMA SeenInit ==
  Game!Init <=> /\ WaitingAt(merkle_root_engine) = [n \in Number |-> Nobody]
                /\ PairsOf(made) = {}
                /\ userToPartner = [p \in User |-> Nobody]
  BY DEF Game!Init, WaitingAt, PairsOf

LEMMA SeenComes ==
  ASSUME NEW p \in User, NEW n \in Number,
         WaitingAt(merkle_root_engine)[n] = Nobody,
         WaitingAt(merkle_root_engine') = [WaitingAt(merkle_root_engine) EXCEPT ![n] = p],
         UNCHANGED <<made, userToPartner>>
  PROVE  Game!Next
<1>1. Game!Come(p, n)
  BY DEF Game!Come, WaitingAt
<1>. QED  BY <1>1 DEF Game!Next

LEMMA SeenMeets ==
  ASSUME NEW p \in User, NEW n \in Number,
         WaitingAt(merkle_root_engine)[n] # Nobody,
         PairsOf(made') = PairsOf(made) \cup {<<WaitingAt(merkle_root_engine)[n], p>>},
         WaitingAt(merkle_root_engine') = [WaitingAt(merkle_root_engine) EXCEPT ![n] = Nobody],
         userToPartner' = userToPartner
  PROVE  Game!Next
<1>1. Game!Meet(p, n)
  BY DEF Game!Meet, WaitingAt, PairsOf
<1>. QED  BY <1>1 DEF Game!Next

LEMMA SeenLeaves ==
  ASSUME NEW n \in Number,
         WaitingAt(merkle_root_engine)[n] # Nobody,
         WaitingAt(merkle_root_engine') = [WaitingAt(merkle_root_engine) EXCEPT ![n] = Nobody],
         UNCHANGED <<made, userToPartner>>
  PROVE  Game!Next
<1>1. Game!Leave(n)
  BY DEF Game!Leave, WaitingAt
<1>. QED  BY <1>1 DEF Game!Next

LEMMA SeenStartsAnew ==
  ASSUME WaitingAt(merkle_root_engine') = [n \in Number |-> Nobody],
         UNCHANGED <<made, userToPartner>>
  PROVE  Game!Next
<1>1. Game!StartAnew
  BY DEF Game!StartAnew, WaitingAt
<1>. QED  BY <1>1 DEF Game!Next

LEMMA SeenPublishes ==
  ASSUME userToPartner' \in Marriages(userToPartner, made),
         UNCHANGED <<merkle_root_engine, made>>
  PROVE  Game!Next
<1>1. ASSUME NEW u \in User
      PROVE  \/ userToPartner'[u] = userToPartner[u]
             \/ {<<u, userToPartner'[u]>>, <<userToPartner'[u], u>>} \cap PairsOf(made) # {}
  <2>1. \A m \in made : <<m.user1, m.user2>> \in PairsOf(made)
    BY DEF PairsOf
  <2>2. PICK v : v = userToPartner'[u]
    OBVIOUS
  <2>3. CASE [user1 |-> u, user2 |-> v] \in made
    <3>1. PICK m \in made : m = [user1 |-> u, user2 |-> v]
      BY <2>3
    <3>2. m.user1 = u /\ m.user2 = v
      BY <3>1
    <3>. QED  BY <2>1, <2>2, <3>2
  <2>4. CASE [user1 |-> v, user2 |-> u] \in made
    <3>1. PICK m \in made : m = [user1 |-> v, user2 |-> u]
      BY <2>4
    <3>2. m.user1 = v /\ m.user2 = u
      BY <3>1
    <3>. QED  BY <2>1, <2>2, <3>2
  <2>. QED  BY <2>2, <2>3, <2>4 DEF Marriages
<1>2. userToPartner' \in [User -> User \cup {Nobody}]
  BY DEF Marriages
<1>3. Game!Publish
  BY <1>1, <1>2 DEF Game!Publish, PairsOf
<1>. QED  BY <1>3 DEF Game!Next

LEMMA SeenStutters ==
  ASSUME WaitingAt(merkle_root_engine') = WaitingAt(merkle_root_engine),
         UNCHANGED <<made, userToPartner>>
  PROVE  UNCHANGED Game!vars
  BY DEF Game!vars, WaitingAt

LEMMA ApplyPlays == GameInv /\ Apply => [Game!Next]_(Game!vars)
<1>. SUFFICES ASSUME GameInv, Apply PROVE [Game!Next]_(Game!vars)
  OBVIOUS
<1>1. PICK game, r, m : /\ game = merkle_root_engine /\ r = Last(requests)
                        /\ m = MatchPair(game, r)
  OBVIOUS
<1>2. game \in Trie /\ r \in Request /\ ~Panics(game, r)
  BY <1>1, SeenFacts DEF Apply
<1>3. /\ merkle_root_engine' = Played(game, r)
      /\ made' = (IF m = Unmatched THEN made ELSE made \cup {m})
      /\ userToPartner' = userToPartner
  BY <1>1 DEF Apply, SetEngineRoot, chainVars
<1>4. PICK w, w2, n : /\ w = WaitingAt(merkle_root_engine)
                      /\ w2 = WaitingAt(merkle_root_engine') /\ n = r.number
  OBVIOUS
<1>5. r.address \in User /\ n \in Number
  BY <1>2, <1>4, RequestFacts
<1>6. \/ /\ w[n] = Nobody /\ m = Unmatched
         /\ w2 = [w EXCEPT ![n] = r.address]
      \/ /\ w[n] # Nobody /\ m # Unmatched /\ m.user1 = w[n] /\ m.user2 = r.address
         /\ w2 = [w EXCEPT ![n] = Nobody]
      \/ /\ w[n] # Nobody /\ m = Unmatched
         /\ w2 = [w EXCEPT ![n] = Nobody]
      \/ m = Unmatched /\ w2 = w
  BY <1>1, <1>2, <1>3, <1>4, PlayIsPairing
<1>7. CASE w[n] = Nobody /\ m = Unmatched /\ w2 = [w EXCEPT ![n] = r.address]
  BY <1>3, <1>4, <1>5, <1>7, SeenComes
<1>8. CASE /\ w[n] # Nobody /\ m # Unmatched /\ m.user1 = w[n] /\ m.user2 = r.address
           /\ w2 = [w EXCEPT ![n] = Nobody]
  <2>1. PairsOf(made') = PairsOf(made) \cup {<<w[n], r.address>>}
    <3>1. made' = made \cup {m}
      BY <1>3, <1>8
    <3>2. PairsOf(made \cup {m}) = PairsOf(made) \cup {<<m.user1, m.user2>>}
      BY DEF PairsOf
    <3>. QED  BY <1>8, <3>1, <3>2
  <2>. QED  BY <1>3, <1>4, <1>5, <1>8, <2>1, SeenMeets
<1>9. CASE w[n] # Nobody /\ m = Unmatched /\ w2 = [w EXCEPT ![n] = Nobody]
  BY <1>3, <1>4, <1>5, <1>9, SeenLeaves
<1>10. CASE m = Unmatched /\ w2 = w
  BY <1>3, <1>4, <1>10, SeenStutters
<1>. QED  BY <1>6, <1>7, <1>8, <1>9, <1>10

LEMMA NextPlays == GameInv /\ [Next]_vars => [Game!Next]_(Game!vars)
<1>. SUFFICES ASSUME GameInv, [Next]_vars PROVE [Game!Next]_(Game!vars)
  OBVIOUS
<1>1. CASE Apply
  BY <1>1, ApplyPlays
<1>2. CASE ApplyPanics \/ SubmitRefused \/ Crash
  <2>1. merkle_root_engine' = TrieRootEmpty /\ UNCHANGED <<made, userToPartner>>
    BY <1>2 DEF ApplyPanics, SubmitRefused, Crash, Ends, chainVars
  <2>. QED  BY <2>1, EmptyTrieWaiting, SeenStartsAnew
<1>3. ASSUME NEW n \in Index, Relay(n) PROVE [Game!Next]_(Game!vars)
  <2>1. UNCHANGED <<merkle_root_engine, made>>
    BY <1>3 DEF Relay, stateVars
  <2>2. CASE userToPartner' = userToPartner
    BY <2>1, <2>2, SeenStutters
  <2>3. CASE userToPartner' = Partners(userToPartner, jobs[n].matches)
    BY <2>1, <2>3, JobPartners, SeenPublishes
  <2>. QED  BY <1>3, <2>2, <2>3 DEF Relay, chainVars
<1>4. CASE \/ \E r \in Request : See(r)
           \/ EnsureInitialized \/ Collect \/ Submit \/ SubmitLost \/ Save
           \/ UNCHANGED vars
  <2>1. UNCHANGED <<merkle_root_engine, made, userToPartner>>
    BY <1>4 DEF See, EnsureInitialized, Collect, Submit, SubmitLost, Save,
                vars, stateVars, chainVars
  <2>. QED  BY <2>1, SeenStutters
<1>. QED  BY <1>1, <1>2, <1>3, <1>4 DEF Next, EngineStep, BatcherStep, ChainStep, Done

\* Server, coprocessor node and contract implement the game of Pairing: at most
\* one player waits at a number, and the partners that the contract has on
\* chain are users whom an engine matched, whatever ends in between.
THEOREM PlaysTheGameHolds == Spec => PlaysTheGame
<1>1. Init => Game!Init
  <2>. SUFFICES ASSUME Init PROVE Game!Init
    OBVIOUS
  <2>1. PairsOf(made) = {}
    BY DEF Init, PairsOf
  <2>. QED  BY <2>1, EmptyTrieWaiting, SeenInit DEF Init
<1>. QED  BY <1>1, GameInvariant, NextPlays, PTL DEF Spec, PlaysTheGame, Game!Spec
=============================================================================
