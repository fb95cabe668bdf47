-------------------------- MODULE ExecClient_proofs --------------------------
(***************************************************************************)
(* Proofs about ExecClient, for any accounts, transactions, allow lists,   *)
(* activation times and genesis.                                           *)
(***************************************************************************)
EXTENDS ExecClient, FoldLemmas, SequenceTheorems

-----------------------------------------------------------------------------
(* The inductive invariants. *)

WorldState == [nonce : [Account -> Nat], balance : [Account -> Nat], endowed : Nat]
Block == [time : Nat, tx : Tx \cup {NoTx}, state : WorldState]

\* A block's state is what its transaction makes of the parent's.
Follows(block, parent) ==
    IF block.tx = NoTx
    THEN block.state = parent.state
    ELSE Executable(parent.state, block.tx) /\ block.state = Executed(parent.state, block.tx)

\* Along a chain every block follows its parent, and no nonce goes back.
ChainOK(c) ==
    /\ c \in Seq(Block) /\ c # <<>>
    /\ c[1].tx = NoTx
    /\ \A i \in 2..Len(c) : Follows(c[i], c[i - 1])
    /\ \A i, k \in 1..Len(c) : i <= k =>
          \A a \in Account : c[i].state.nonce[a] <= c[k].state.nonce[a]

ChainInv == ChainOK(chain)

HeadEvent == [time : Nat \ {0}, mined : SUBSET Tx, reverted : SUBSET Tx]

\* The heads that have come since the one the pool is done with.
HeadsDue == {settled} \cup {events[i].time : i \in DOMAIN events}

EventInv ==
    /\ events \in Seq(HeadEvent)
    /\ update \in {"idle", "forks", "timestamp"}
    /\ update # "idle" => events # <<>>
    /\ settled \in Nat /\ latestHead \in Nat
    /\ \A i \in DOMAIN events : events[i].time <= latestHead

\* The validator's time is that of the head the pool is done with, or of the next
\* one; it takes a fork for active only if a head was past it.
ValidatorInv ==
    /\ latestTimestamp = IF update = "timestamp" THEN Head(events).time ELSE settled
    /\ forkTracker \subseteq ActiveForks(latestHead)
    /\ maxBlobCount \in Nat /\ maxBlobCount <= BlobLimit(ActiveForks(latestHead))

\* How far a transaction came says what it has passed.
AllowedIn ==
    /\ pool \subseteq Tx
    /\ validation \in [Tx -> {"none", "allowed", "checked"}]
    /\ checkedAt \in [Tx -> SUBSET Nat]
    /\ \A tx \in Tx :
          /\ tx \in pool => validation[tx] = "none"
          /\ validation[tx] # "none" \/ tx \in pool => ListAllowed(tx)
          /\ validation[tx] = "checked" \/ tx \in pool => ForkWasActive(tx)

PoolInv == EventInv /\ ValidatorInv /\ AllowedIn
-----------------------------------------------------------------------------
(* What a transaction does to the accounts. *)

LEMMA BodyFacts ==
  ASSUME NEW tx \in Tx
  PROVE  /\ Body[tx].sender \in Account /\ Body[tx].to \in Account \cup {NoTo}
         /\ Body[tx].nonce \in Nat /\ Body[tx].value \in Nat /\ Body[tx].blobs \in Nat
         /\ tx # NoTx
  BY ExecAssumption

LEMMA BumpFacts ==
  ASSUME NEW s \in WorldState, NEW a \in Account
  PROVE  /\ BumpNonce(s, a) \in WorldState
         /\ BumpNonce(s, a).balance = s.balance
         /\ BumpNonce(s, a).endowed = s.endowed
         /\ BumpNonce(s, a).nonce = [s.nonce EXCEPT ![a] = @ + 1]
         /\ BumpNonce(s, a).nonce[a] = s.nonce[a] + 1
         /\ \A x \in Account : s.nonce[x] <= BumpNonce(s, a).nonce[x]
  BY DEF BumpNonce, WorldState

\* A frame moves a value that is there, and bumps the nonce of a creation.
LEMMA FrameFacts ==
  ASSUME NEW s \in WorldState, NEW tx \in Tx
  PROVE  /\ Frame(s, tx) \in WorldState
         /\ \A x \in Account : s.nonce[x] <= Frame(s, tx).nonce[x]
         /\ Body[tx].to # NoTo => Frame(s, tx).nonce = s.nonce
         /\ Body[tx].to = NoTo /\ Funded(s, tx) =>
               Frame(s, tx).nonce[From(tx)] = s.nonce[From(tx)] + 1
<1>. DEFINE body == Body[tx]
<1>0. /\ body.sender \in Account /\ body.to \in Account \cup {NoTo} /\ body.value \in Nat
      /\ From(tx) = body.sender
  BY BodyFacts DEF From
<1>1. CASE ~Funded(s, tx)
  <2>1. Frame(s, tx) = s
    BY <1>1 DEF Frame
  <2>. QED  BY <1>1, <2>1 DEF WorldState
<1>2. CASE Funded(s, tx) /\ body.to = NoTo
  <2>. DEFINE t == BumpNonce(s, body.sender)
              drawn == [s.balance EXCEPT ![body.sender] = @ - body.value]
  <2>1. Frame(s, tx) = [t EXCEPT !.balance = drawn, !.endowed = @ + body.value]
    BY <1>2 DEF Frame
  <2>2. /\ t \in WorldState /\ t.balance = s.balance
        /\ t.nonce[body.sender] = s.nonce[body.sender] + 1
        /\ \A x \in Account : s.nonce[x] <= t.nonce[x]
    BY <1>0, BumpFacts
  <2>3. drawn \in [Account -> Nat] /\ t.endowed + body.value \in Nat
    BY <1>0, <1>2, <2>2 DEF Funded, WorldState
  <2>. HIDE DEF t, drawn
  <2>4. /\ Frame(s, tx) \in WorldState /\ Frame(s, tx).nonce = t.nonce
    BY <1>0, <2>1, <2>2, <2>3 DEF WorldState
  <2>. QED  BY <1>0, <1>2, <2>2, <2>4
<1>3. CASE Funded(s, tx) /\ body.to # NoTo
  <2>. DEFINE drawn == [s.balance EXCEPT ![body.sender] = @ - body.value]
              moved == [drawn EXCEPT ![body.to] = @ + body.value]
  <2>1. Frame(s, tx) = [s EXCEPT !.balance = moved]
    BY <1>3 DEF Frame, Transferred
  <2>2. s.balance[body.sender] - body.value \in Nat /\ s.balance \in [Account -> Nat]
    BY <1>0, <1>3 DEF Funded, WorldState
  <2>3. drawn \in [Account -> Nat]
    BY <1>0, <2>2
  <2>. HIDE DEF drawn
  <2>4. moved \in [Account -> Nat]
    BY <1>0, <1>3, <2>3
  <2>. HIDE DEF moved
  <2>5. Frame(s, tx) \in WorldState /\ Frame(s, tx).nonce = s.nonce
    BY <2>1, <2>4 DEF WorldState
  <2>. QED  BY <1>3, <2>5 DEF WorldState
<1>. QED  BY <1>1, <1>2, <1>3

\* A transaction uses up the nonce of its sender, but for a creation that the
\* sender cannot fund.
LEMMA ExecutedFacts ==
  ASSUME NEW s \in WorldState, NEW tx \in Tx, Executable(s, tx)
  PROVE  /\ Executed(s, tx) \in WorldState
         /\ \A x \in Account : s.nonce[x] <= Executed(s, tx).nonce[x]
         /\ Body[tx].to # NoTo \/ Funded(s, tx) =>
               Executed(s, tx).nonce[From(tx)] = Body[tx].nonce + 1
<1>1. From(tx) \in Account /\ s.nonce[From(tx)] = Body[tx].nonce
  BY BodyFacts DEF Executable, From
<1>2. CASE Body[tx].to = NoTo
  <2>1. Executed(s, tx) = Frame(s, tx)
    BY <1>2 DEF Executed, Reimburse, DeductCaller
  <2>. QED  BY <1>1, <1>2, <2>1, FrameFacts
<1>3. CASE Body[tx].to # NoTo
  <2>. DEFINE t == BumpNonce(s, From(tx))
  <2>1. Executed(s, tx) = Frame(t, tx)
    BY <1>3 DEF Executed, Reimburse, DeductCaller
  <2>2. /\ t \in WorldState /\ t.nonce[From(tx)] = s.nonce[From(tx)] + 1
        /\ \A x \in Account : s.nonce[x] <= t.nonce[x]
    BY <1>1, BumpFacts
  <2>. HIDE DEF t
  <2>3. Frame(t, tx) \in WorldState /\ Frame(t, tx).nonce = t.nonce
    BY <1>3, <2>2, FrameFacts
  <2>. QED  BY <1>1, <2>1, <2>2, <2>3
<1>. QED  BY <1>2, <1>3

-----------------------------------------------------------------------------
(* Chains. *)

LEMMA BlocksOnFacts ==
  ASSUME NEW parent \in Block, NEW blk \in BlocksOn(parent)
  PROVE  /\ blk \in Block /\ blk.time # 0
         /\ Follows(blk, parent)
         /\ \A x \in Account : parent.state.nonce[x] <= blk.state.nonce[x]
<1>1. PICK t \in parent.time..MaxTime \ {0},
           tx \in {x \in Tx : Executable(parent.state, x)} \cup {NoTx} :
        blk = [time |-> t, tx |-> tx,
               state |-> IF tx = NoTx THEN parent.state ELSE Executed(parent.state, tx)]
  BY DEF BlocksOn
<1>2. t \in Nat /\ t # 0 /\ parent.state \in WorldState
  BY ExecAssumption DEF Block
<1>3. CASE tx = NoTx
  BY <1>1, <1>2, <1>3 DEF Block, Follows, WorldState
<1>4. CASE tx # NoTx
  <2>1. /\ tx \in Tx /\ Executable(parent.state, tx)
        /\ blk = [time |-> t, tx |-> tx, state |-> Executed(parent.state, tx)]
    BY <1>1, <1>4
  <2>2. /\ Executed(parent.state, tx) \in WorldState
        /\ \A x \in Account : parent.state.nonce[x] <= Executed(parent.state, tx).nonce[x]
    BY <1>2, <2>1, ExecutedFacts
  <2>. QED  BY <1>2, <1>4, <2>1, <2>2 DEF Block, Follows
<1>. QED  BY <1>3, <1>4

LEMMA ChainExtends ==
  ASSUME NEW c, ChainOK(c), NEW blk \in BlocksOn(c[Len(c)])
  PROVE  ChainOK(Append(c, blk))
<1>. DEFINE n == Len(c)
            d == Append(c, blk)
<1>1. c \in Seq(Block) /\ n \in Nat \ {0} /\ c[n] \in Block
  <2>1. c \in Seq(Block) /\ c # <<>>  BY DEF ChainOK
  <2>2. n \in Nat \ {0}  BY <2>1, EmptySeq
  <2>. QED  BY <2>1, <2>2, ElementOfSeq
<1>2. /\ blk \in Block /\ Follows(blk, c[n])
      /\ \A x \in Account : c[n].state.nonce[x] <= blk.state.nonce[x]
  BY <1>1, BlocksOnFacts
<1>3. /\ d \in Seq(Block) /\ d # <<>> /\ Len(d) = n + 1 /\ d[n + 1] = blk
      /\ \A i \in 1..n : d[i] = c[i]
  BY <1>1, <1>2, AppendProperties
<1>. HIDE DEF d
<1>4. d[1].tx = NoTx
  BY <1>1, <1>3 DEF ChainOK
<1>5. ASSUME NEW i \in 2..Len(d) PROVE Follows(d[i], d[i - 1])
  <2>1. CASE i = n + 1
    <3>1. i - 1 = n /\ n \in 1..n
      BY <1>1, <2>1
    <3>. QED  BY <1>2, <1>3, <2>1, <3>1
  <2>2. CASE i # n + 1
    <3>1. i \in 2..n /\ i \in 1..n /\ i - 1 \in 1..n
      BY <1>1, <1>3, <2>2
    <3>. QED  BY <1>3, <3>1 DEF ChainOK
  <2>. QED  BY <2>1, <2>2
<1>6. ASSUME NEW i \in 1..Len(d), NEW k \in 1..Len(d), i <= k, NEW x \in Account
      PROVE  d[i].state.nonce[x] <= d[k].state.nonce[x]
  <2>1. \A j \in 1..Len(d) : d[j].state.nonce[x] \in Nat
    <3>1. \A j \in 1..Len(d) : d[j] \in Block
      BY <1>3, ElementOfSeq
    <3>. QED  BY <3>1 DEF Block, WorldState
  <2>2. \A j \in 1..n : c[j].state.nonce[x] <= c[n].state.nonce[x]
    BY <1>1 DEF ChainOK
  <2>3. CASE k = n + 1 /\ i = n + 1
    BY <2>1, <2>3
  <2>4. CASE k = n + 1 /\ i \in 1..n
    <3>1. d[i].state.nonce[x] <= d[n].state.nonce[x] /\ d[n].state.nonce[x] <= d[k].state.nonce[x]
      BY <1>1, <1>2, <1>3, <2>2, <2>4
    <3>. QED  BY <1>1, <1>3, <2>1, <2>4, <3>1
  <2>5. CASE k \in 1..n
    <3>1. i \in 1..n
      BY <1>1, <1>6, <2>5
    <3>. QED  BY <1>3, <1>6, <2>5, <3>1 DEF ChainOK
  <2>6. (k = n + 1 \/ k \in 1..n) /\ (i = n + 1 \/ i \in 1..n)
    BY <1>1, <1>3
  <2>7. k \in 1..n => i \in 1..n
    BY <1>1, <1>6
  <2>. QED  BY <2>3, <2>4, <2>5, <2>6, <2>7
<1>7. ChainOK(d)
  BY <1>3, <1>4, <1>5, <1>6 DEF ChainOK
<1>. QED  BY <1>7 DEF d

LEMMA ChainFront ==
  ASSUME NEW c, ChainOK(c), Len(c) > 1
  PROVE  /\ ChainOK(Front(c))
         /\ Len(Front(c)) = Len(c) - 1
         /\ Front(c)[Len(Front(c))] = c[Len(c) - 1]
<1>1. c \in Seq(Block) /\ Len(c) \in Nat
  BY DEF ChainOK
<1>2. /\ Front(c) \in Seq(Block) /\ Len(Front(c)) = Len(c) - 1
      /\ \A i \in 1..(Len(c) - 1) : Front(c)[i] = c[i]
  <2>1. 1 \in 1..(Len(c) + 1) /\ Len(c) - 1 \in (1 - 1)..Len(c)
    BY <1>1
  <2>2. /\ SubSeq(c, 1, Len(c) - 1) \in Seq(Block)
        /\ Len(SubSeq(c, 1, Len(c) - 1)) = (Len(c) - 1) - 1 + 1
        /\ \A i \in 1..((Len(c) - 1) - 1 + 1) : SubSeq(c, 1, Len(c) - 1)[i] = c[1 + i - 1]
    BY <1>1, <2>1, SubSeqProperties
  <2>. QED  BY <1>1, <2>2 DEF Front
<1>3. Front(c) # <<>>
  BY <1>1, <1>2
<1>4. \A i \in 2..Len(Front(c)) : i \in 2..Len(c) /\ i \in 1..(Len(c) - 1) /\ i - 1 \in 1..(Len(c) - 1)
  BY <1>1, <1>2
<1>5. \A i \in 1..Len(Front(c)) : i \in 1..Len(c) /\ i \in 1..(Len(c) - 1)
  BY <1>1, <1>2
<1>6. Front(c)[1].tx = NoTx
  BY <1>1, <1>2 DEF ChainOK
<1>7. \A i \in 2..Len(Front(c)) : Follows(Front(c)[i], Front(c)[i - 1])
  BY <1>2, <1>4 DEF ChainOK
<1>8. \A i, k \in 1..Len(Front(c)) : i <= k =>
         \A x \in Account : Front(c)[i].state.nonce[x] <= Front(c)[k].state.nonce[x]
  BY <1>2, <1>5 DEF ChainOK
<1>9. Front(c)[Len(Front(c))] = c[Len(c) - 1]
  BY <1>1, <1>2
<1>. QED  BY <1>2, <1>3, <1>6, <1>7, <1>8, <1>9 DEF ChainOK

LEMMA InitChain == Init => ChainInv
<1>. SUFFICES ASSUME Init PROVE ChainInv  OBVIOUS
<1>1. GenesisState \in WorldState
  BY ExecAssumption DEF GenesisState, WorldState
<1>2. chain = <<[time |-> 0, tx |-> NoTx, state |-> GenesisState]>>
  BY DEF Init
<1>3. chain \in Seq(Block) /\ Len(chain) = 1 /\ chain[1] = [time |-> 0, tx |-> NoTx, state |-> GenesisState]
  BY <1>1, <1>2 DEF Block
<1>4. chain[1].tx = NoTx /\ chain[1].state = GenesisState /\ chain # <<>>
  BY <1>2, <1>3
<1>5. \A a \in Account : GenesisState.nonce[a] <= GenesisState.nonce[a]
  BY <1>1 DEF WorldState
<1>. QED  BY <1>3, <1>4, <1>5 DEF ChainInv, ChainOK

LEMMA ChainInductive == ChainInv /\ [Next]_vars => ChainInv'
<1>. SUFFICES ASSUME ChainInv, [Next]_vars PROVE ChainInv'  OBVIOUS
<1>1. CASE NewBlock
  BY <1>1, ChainExtends DEF NewBlock, Head0, ChainInv
<1>2. CASE Reorg
  <2>1. PICK b \in BlocksOn(chain[Len(chain) - 1]) : chain' = Append(Front(chain), b)
    BY <1>2 DEF Reorg
  <2>2. ChainOK(Front(chain)) /\ b \in BlocksOn(Front(chain)[Len(Front(chain))])
    BY <1>2, <2>1, ChainFront DEF Reorg, ChainInv
  <2>. QED  BY <2>1, <2>2, ChainExtends DEF ChainInv
<1>3. CASE UNCHANGED chain
  BY <1>3 DEF ChainInv, ChainOK, Follows
<1>4. NewBlock \/ Reorg \/ UNCHANGED chain
  BY DEF Next, UpdateForks, UpdateTimestamp, UpdatePool, CheckAllowList, CheckForks, CheckState,
         Restart, Idle, vars
<1>. QED  BY <1>1, <1>2, <1>3, <1>4

\* A transaction is in the chain once, but for creations that their sender could
\* not fund (evm/mod.rs: deduct_caller leaves the nonce of a creation to a frame
\* that the missing balance keeps from being run).
THEOREM OnlyUnfundedCreationsRepeatHolds == Spec => []OnlyUnfundedCreationsRepeat
<1>1. ASSUME ChainInv PROVE OnlyUnfundedCreationsRepeat
  <2>. SUFFICES ASSUME NEW i \in DOMAIN chain, NEW k \in DOMAIN chain,
                       i < k, chain[i].tx # NoTx, chain[i].tx = chain[k].tx,
                       Body[chain[i].tx].to # NoTo \/ Funded(chain[i - 1].state, chain[i].tx)
                PROVE  FALSE
    BY DEF OnlyUnfundedCreationsRepeat
  <2>. DEFINE tx == chain[i].tx
  <2>1. chain \in Seq(Block) /\ i \in 1..Len(chain) /\ k \in 1..Len(chain) /\ Len(chain) \in Nat
    BY <1>1 DEF ChainInv, ChainOK
  <2>2. i \in 2..Len(chain) /\ k \in 2..Len(chain)
    BY <1>1, <2>1 DEF ChainInv, ChainOK
  <2>3. /\ i - 1 \in 1..Len(chain) /\ k - 1 \in 1..Len(chain) /\ i <= k - 1
    BY <2>1, <2>2
  <2>4. \A j \in 1..Len(chain) : chain[j] \in Block
    BY <2>1, ElementOfSeq
  <2>5. tx \in Tx /\ From(tx) \in Account /\ Body[tx].nonce \in Nat
    BY <2>1, <2>4, BodyFacts DEF Block, From
  <2>6. /\ chain[i - 1].state \in WorldState /\ chain[i].state \in WorldState
        /\ chain[k - 1].state \in WorldState
    BY <2>1, <2>3, <2>4 DEF Block
  <2>7. /\ Executable(chain[i - 1].state, tx) /\ chain[i].state = Executed(chain[i - 1].state, tx)
        /\ Executable(chain[k - 1].state, tx)
    BY <1>1, <2>2 DEF ChainInv, ChainOK, Follows
  <2>8. chain[i].state.nonce[From(tx)] = Body[tx].nonce + 1
    BY <2>5, <2>6, <2>7, ExecutedFacts
  <2>9. chain[k - 1].state.nonce[From(tx)] = Body[tx].nonce
    BY <2>7 DEF Executable
  <2>10. chain[i].state.nonce[From(tx)] <= chain[k - 1].state.nonce[From(tx)]
    BY <1>1, <2>1, <2>3, <2>5 DEF ChainInv, ChainOK
  <2>. QED  BY <2>5, <2>8, <2>9, <2>10
<1>. QED  BY <1>1, InitChain, ChainInductive, PTL DEF Spec
-----------------------------------------------------------------------------
(* The ether. *)

\* What the accounts have and what went to contracts.
Worth(s) == SumFunctionOnSet(s.balance, Account) + s.endowed

LEMMA WorthIsInt ==
  ASSUME NEW s \in WorldState
  PROVE  s.balance \in [Account -> Int] /\ s.endowed \in Int
         /\ SumFunctionOnSet(s.balance, Account) \in Int
<1>1. s.balance \in [Account -> Int] /\ s.endowed \in Int
  BY DEF WorldState
<1>. QED  BY <1>1, SumIsInt, ExecAssumption

\* A frame takes a value from one account and gives it to another, or to a
\* contract.
LEMMA FrameConserves ==
  ASSUME NEW s \in WorldState, NEW tx \in Tx
  PROVE  Worth(Frame(s, tx)) = Worth(s)
<1>. DEFINE body == Body[tx]
            drawn == [s.balance EXCEPT ![body.sender] = @ - body.value]
            moved == [drawn EXCEPT ![body.to] = @ + body.value]
<1>1. /\ body.sender \in Account /\ body.to \in Account \cup {NoTo} /\ body.value \in Nat
      /\ s.balance \in [Account -> Int] /\ s.endowed \in Int
      /\ SumFunctionOnSet(s.balance, Account) \in Int
  BY BodyFacts, WorthIsInt
<1>2. SumFunctionOnSet(drawn, Account) = SumFunctionOnSet(s.balance, Account) - body.value
  <2>1. /\ drawn \in [Account -> Int] /\ -body.value \in Int
        /\ drawn[body.sender] = s.balance[body.sender] + -body.value
        /\ \A x \in Account : x # body.sender => drawn[x] = s.balance[x]
    BY <1>1
  <2>. HIDE DEF drawn, body
  <2>2. PICK f, a, v : f = s.balance /\ a = body.sender /\ v = -body.value
    OBVIOUS
  <2>3. IsFiniteSet(Account)
    BY ExecAssumption
  <2>4. SumFunctionOnSet(drawn, Account) = SumFunctionOnSet(f, Account) + v
    BY <1>1, <2>1, <2>2, <2>3, SumWithMore
  <2>. QED  BY <1>1, <2>2, <2>4
<1>3. CASE ~Funded(s, tx)
  BY <1>3 DEF Frame
<1>4. CASE Funded(s, tx) /\ body.to = NoTo
  <2>. DEFINE t == BumpNonce(s, body.sender)
  <2>1. Frame(s, tx) = [t EXCEPT !.balance = drawn, !.endowed = @ + body.value]
    BY <1>4 DEF Frame
  <2>2. t \in WorldState /\ t.endowed = s.endowed
    BY <1>1, BumpFacts
  <2>. HIDE DEF t, drawn, body
  <2>3. Frame(s, tx).balance = drawn /\ Frame(s, tx).endowed = s.endowed + body.value
    BY <2>1, <2>2 DEF WorldState
  <2>. QED  BY <1>1, <1>2, <2>3 DEF Worth
<1>5. CASE Funded(s, tx) /\ body.to # NoTo
  <2>1. Frame(s, tx) = [s EXCEPT !.balance = moved]
    BY <1>5 DEF Frame, Transferred
  <2>2. drawn \in [Account -> Int]
    BY <1>1
  <2>3. /\ moved \in [Account -> Int]
        /\ moved[body.to] = drawn[body.to] + body.value
        /\ \A x \in Account : x # body.to => moved[x] = drawn[x]
    <3>. HIDE DEF drawn, body
    <3>. QED  BY <1>1, <1>5, <2>2
  <2>. HIDE DEF moved, drawn, body
  <2>4. body.to \in Account /\ body.value \in Int /\ IsFiniteSet(Account)
    BY <1>1, <1>5, ExecAssumption
  <2>5. SumFunctionOnSet(moved, Account) = SumFunctionOnSet(drawn, Account) + body.value
    BY <2>2, <2>3, <2>4, SumWithMore
  <2>6. Frame(s, tx).balance = moved /\ Frame(s, tx).endowed = s.endowed
    BY <2>1 DEF WorldState
  <2>. QED  BY <1>1, <1>2, <2>5, <2>6 DEF Worth
<1>. QED  BY <1>3, <1>4, <1>5

LEMMA ExecutedConserves ==
  ASSUME NEW s \in WorldState, NEW tx \in Tx
  PROVE  Worth(Executed(s, tx)) = Worth(s)
<1>1. CASE Body[tx].to = NoTo
  <2>1. Executed(s, tx) = Frame(s, tx)
    BY <1>1 DEF Executed, Reimburse, DeductCaller
  <2>. QED  BY <2>1, FrameConserves
<1>2. CASE Body[tx].to # NoTo
  <2>. DEFINE t == BumpNonce(s, From(tx))
  <2>1. Executed(s, tx) = Frame(t, tx)
    BY <1>2 DEF Executed, Reimburse, DeductCaller
  <2>2. t \in WorldState /\ t.balance = s.balance /\ t.endowed = s.endowed
    BY BodyFacts, BumpFacts DEF From
  <2>. HIDE DEF t
  <2>3. Worth(Frame(t, tx)) = Worth(t)
    BY <2>2, FrameConserves
  <2>. QED  BY <2>1, <2>2, <2>3 DEF Worth
<1>. QED  BY <1>1, <1>2

\* Every block is worth what genesis is.
Worths(c) == \A i \in 1..Len(c) : Worth(c[i].state) = Worth(GenesisState)

LEMMA BlocksOnConserve ==
  ASSUME NEW parent \in Block, NEW blk \in BlocksOn(parent)
  PROVE  Worth(blk.state) = Worth(parent.state)
<1>1. Follows(blk, parent) /\ blk \in Block
  BY BlocksOnFacts
<1>2. parent.state \in WorldState /\ blk.tx \in Tx \cup {NoTx}
  BY <1>1 DEF Block
<1>. QED  BY <1>1, <1>2, ExecutedConserves DEF Follows

LEMMA ChainKeepsWorth ==
  ASSUME NEW c, ChainOK(c), Worths(c), NEW blk \in BlocksOn(c[Len(c)])
  PROVE  Worths(Append(c, blk))
<1>1. c \in Seq(Block) /\ Len(c) \in 1..Len(c) /\ c[Len(c)] \in Block
  <2>1. c \in Seq(Block) /\ c # <<>>  BY DEF ChainOK
  <2>2. Len(c) \in Nat \ {0}  BY <2>1, EmptySeq
  <2>. QED  BY <2>1, <2>2, ElementOfSeq
<1>2. blk \in Block /\ Worth(blk.state) = Worth(GenesisState)
  BY <1>1, BlocksOnFacts, BlocksOnConserve DEF Worths
<1>3. /\ Len(Append(c, blk)) = Len(c) + 1 /\ Append(c, blk)[Len(c) + 1] = blk
      /\ \A i \in 1..Len(c) : Append(c, blk)[i] = c[i]
  BY <1>1, <1>2, AppendProperties
<1>. QED  BY <1>1, <1>2, <1>3 DEF Worths

LEMMA FrontKeepsWorth ==
  ASSUME NEW c, ChainOK(c), Worths(c), Len(c) > 1
  PROVE  Worths(Front(c))
<1>1. c \in Seq(Block) /\ Len(c) \in Nat
  BY DEF ChainOK
<1>2. 1 \in 1..(Len(c) + 1) /\ Len(c) - 1 \in (1 - 1)..Len(c)
  BY <1>1
<1>3. /\ Len(SubSeq(c, 1, Len(c) - 1)) = (Len(c) - 1) - 1 + 1
      /\ \A i \in 1..((Len(c) - 1) - 1 + 1) : SubSeq(c, 1, Len(c) - 1)[i] = c[1 + i - 1]
  BY <1>1, <1>2, SubSeqProperties
<1>4. Len(Front(c)) = Len(c) - 1 /\ \A i \in 1..(Len(c) - 1) : Front(c)[i] = c[i]
  BY <1>1, <1>3 DEF Front
<1>. QED  BY <1>1, <1>4 DEF Worths

LEMMA InitWorth == Init => Worths(chain)
<1>. SUFFICES ASSUME Init PROVE Worths(chain)  OBVIOUS
<1>1. chain = <<[time |-> 0, tx |-> NoTx, state |-> GenesisState]>>
  BY DEF Init
<1>2. Len(chain) = 1 /\ chain[1].state = GenesisState
  BY <1>1
<1>. QED  BY <1>2 DEF Worths

LEMMA WorthInductive == ChainInv /\ Worths(chain) /\ [Next]_vars => Worths(chain)'
<1>. SUFFICES ASSUME ChainInv, Worths(chain), [Next]_vars PROVE Worths(chain')
  OBVIOUS
<1>1. CASE NewBlock
  BY <1>1, ChainKeepsWorth DEF NewBlock, Head0, ChainInv
<1>2. CASE Reorg
  <2>1. PICK b \in BlocksOn(chain[Len(chain) - 1]) : chain' = Append(Front(chain), b)
    BY <1>2 DEF Reorg
  <2>2. /\ ChainOK(Front(chain)) /\ b \in BlocksOn(Front(chain)[Len(Front(chain))])
        /\ Worths(Front(chain))
    BY <1>2, <2>1, ChainFront, FrontKeepsWorth DEF Reorg, ChainInv
  <2>. QED  BY <2>1, <2>2, ChainKeepsWorth
<1>3. CASE UNCHANGED chain
  BY <1>3
<1>4. NewBlock \/ Reorg \/ UNCHANGED chain
  BY DEF Next, UpdateForks, UpdateTimestamp, UpdatePool, CheckAllowList, CheckForks, CheckState,
         Restart, Idle, vars
<1>. QED  BY <1>1, <1>2, <1>3, <1>4

\* No block makes or destroys ether: whatever the transactions, the reorgs and
\* the restarts, accounts and endowed contracts have what genesis gave out
\* (evm/mod.rs: reimburse_caller and reward_beneficiary do nothing).
THEOREM EtherIsConservedHolds == Spec => []EtherIsConserved
<1>1. ASSUME ChainInv, Worths(chain) PROVE EtherIsConserved
  <2>. SUFFICES ASSUME NEW i \in DOMAIN chain
                PROVE  MapThenSumSet(LAMBDA a : chain[i].state.balance[a], Account)
                          + chain[i].state.endowed
                       = MapThenSumSet(LAMBDA a : Genesis[a], Account)
    BY DEF EtherIsConserved
  <2>1. i \in 1..Len(chain)
    BY <1>1 DEF ChainInv, ChainOK
  <2>2. Worth(chain[i].state) = Worth(GenesisState)
    BY <1>1, <2>1 DEF Worths
  <2>3. MapThenSumSet(LAMBDA a : chain[i].state.balance[a], Account)
           = SumFunctionOnSet(chain[i].state.balance, Account)
    BY DEF MapThenSumSet, SumFunctionOnSet, FoldFunctionOnSet, MapThenFoldSet
  <2>4. MapThenSumSet(LAMBDA a : Genesis[a], Account) = SumFunctionOnSet(Genesis, Account)
    BY DEF MapThenSumSet, SumFunctionOnSet, FoldFunctionOnSet, MapThenFoldSet
  <2>5. Worth(GenesisState) = SumFunctionOnSet(Genesis, Account) + 0
    BY DEF Worth, GenesisState
  <2>6. SumFunctionOnSet(Genesis, Account) \in Int
    <3>1. Genesis \in [Account -> Int]
      BY ExecAssumption
    <3>. QED  BY <3>1, SumIsInt, ExecAssumption
  <2>. QED  BY <2>2, <2>3, <2>4, <2>5, <2>6 DEF Worth
<1>2. Spec => []ChainInv
  BY InitChain, ChainInductive, PTL DEF Spec
<1>. QED  BY <1>1, <1>2, InitWorth, WorthInductive, PTL DEF Spec

-----------------------------------------------------------------------------
(* The pool. *)

\* Both ways to say which list is in force at a time.
LEMMA AllowedIsInForce ==
  ASSUME NEW tx \in Tx, NEW time \in Nat, time # 0, IsAllowed(tx, time)
  PROVE  \E f \in DOMAIN Forks : InForce(f, time) /\ AllowConfigAllows(Forks[f], tx)
<1>1. PICK f \in {g \in DOMAIN Forks : g <= time} :
         /\ \A g \in {h \in DOMAIN Forks : h <= time} : g <= f
         /\ AllowConfigAllows(Forks[f], tx)
  BY DEF IsAllowed
<1>2. \A g \in DOMAIN Forks : g <= time \/ g > time
  BY ExecAssumption
<1>. QED  BY <1>1, <1>2 DEF InForce

\* Forks stay active, and the limit of the blobs only goes up.
LEMMA ForksGrow ==
  ASSUME NEW s \in Nat, NEW t \in Nat, s <= t
  PROVE  /\ ActiveForks(s) \subseteq ActiveForks(t)
         /\ BlobLimit(ActiveForks(s)) \in Nat
         /\ BlobLimit(ActiveForks(s)) <= BlobLimit(ActiveForks(t))
<1>1. ActiveForks(s) \subseteq ActiveForks(t)
  BY ExecAssumption DEF ActiveForks
<1>. QED  BY <1>1, ExecAssumption DEF BlobLimit

LEMMA HeadsDueFacts ==
  ASSUME EventInv
  PROVE  /\ HeadsDue \in SUBSET Nat
         /\ events # <<>> =>
               /\ Head(events) \in HeadEvent /\ Tail(events) \in Seq(HeadEvent)
               /\ Head(events).time \in Nat \ {0} /\ Head(events).time \in HeadsDue
               /\ Head(events).time <= latestHead
               /\ \A i \in DOMAIN Tail(events) : Tail(events)[i].time <= latestHead
<1>1. events \in Seq(HeadEvent) /\ Len(events) \in Nat
  BY DEF EventInv
<1>2. \A i \in 1..Len(events) : events[i] \in HeadEvent
  BY <1>1, ElementOfSeq
<1>3. HeadsDue \in SUBSET Nat
  BY <1>1, <1>2 DEF EventInv, HeadsDue, HeadEvent
<1>4. ASSUME events # <<>>
      PROVE  /\ Head(events) = events[1] /\ 1 \in DOMAIN events
             /\ Tail(events) \in Seq(HeadEvent) /\ Len(Tail(events)) = Len(events) - 1
             /\ \A i \in 1..(Len(events) - 1) : Tail(events)[i] = events[i + 1]
  BY <1>1, <1>4, HeadTailProperties, EmptySeq
<1>5. ASSUME events # <<>>, NEW i \in DOMAIN Tail(events)
      PROVE  Tail(events)[i].time <= latestHead
  <2>1. i \in 1..(Len(events) - 1) /\ i + 1 \in DOMAIN events
    BY <1>1, <1>4, <1>5
  <2>. QED  BY <1>4, <1>5, <2>1 DEF EventInv
<1>. QED  BY <1>1, <1>2, <1>3, <1>4, <1>5 DEF EventInv, HeadsDue, HeadEvent

\* What was active at a head of before is active at the latest head.
LEMMA ForkStaysActive ==
  ASSUME NEW tx \in Tx, ForkWasActive(tx), latestHead \in Nat, latestHead' \in Nat,
         latestHead <= latestHead'
  PROVE  ForkWasActive(tx)'
<1>1. /\ ActiveForks(latestHead) \subseteq ActiveForks(latestHead')
      /\ BlobLimit(ActiveForks(latestHead)) \in Nat
      /\ BlobLimit(ActiveForks(latestHead')) \in Nat
      /\ BlobLimit(ActiveForks(latestHead)) <= BlobLimit(ActiveForks(latestHead'))
  BY ForksGrow
<1>2. Body[tx].blobs \in Nat
  BY BodyFacts
<1>. QED  BY <1>1, <1>2 DEF ForkWasActive

LEMMA InitPool == Init => PoolInv
<1>. SUFFICES ASSUME Init PROVE PoolInv  OBVIOUS
<1>1. events = <<>> /\ events \in Seq(HeadEvent) /\ DOMAIN events = {}
  BY DEF Init
<1>2. BlobLimit(ActiveForks(0)) \in Nat
  BY ForksGrow
<1>. QED  BY <1>1, <1>2 DEF Init, PoolInv, EventInv, ValidatorInv, AllowedIn

LEMMA ChainPool ==
  ASSUME ChainInv, PoolInv, NewBlock \/ Reorg
  PROVE  PoolInv'
<1>1. /\ chain \in Seq(Block) /\ Len(chain) \in Nat \ {0}
      /\ \A i \in 1..Len(chain) : chain[i] \in Block
  <2>1. chain \in Seq(Block) /\ chain # <<>>
    BY DEF ChainInv, ChainOK
  <2>. QED  BY <2>1, EmptySeq, ElementOfSeq
<1>2. PICK e \in HeadEvent :
         events' = Append(events, e) /\ latestHead' = Later(latestHead, e.time)
  <2>1. PICK parent \in Block, reverted \in SUBSET Tx : \E b \in BlocksOn(parent) :
           /\ events' = Append(events, Event(b.time, {b.tx} \ {NoTx}, reverted))
           /\ latestHead' = Later(latestHead, b.time)
    <3>1. CASE NewBlock
      <4>1. Head0 \in Block
        BY <1>1 DEF Head0
      <4>. QED  BY <3>1, <4>1 DEF NewBlock
    <3>2. CASE Reorg
      <4>1. chain[Len(chain) - 1] \in Block /\ Head0 \in Block
        BY <1>1, <3>2 DEF Head0, Reorg
      <4>2. PICK b \in BlocksOn(chain[Len(chain) - 1]) :
               /\ events' = Append(events, Event(b.time, {b.tx} \ {NoTx},
                                                 {Head0.tx} \ {NoTx, b.tx}))
               /\ latestHead' = Later(latestHead, b.time)
        BY <3>2 DEF Reorg
      <4>3. {Head0.tx} \ {NoTx, b.tx} \in SUBSET Tx
        BY <4>1 DEF Block
      <4>. QED  BY <4>1, <4>2, <4>3
    <3>. QED  BY <3>1, <3>2
  <2>4. PICK b \in BlocksOn(parent) :
           /\ events' = Append(events, Event(b.time, {b.tx} \ {NoTx}, reverted))
           /\ latestHead' = Later(latestHead, b.time)
    BY <2>1
  <2>2. b \in Block /\ b.time # 0
    BY BlocksOnFacts
  <2>3. /\ Event(b.time, {b.tx} \ {NoTx}, reverted) \in HeadEvent
        /\ Event(b.time, {b.tx} \ {NoTx}, reverted).time = b.time
    BY <2>2 DEF Event, HeadEvent, Block
  <2>. QED  BY <2>3, <2>4
<1>3. UNCHANGED <<update, validatorVars, validation, pool, settled, checkedAt>>
  BY DEF NewBlock, Reorg
<1>4. /\ latestHead \in Nat /\ latestHead' \in Nat /\ latestHead <= latestHead'
      /\ e.time <= latestHead' /\ e.time \in Nat
  BY <1>2 DEF PoolInv, EventInv, HeadEvent, Later
<1>5. /\ events \in Seq(HeadEvent) /\ events' \in Seq(HeadEvent) /\ events' # <<>>
      /\ Len(events') = Len(events) + 1 /\ Len(events) \in Nat
      /\ events'[Len(events) + 1] = e
      /\ \A i \in 1..Len(events) : events'[i] = events[i]
  BY <1>2, AppendProperties, EmptySeq DEF PoolInv, EventInv
<1>6. EventInv'
  <2>1. ASSUME NEW i \in DOMAIN events' PROVE events'[i].time <= latestHead'
    <3>1. CASE i = Len(events) + 1
      BY <1>4, <1>5, <3>1
    <3>2. CASE i \in 1..Len(events)
      <4>1. events[i] \in HeadEvent /\ events[i].time <= latestHead
        BY <1>5, <3>2, ElementOfSeq DEF PoolInv, EventInv
      <4>. QED  BY <1>4, <1>5, <3>2, <4>1 DEF HeadEvent
    <3>. QED  BY <1>5, <3>1, <3>2
  <2>. QED  BY <1>3, <1>4, <1>5, <2>1 DEF PoolInv, EventInv
<1>7. ValidatorInv'
  <2>1. update = "timestamp" => Head(events') = Head(events)
    <3>. SUFFICES ASSUME update = "timestamp" PROVE Head(events') = Head(events)
      OBVIOUS
    <3>1. events # <<>> /\ 1 \in 1..Len(events)
      BY <1>5, EmptySeq DEF PoolInv, EventInv
    <3>. QED  BY <1>5, <3>1
  <2>2. /\ ActiveForks(latestHead) \subseteq ActiveForks(latestHead')
        /\ BlobLimit(ActiveForks(latestHead)) \in Nat
        /\ BlobLimit(ActiveForks(latestHead')) \in Nat
        /\ BlobLimit(ActiveForks(latestHead)) <= BlobLimit(ActiveForks(latestHead'))
    BY <1>4, ForksGrow
  <2>3. maxBlobCount \in Nat /\ maxBlobCount <= BlobLimit(ActiveForks(latestHead'))
    BY <2>2 DEF PoolInv, ValidatorInv
  <2>. QED  BY <1>3, <2>1, <2>2, <2>3 DEF PoolInv, ValidatorInv, validatorVars
<1>8. AllowedIn'
  <2>1. \A tx \in Tx : ForkWasActive(tx) => ForkWasActive(tx)'
    BY <1>4, ForkStaysActive
  <2>. QED  BY <1>3, <2>1 DEF PoolInv, AllowedIn, ListAllowed
<1>. QED  BY <1>6, <1>7, <1>8 DEF PoolInv

\* The validator is told of a head in steps: forks, time, the pool itself.
LEMMA HeadPool ==
  ASSUME PoolInv, UpdateForks \/ UpdateTimestamp \/ UpdatePool
  PROVE  PoolInv'
<1>1. /\ EventInv /\ events # <<>>
      /\ Head(events) \in HeadEvent /\ Tail(events) \in Seq(HeadEvent)
      /\ Head(events).time \in Nat \ {0} /\ Head(events).time <= latestHead
      /\ latestHead \in Nat
      /\ \A i \in DOMAIN Tail(events) : Tail(events)[i].time <= latestHead
  <2>1. EventInv /\ events # <<>>
    BY DEF UpdateForks, UpdateTimestamp, UpdatePool, PoolInv, EventInv
  <2>. QED  BY <2>1, HeadsDueFacts DEF EventInv
<1>2. CASE UpdateForks
  <2>1. /\ forkTracker' = forkTracker \cup ActiveForks(Head(events).time)
        /\ update = "idle" /\ update' = "forks"
        /\ UNCHANGED <<events, maxBlobCount, latestTimestamp, validation, pool, historyVars>>
    BY <1>2 DEF UpdateForks
  <2>2. ActiveForks(Head(events).time) \subseteq ActiveForks(latestHead)
    BY <1>1, ForksGrow
  <2>. QED  BY <1>1, <2>1, <2>2 DEF PoolInv, EventInv, ValidatorInv, AllowedIn, ListAllowed,
                                    ForkWasActive, historyVars
<1>3. CASE UpdateTimestamp
  <2>1. /\ latestTimestamp' = Head(events).time /\ update' = "timestamp"
        /\ UNCHANGED <<events, forkTracker, maxBlobCount, validation, pool, historyVars>>
    BY <1>3 DEF UpdateTimestamp, StoreTimestamp
  <2>. QED  BY <1>1, <2>1 DEF PoolInv, EventInv, ValidatorInv, AllowedIn, ListAllowed,
                              ForkWasActive, historyVars
<1>4. CASE UpdatePool
  <2>1. /\ update = "timestamp" /\ update' = "idle" /\ events' = Tail(events)
        /\ settled' = Head(events).time /\ pool' \subseteq pool
        /\ UNCHANGED <<forkTracker, maxBlobCount, latestTimestamp, validation, latestHead,
                       checkedAt>>
    BY <1>4 DEF UpdatePool, validatorVars
  <2>2. EventInv'
    BY <1>1, <2>1 DEF EventInv
  <2>3. ValidatorInv'
    BY <2>1 DEF PoolInv, ValidatorInv
  <2>4. AllowedIn'
    BY <2>1 DEF PoolInv, AllowedIn, ListAllowed, ForkWasActive
  <2>. QED  BY <2>2, <2>3, <2>4 DEF PoolInv
<1>. QED  BY <1>2, <1>3, <1>4

LEMMA ValidationPool ==
  ASSUME PoolInv, NEW tx \in Tx, CheckAllowList(tx) \/ CheckForks(tx) \/ CheckState(tx)
  PROVE  PoolInv'
<1>1. UNCHANGED <<events, update, validatorVars, settled, latestHead>>
  BY DEF CheckAllowList, CheckForks, CheckState, historyVars
<1>2. EventInv' /\ ValidatorInv'
  BY <1>1 DEF PoolInv, EventInv, ValidatorInv, validatorVars
<1>3. \A x \in Tx : ForkWasActive(x)' <=> ForkWasActive(x)
  BY <1>1 DEF ForkWasActive
<1>4. CASE CheckAllowList(tx)
  <2>1. /\ validation' = [validation EXCEPT ![tx] = "allowed"]
        /\ checkedAt' = [checkedAt EXCEPT ![tx] = HeadsDue]
        /\ IsAllowed(tx, latestTimestamp)
        /\ UNCHANGED pool /\ tx \notin pool
    BY <1>4 DEF CheckAllowList, Goto, HeadsDue
  <2>2. HeadsDue \in SUBSET Nat /\ latestTimestamp \in HeadsDue
    BY HeadsDueFacts DEF PoolInv, EventInv, ValidatorInv, HeadsDue
  <2>3. checkedAt' \in [Tx -> SUBSET Nat] /\ checkedAt'[tx] = HeadsDue
        /\ \A x \in Tx : x # tx => checkedAt'[x] = checkedAt[x]
    BY <2>1, <2>2 DEF PoolInv, AllowedIn
  <2>4. ListAllowed(tx)'
    BY <2>1, <2>2, <2>3, AllowedIsInForce DEF ListAllowed
  <2>5. \A x \in Tx : x # tx => (ListAllowed(x)' <=> ListAllowed(x))
    BY <2>3 DEF ListAllowed
  <2>. QED  BY <1>2, <1>3, <2>1, <2>3, <2>4, <2>5 DEF PoolInv, AllowedIn
<1>5. CASE Refused(tx) /\ UNCHANGED pool /\ tx \notin pool
  <2>1. /\ validation' = [validation EXCEPT ![tx] = "none"]
        /\ checkedAt' = [checkedAt EXCEPT ![tx] = {}]
        /\ UNCHANGED pool /\ tx \notin pool
    BY <1>5 DEF Refused, Goto
  <2>2. /\ checkedAt' \in [Tx -> SUBSET Nat]
        /\ \A x \in Tx : x # tx => checkedAt'[x] = checkedAt[x]
    BY <2>1 DEF PoolInv, AllowedIn
  <2>3. \A x \in Tx : x # tx => (ListAllowed(x)' <=> ListAllowed(x))
    BY <2>2 DEF ListAllowed
  <2>. QED  BY <1>2, <1>3, <2>1, <2>2, <2>3 DEF PoolInv, AllowedIn
<1>6. CASE CheckForks(tx) /\ PassesForks(tx)
  <2>1. /\ validation[tx] = "allowed" /\ PassesForks(tx)
        /\ validation' = [validation EXCEPT ![tx] = "checked"]
        /\ UNCHANGED <<pool, checkedAt>>
    BY <1>6 DEF CheckForks, Goto
  <2>2. ForkWasActive(tx)
    <3>1. /\ forkTracker \subseteq ActiveForks(latestHead)
          /\ maxBlobCount \in Nat /\ maxBlobCount <= BlobLimit(ActiveForks(latestHead))
          /\ BlobLimit(ActiveForks(latestHead)) \in Nat
      BY ForksGrow DEF PoolInv, EventInv, ValidatorInv
    <3>2. Body[tx].blobs \in 1..maxBlobCount =>
             Body[tx].blobs \in 1..BlobLimit(ActiveForks(latestHead))
      BY <3>1
    <3>. QED  BY <2>1, <3>1, <3>2 DEF PassesForks, ForkWasActive
  <2>3. \A x \in Tx : ListAllowed(x)' <=> ListAllowed(x)
    BY <2>1 DEF ListAllowed
  <2>. QED  BY <1>2, <1>3, <2>1, <2>2, <2>3 DEF PoolInv, AllowedIn
<1>7. CASE CheckState(tx) /\ PassesState(tx)
  <2>1. /\ validation[tx] = "checked"
        /\ validation' = [validation EXCEPT ![tx] = "none"]
        /\ pool' = pool \cup {tx} /\ UNCHANGED checkedAt
    BY <1>7 DEF CheckState, Goto
  <2>2. \A x \in Tx : ListAllowed(x)' <=> ListAllowed(x)
    BY <2>1 DEF ListAllowed
  <2>. QED  BY <1>2, <1>3, <2>1, <2>2 DEF PoolInv, AllowedIn
<1>8. \/ CheckAllowList(tx)
      \/ Refused(tx) /\ UNCHANGED pool /\ tx \notin pool
      \/ CheckForks(tx) /\ PassesForks(tx)
      \/ CheckState(tx) /\ PassesState(tx)
  <2>1. CheckForks(tx) \/ CheckState(tx) => tx \notin pool
    BY DEF CheckForks, CheckState, PoolInv, AllowedIn
  <2>2. CheckForks(tx) => PassesForks(tx) \/ (Refused(tx) /\ UNCHANGED pool)
    BY DEF CheckForks
  <2>3. CheckState(tx) => PassesState(tx) \/ (Refused(tx) /\ UNCHANGED pool)
    BY DEF CheckState
  <2>. QED  BY <2>1, <2>2, <2>3
<1>. QED  BY <1>4, <1>5, <1>6, <1>7, <1>8

LEMMA RestartPool ==
  ASSUME ChainInv, Restart
  PROVE  PoolInv'
<1>1. Head0.time \in Nat
  <2>1. chain \in Seq(Block) /\ chain # <<>>
    BY DEF ChainInv, ChainOK
  <2>2. chain[Len(chain)] \in Block
    BY <2>1, EmptySeq, ElementOfSeq
  <2>. QED  BY <2>2 DEF Head0, Block
<1>2. BlobLimit(ActiveForks(Head0.time)) \in Nat
  BY <1>1, ForksGrow
<1>3. /\ events' = <<>> /\ events' \in Seq(HeadEvent) /\ DOMAIN events' = {}
      /\ update' = "idle" /\ settled' = 0 /\ latestTimestamp' = 0
      /\ latestHead' = Head0.time /\ forkTracker' = ActiveForks(Head0.time)
      /\ maxBlobCount' = BlobLimit(ActiveForks(Head0.time)) /\ pool' = {}
      /\ validation' = [tx \in Tx |-> "none"] /\ checkedAt' = [tx \in Tx |-> {}]
  BY DEF Restart
<1>. QED  BY <1>1, <1>2, <1>3 DEF PoolInv, EventInv, ValidatorInv, AllowedIn

LEMMA PoolInductive == ChainInv /\ PoolInv /\ [Next]_vars => PoolInv'
<1>. SUFFICES ASSUME ChainInv, PoolInv, [Next]_vars PROVE PoolInv'
  OBVIOUS
<1>1. CASE UNCHANGED vars
  BY <1>1 DEF vars, validatorVars, historyVars, PoolInv, EventInv, ValidatorInv, AllowedIn,
              ListAllowed, ForkWasActive
<1>2. CASE \E tx \in Tx : CheckAllowList(tx) \/ CheckForks(tx) \/ CheckState(tx)
  BY <1>2, ValidationPool
<1>. QED  BY <1>1, <1>2, ChainPool, HeadPool, RestartPool DEF Next, Idle

\* Whatever heads are notified late, in steps or back in time, a pooled
\* transaction was allowed by the list of a head no older than the last one the
\* pool was done with (engine/validator: is_allowed), and its hard fork was active
\* at some head since the start.
THEOREM PooledWasAllowedHolds == Spec => []PooledWasAllowed
<1>1. PoolInv => PooledWasAllowed
  BY DEF PoolInv, AllowedIn, PooledWasAllowed
<1>. QED  BY <1>1, InitChain, ChainInductive, InitPool, PoolInductive, PTL DEF Spec
=============================================================================
