--------------------------- MODULE ClobNode_proofs ---------------------------
(***************************************************************************)
(* Proofs about ClobNode, for any clients, any deposits in any blocks, and *)
(* any bounds on the requests and the troubles.                            *)
(***************************************************************************)
EXTENDS ClobNode, SequenceTheorems, FiniteSetTheorems, TLAPS

-----------------------------------------------------------------------------
(* The inductive invariants. *)

Batch == [status : {"none", "pending", "relayed", "dead", "failed"},
          pre : Seq(Request), post : Seq(Request)]

EngineState == [pc : {"recv", "seen", "respond"}, index : 0..MaxIndex,
                state : Seq(Request), request : Request \cup {None}]
ListenerState == [pc : {"poll", "wait"}, block : Nat \ {0}, next : Nat \ {0}]
BatcherState == [pc : {"init", "idle", "submit", "save"}, nonce : Nat \ {0}, end : Nat,
                 job : Batch, tries : Nat]
ClientState == {"idle", "waiting", "gone", "lost", "answered"}

\* What each task and each table holds.
TypeOK ==
    /\ processed \in 0..MaxIndex
    /\ requests \in [1..(MaxIndex + 1) -> Request \cup {None}]
    /\ states \in [0..MaxIndex -> Seq(Request)]
    /\ nextBatch \in Nat
    /\ lastSeenHeight \in Nat \ {0}
    /\ channel \in Seq(Request)
    /\ engine \in EngineState
    /\ listener \in ListenerState
    /\ batcher \in BatcherState
    /\ client \in [Http -> ClientState]
    /\ jobs \in [Index -> Batch]
    /\ chain \in Seq(Request)
    /\ troubles \in Nat

\* Every processed index has its request.
Logged == \A i \in 1..processed : requests[i] \in Request

\* What the engine holds in memory is what the tables say.
EngineOnLog ==
    /\ engine.pc = "recv" => engine.index = processed /\ engine.state = states[processed]
    /\ engine.pc = "seen" =>
          /\ engine.index = processed + 1 /\ engine.state = states[processed]
          /\ engine.request = requests[engine.index] /\ engine.request \in Request
    /\ engine.pc = "respond" =>
          /\ engine.index = processed /\ processed >= 1
          /\ engine.state = states[processed - 1]
          /\ engine.request = requests[processed]

\* A state that is on the way of the log.
OnLog(state) == Len(state) <= processed /\ state = states[Len(state)]

BatchOnLog(job) ==
    job.status # "none" =>
        OnLog(job.pre) /\ OnLog(job.post) /\ Len(job.pre) < Len(job.post)

\* A batch begins and ends on the log, wherever it is kept, and so does the chain.
BatchesOnLog ==
    /\ \A n \in Index : BatchOnLog(jobs[n])
    /\ batcher.pc # "init" => nextBatch >= 1
    /\ batcher.pc \in {"submit", "save"} => BatchOnLog(batcher.job) /\ batcher.nonce \in Index
    /\ OnLog(chain)

LogInv == TypeOK /\ StatesAreReplays /\ Logged /\ EngineOnLog /\ BatchesOnLog

\* The k-th deposit of block b is behind the listener.
Passed(b, k) ==
    /\ b \in DOMAIN Blocks /\ k \in DOMAIN Blocks[b]
    /\ b < listener.block \/ (b = listener.block /\ k < listener.next)

Awaited == Blocks[listener.block][listener.next]
EngineHasDeposit == engine.pc # "recv" /\ engine.request \in Deposit

ListenerInBlocks ==
    /\ listener.block = lastSeenHeight /\ listener.block <= Len(Blocks) + 1
    /\ listener.pc = "wait" =>
          listener.block \in DOMAIN Blocks /\ listener.next \in DOMAIN Blocks[listener.block]

\* A deposit in memory is the one the listener waits for, and there is one only.
OneInFlight ==
    /\ \A i \in 1..Len(channel) : channel[i] \in Deposit =>
          listener.pc = "wait" /\ channel[i] = Awaited /\ ~EngineHasDeposit
    /\ \A i, j \in 1..Len(channel) : channel[i] \in Deposit /\ channel[j] \in Deposit => i = j
    /\ EngineHasDeposit => listener.pc = "wait" /\ engine.request = Awaited

PassedAreLogged ==
    \A b, k \in Nat : Passed(b, k) => \E i \in 1..processed : requests[i] = Blocks[b][k]

NobodyGone == \A r \in Http : client[r] # "gone"

\* The nonces from the batcher's own on have not been used.
NoncesFree ==
    \A n \in Index :
        n > batcher.nonce \/ (n = batcher.nonce /\ batcher.pc # "save") =>
            jobs[n].status = "none"

LoggedOnce ==
    \A i, j \in 1..processed : requests[i] \in Deposit /\ requests[i] = requests[j] => i = j

\* A deposit of the log is one the listener has passed or is being told of.
LoggedByListener ==
    \A i \in 1..processed : requests[i] \in Deposit =>
        \/ \E b, k \in Nat : Passed(b, k) /\ Blocks[b][k] = requests[i]
        \/ engine.pc = "respond" /\ i = processed

\* As long as nothing has gone wrong nothing is started again.
Undisturbed == troubles = 0 => NobodyGone /\ NoncesFree /\ LoggedOnce /\ LoggedByListener

DepositInv == ListenerInBlocks /\ OneInFlight /\ PassedAreLogged /\ Undisturbed

-----------------------------------------------------------------------------
(* Prefixes of sequences. *)

LEMMA PrefixFacts ==
  ASSUME NEW S, NEW s \in Seq(S), NEW n \in 0..Len(s)
  PROVE  /\ SubSeq(s, 1, n) \in Seq(S)
         /\ Len(SubSeq(s, 1, n)) = n
         /\ \A i \in 1..n : SubSeq(s, 1, n)[i] = s[i]
<1>1. Len(s) \in Nat  OBVIOUS
<1>2. 1 \in 1..(Len(s) + 1) /\ n \in (1 - 1)..Len(s)  BY <1>1
<1>. QED  BY <1>1, <1>2, SubSeqProperties

LEMMA PrefixUnchanged ==
  ASSUME NEW S, NEW s \in Seq(S), NEW t \in Seq(S),
         NEW n \in 0..Len(s), n <= Len(t), \A i \in 1..n : s[i] = t[i]
  PROVE  SubSeq(s, 1, n) = SubSeq(t, 1, n)
<1>1. n \in 0..Len(t)  OBVIOUS
<1>. QED  BY <1>1, PrefixFacts, SeqEqual

LEMMA PrefixAppend ==
  ASSUME NEW S, NEW s \in Seq(S), NEW n \in Nat, n < Len(s)
  PROVE  SubSeq(s, 1, n + 1) = Append(SubSeq(s, 1, n), s[n + 1])
<1>1. n \in 0..Len(s) /\ n + 1 \in 0..Len(s) /\ n + 1 \in 1..Len(s)  OBVIOUS
<1>2. s[n + 1] \in S  BY <1>1, ElementOfSeq
<1>3. /\ SubSeq(s, 1, n) \in Seq(S) /\ Len(SubSeq(s, 1, n)) = n
      /\ \A i \in 1..n : SubSeq(s, 1, n)[i] = s[i]
  BY <1>1, PrefixFacts
<1>4. /\ SubSeq(s, 1, n + 1) \in Seq(S) /\ Len(SubSeq(s, 1, n + 1)) = n + 1
      /\ \A i \in 1..(n + 1) : SubSeq(s, 1, n + 1)[i] = s[i]
  BY <1>1, PrefixFacts
<1>5. /\ Append(SubSeq(s, 1, n), s[n + 1]) \in Seq(S)
      /\ Len(Append(SubSeq(s, 1, n), s[n + 1])) = n + 1
      /\ \A i \in 1..n : Append(SubSeq(s, 1, n), s[n + 1])[i] = s[i]
      /\ Append(SubSeq(s, 1, n), s[n + 1])[n + 1] = s[n + 1]
  BY <1>2, <1>3, AppendProperties
<1>. QED  BY <1>4, <1>5, SeqEqual

LEMMA PrefixOfPrefix ==
  ASSUME NEW S, NEW s \in Seq(S), NEW n \in 0..Len(s), NEW k \in 0..n
  PROVE  SubSeq(SubSeq(s, 1, n), 1, k) = SubSeq(s, 1, k)
<1>1. /\ SubSeq(s, 1, n) \in Seq(S) /\ Len(SubSeq(s, 1, n)) = n
      /\ \A i \in 1..n : SubSeq(s, 1, n)[i] = s[i]
  BY PrefixFacts
<1>2. k \in 0..Len(SubSeq(s, 1, n)) /\ k <= Len(s) /\ \A i \in 1..k : SubSeq(s, 1, n)[i] = s[i]
  BY <1>1
<1>. QED  BY <1>1, <1>2, PrefixUnchanged

LEMMA PrefixExtend ==
  ASSUME NEW S, NEW s \in Seq(S), NEW m \in 1..Len(s), NEW n \in m..Len(s)
  PROVE  SubSeq(s, 1, m - 1) \o SubSeq(s, m, n) = SubSeq(s, 1, n)
<1>1. Len(s) \in Nat  OBVIOUS
<1>2. 1 \in 1..(Len(s) + 1) /\ m - 1 \in (1 - 1)..Len(s) /\ n \in (m - 1)..Len(s)
  BY <1>1
<1>3. SubSeq(s, 1, m - 1) \o SubSeq(s, (m - 1) + 1, n) = SubSeq(s, 1, n)
  BY <1>2, ConcatAdjacentSubSeq
<1>. QED  BY <1>3

\* The table of requests read as a sequence.
LEMMA LogFacts ==
  ASSUME TypeOK
  PROVE  /\ requests \in Seq(Request \cup {None})
         /\ Len(requests) = MaxIndex + 1
         /\ MaxIndex \in Nat
  BY BlocksAssumption DEF TypeOK
-----------------------------------------------------------------------------
(* The log. *)

LEMMA InitLog == Init => LogInv
<1>. SUFFICES ASSUME Init PROVE LogInv  OBVIOUS
<1>1. <<>> \in Seq(Request) /\ Len(<<>>) = 0 /\ 0 \in 0..MaxIndex /\ MaxIndex \in Nat
  BY BlocksAssumption
<1>2. TypeOK
  BY <1>1 DEF Init, TypeOK, ListenerAtStart, BatcherAtStart, NoJob, Batch,
              EngineState, ListenerState, BatcherState, ClientState, GENESIS_GLOBAL_INDEX
<1>3. StatesAreReplays
  <2>1. SubSeq(requests, 1, 0) = <<>>  BY SubSeqEmpty
  <2>. QED  BY <1>1, <2>1 DEF Init, StatesAreReplays, GENESIS_GLOBAL_INDEX
<1>4. BatchesOnLog
  BY <1>1 DEF Init, BatchesOnLog, BatchOnLog, OnLog, BatcherAtStart, NoJob,
              GENESIS_GLOBAL_INDEX
<1>5. Logged /\ EngineOnLog
  BY <1>1 DEF Init, Logged, EngineOnLog, GENESIS_GLOBAL_INDEX
<1>. QED  BY <1>2, <1>3, <1>4, <1>5 DEF LogInv

\* A start keeps the tables, and takes the engine from them.
LEMMA RestartLog ==
  ASSUME LogInv, Restarted, UNCHANGED <<dbVars, jobs, chain>>, troubles' \in Nat
  PROVE  LogInv'
<1>. USE DEF LogInv
<1>1. TypeOK'
  <2>1. engine' \in EngineState /\ listener' \in ListenerState
    BY DEF TypeOK, Restarted, EngineAtStart, ListenerAtStart, EngineState, ListenerState
  <2>2. batcher' \in BatcherState
    BY DEF Restarted, BatcherAtStart, NoJob, Batch, BatcherState
  <2>3. client' \in [Http -> ClientState]
    BY DEF TypeOK, Restarted, ClientState
  <2>. QED  BY <2>1, <2>2, <2>3 DEF TypeOK, Restarted, dbVars
<1>2. StatesAreReplays' /\ Logged'
  BY DEF StatesAreReplays, Logged, dbVars
<1>3. EngineOnLog'
  BY DEF Restarted, EngineAtStart, EngineOnLog, TypeOK, dbVars
<1>4. BatchesOnLog'
  BY DEF Restarted, BatcherAtStart, BatchesOnLog, BatchOnLog, OnLog, dbVars
<1>. QED  BY <1>1, <1>2, <1>3, <1>4

LEMMA ClientLog ==
  ASSUME LogInv, NEW r \in Http, Handle(r) \/ Disconnect(r)
  PROVE  LogInv'
<1>. USE DEF LogInv
<1>1. r \in Request  BY DEF Request
<1>2. TypeOK'
  <2>1. CASE Handle(r)
    BY <1>1, <2>1, AppendProperties DEF Handle, TypeOK, ClientState, dbVars
  <2>2. CASE Disconnect(r)
    BY <2>2 DEF Disconnect, Trouble, TypeOK, ClientState, dbVars
  <2>. QED  BY <2>1, <2>2
<1>3. StatesAreReplays' /\ Logged' /\ EngineOnLog' /\ BatchesOnLog'
  BY DEF Handle, Disconnect, StatesAreReplays, Logged, EngineOnLog, BatchesOnLog, BatchOnLog,
         OnLog, dbVars
<1>. QED  BY <1>2, <1>3

\* The engine writes a request behind the processed index.
LEMMA SeeLog ==
  ASSUME LogInv, See
  PROVE  LogInv'
<1>. USE DEF LogInv
<1>1. /\ engine.index = processed /\ engine.state = states[processed]
      /\ processed + 1 \in 1..MaxIndex /\ processed + 1 \in 1..(MaxIndex + 1)
      /\ processed + 1 \in 0..MaxIndex
      /\ Head(channel) \in Request /\ Tail(channel) \in Seq(Request)
  BY HeadTailProperties, BlocksAssumption DEF See, EngineOnLog, TypeOK, EngineState
<1>2. /\ requests' = [requests EXCEPT ![processed + 1] = Head(channel)]
      /\ \A k \in 1..processed : requests'[k] = requests[k]
      /\ requests'[processed + 1] = Head(channel)
      /\ engine' = [engine EXCEPT !.pc = "seen", !.index = processed + 1,
                                  !.request = Head(channel)]
  BY <1>1 DEF See, TypeOK
<1>3. TypeOK'
  <2>1. requests' \in [1..(MaxIndex + 1) -> Request \cup {None}]
    BY <1>1, <1>2 DEF TypeOK
  <2>2. engine' \in EngineState
    BY <1>1, <1>2 DEF TypeOK, EngineState
  <2>3. channel' \in Seq(Request)
    BY <1>1 DEF See, TakeFromChannel
  <2>. QED  BY <2>1, <2>2, <2>3 DEF See, TypeOK
<1>4. StatesAreReplays'
  <2>1. processed' = processed /\ states' = states
    BY DEF See
  <2>. SUFFICES ASSUME NEW n \in 0..processed
                PROVE  states[n] = SubSeq(requests', 1, n)
    BY <2>1 DEF StatesAreReplays
  <2>5. /\ requests \in Seq(Request \cup {None}) /\ requests' \in Seq(Request \cup {None})
        /\ Len(requests) = MaxIndex + 1 /\ Len(requests') = MaxIndex + 1
    <3>1. requests' \in [1..(MaxIndex + 1) -> Request \cup {None}]  BY <1>3 DEF TypeOK
    <3>2. MaxIndex + 1 \in Nat  BY BlocksAssumption
    <3>. QED  BY <3>1, <3>2, LogFacts
  <2>2. n \in 0..Len(requests) /\ n <= Len(requests')
    BY <2>5, BlocksAssumption DEF TypeOK
  <2>3. \A k \in 1..n : requests[k] = requests'[k]
    BY <1>2 DEF TypeOK
  <2>4. SubSeq(requests, 1, n) = SubSeq(requests', 1, n)
    BY <2>5, <2>2, <2>3, PrefixUnchanged
  <2>. QED  BY <2>4 DEF StatesAreReplays
<1>5. Logged'
  BY <1>2 DEF Logged, See
<1>6. EngineOnLog'
  BY <1>1, <1>2 DEF See, EngineOnLog, TypeOK, EngineState
<1>7. BatchesOnLog'
  BY DEF See, BatchesOnLog, BatchOnLog, OnLog
<1>. QED  BY <1>3, <1>4, <1>5, <1>6, <1>7

\* The new state is the one before it and the request under its index.
LEMMA TickLog ==
  ASSUME LogInv, Tick
  PROVE  /\ LogInv'
         /\ processed' = processed + 1
         /\ requests[processed + 1] \in Request
         /\ states'[processed + 1] = Append(states[processed], requests[processed + 1])
<1>. USE DEF LogInv
<1>1. /\ engine.index = processed + 1 /\ engine.index \in 1..MaxIndex
      /\ engine.state = states[processed]
      /\ engine.request = requests[processed + 1]
      /\ engine.request \in Request
  BY BlocksAssumption DEF Tick, EngineOnLog, TypeOK, EngineState
<1>2. /\ processed' = processed + 1
      /\ states' = [states EXCEPT ![processed + 1] = Append(states[processed],
                                                            requests[processed + 1])]
  BY <1>1 DEF Tick, Persist, Ticked
<1>3. /\ states'[processed + 1] = Append(states[processed], requests[processed + 1])
      /\ \A n \in 0..processed : states'[n] = states[n]
  BY <1>1, <1>2 DEF TypeOK
<1>4. TypeOK'
  <2>1. Append(states[processed], requests[processed + 1]) \in Seq(Request)
    BY <1>1, AppendProperties DEF TypeOK
  <2>. QED  BY <1>1, <1>2, <2>1 DEF Tick, TypeOK, EngineState
<1>5. StatesAreReplays'
  <2>1. /\ requests \in Seq(Request \cup {None}) /\ Len(requests) = MaxIndex + 1
        /\ processed \in Nat /\ processed < Len(requests)
    BY <1>1, LogFacts DEF TypeOK
  <2>2. SubSeq(requests, 1, processed + 1)
          = Append(SubSeq(requests, 1, processed), requests[processed + 1])
    BY <2>1, PrefixAppend
  <2>3. states[processed] = SubSeq(requests, 1, processed)
    BY <2>1 DEF StatesAreReplays
  <2>4. states'[processed + 1] = SubSeq(requests, 1, processed + 1)
    BY <1>3, <2>2, <2>3
  <2>5. \A n \in 0..(processed + 1) : n = processed + 1 \/ n \in 0..processed
    BY <2>1
  <2>. QED  BY <1>2, <1>3, <2>4, <2>5 DEF StatesAreReplays, Tick
<1>6. Logged'
  <2>1. \A n \in 1..(processed + 1) : n = processed + 1 \/ n \in 1..processed
    BY DEF TypeOK
  <2>. QED  BY <1>1, <1>2, <2>1 DEF Logged, Tick
<1>7. EngineOnLog'
  BY <1>1, <1>2, <1>3 DEF Tick, EngineOnLog, TypeOK, EngineState
<1>8. BatchesOnLog'
  <2>1. \A s \in Seq(Request) :
           OnLog(s) => Len(s) <= processed' /\ s = states'[Len(s)]
    <3>. SUFFICES ASSUME NEW s \in Seq(Request), OnLog(s)
                  PROVE  Len(s) <= processed' /\ s = states'[Len(s)]
      OBVIOUS
    <3>1. Len(s) \in Nat /\ Len(s) \in 0..processed  BY DEF OnLog, TypeOK
    <3>. QED  BY <1>2, <1>3, <3>1 DEF OnLog, TypeOK
  <2>2. /\ chain \in Seq(Request) /\ batcher.job.pre \in Seq(Request)
        /\ batcher.job.post \in Seq(Request)
        /\ \A n \in Index : jobs[n].pre \in Seq(Request) /\ jobs[n].post \in Seq(Request)
    BY DEF TypeOK, Batch, BatcherState
  <2>3. \A n \in Index : BatchOnLog(jobs[n])'
    BY <2>1, <2>2 DEF BatchesOnLog, BatchOnLog, OnLog, Tick
  <2>. QED  BY <2>1, <2>2, <2>3 DEF BatchesOnLog, BatchOnLog, OnLog, Tick
<1>. QED  BY <1>1, <1>2, <1>3, <1>4, <1>5, <1>6, <1>7, <1>8
\* After the answer the engine holds the state that it wrote.
LEMMA RespondLog ==
  ASSUME LogInv, Respond
  PROVE  /\ LogInv'
         /\ processed \in 1..MaxIndex
         /\ answers' = answers \cup {<<processed, requests[processed]>>}
<1>. USE DEF LogInv
<1>1. /\ engine.index = processed /\ processed \in 1..MaxIndex
      /\ engine.state = states[processed - 1] /\ engine.request = requests[processed]
      /\ engine.request \in Request
  BY BlocksAssumption DEF Respond, EngineOnLog, Logged, TypeOK, EngineState
<1>2. Ticked = states[processed]
  <2>1. /\ requests \in Seq(Request \cup {None}) /\ processed - 1 \in Nat
        /\ processed - 1 < Len(requests) /\ (processed - 1) + 1 = processed
    BY <1>1, LogFacts
  <2>2. SubSeq(requests, 1, (processed - 1) + 1)
          = Append(SubSeq(requests, 1, processed - 1), requests[(processed - 1) + 1])
    BY <2>1, PrefixAppend
  <2>3. /\ states[processed - 1] = SubSeq(requests, 1, processed - 1)
        /\ states[processed] = SubSeq(requests, 1, processed)
    BY <1>1 DEF StatesAreReplays
  <2>. QED  BY <1>1, <2>1, <2>2, <2>3 DEF Ticked
<1>3. /\ engine' = [engine EXCEPT !.pc = "recv", !.state = states[processed]]
      /\ UNCHANGED <<processed, requests, states, nextBatch, lastSeenHeight, channel, batcher,
                     jobs, chain, troubles>>
  BY <1>2 DEF Respond, dbVars
<1>4. TypeOK'
  <2>1. engine' \in EngineState
    BY <1>1, <1>3 DEF TypeOK, EngineState
  <2>2. client' \in [Http -> ClientState]
    BY DEF Respond, TypeOK, ClientState
  <2>3. listener' \in ListenerState
    <3>1. \/ UNCHANGED listener
          \/ listener' = [listener EXCEPT !.pc = "poll", !.next = @ + 1]
      BY DEF Respond
    <3>2. listener \in ListenerState /\ listener.next + 1 \in Nat \ {0}
      BY DEF TypeOK, ListenerState
    <3>. QED  BY <3>1, <3>2 DEF ListenerState
  <2>. QED  BY <1>3, <2>1, <2>2, <2>3 DEF TypeOK
<1>5. StatesAreReplays' /\ Logged' /\ BatchesOnLog'
  BY <1>3 DEF StatesAreReplays, Logged, BatchesOnLog, BatchOnLog, OnLog
<1>6. EngineOnLog'
  BY <1>1, <1>3 DEF EngineOnLog, TypeOK, EngineState
<1>7. answers' = answers \cup {<<processed, requests[processed]>>}
  BY <1>1 DEF Respond
<1>. QED  BY <1>1, <1>4, <1>5, <1>6, <1>7

LEMMA ListenerLog ==
  ASSUME LogInv, ListenerStep
  PROVE  LogInv'
<1>. USE DEF LogInv
<1>1. TypeOK'
  <2>1. CASE PushDeposit
    <3>1. listener.block \in 1..Len(Blocks) /\ listener.next \in Nat \ {0}
      BY <2>1 DEF PushDeposit, TypeOK, ListenerState
    <3>2. Blocks[listener.block] \in Seq(Deposit)
      BY <3>1, BlocksAssumption, ElementOfSeq
    <3>3. Blocks[listener.block][listener.next] \in Deposit
      BY <2>1, <3>1, <3>2, ElementOfSeq DEF PushDeposit
    <3>4. channel' \in Seq(Request)
      BY <2>1, <3>3, AppendProperties DEF PushDeposit, TypeOK, Request
    <3>5. listener' \in ListenerState
      BY <2>1 DEF PushDeposit, TypeOK, ListenerState
    <3>. QED  BY <2>1, <3>4, <3>5 DEF PushDeposit, TypeOK, dbVars
  <2>2. CASE SaveHeight
    <3>1. /\ listener' = [listener EXCEPT !.block = @ + 1, !.next = 1]
          /\ lastSeenHeight' = listener.block + 1 /\ listener \in ListenerState
      BY <2>2 DEF SaveHeight, TypeOK
    <3>4. listener.block + 1 \in Nat \ {0} /\ 1 \in Nat \ {0}
      BY <3>1 DEF ListenerState
    <3>2. listener' \in ListenerState
      BY <3>1, <3>4 DEF ListenerState
    <3>3. lastSeenHeight' \in Nat \ {0}
      BY <3>1 DEF ListenerState
    <3>. QED  BY <2>2, <3>2, <3>3 DEF SaveHeight, TypeOK
  <2>. QED  BY <2>1, <2>2 DEF ListenerStep
<1>2. StatesAreReplays' /\ Logged' /\ EngineOnLog' /\ BatchesOnLog'
  BY DEF ListenerStep, PushDeposit, SaveHeight, StatesAreReplays, Logged, EngineOnLog,
         BatchesOnLog, BatchOnLog, OnLog, dbVars
<1>. QED  BY <1>1, <1>2

\* A batch runs from the state before it to the state at its end.
LEMMA CollectLog ==
  ASSUME LogInv, Collect
  PROVE  LogInv'
<1>. USE DEF LogInv
<1>. DEFINE job == Proven(states[nextBatch - 1], SubSeq(requests, nextBatch, processed))
<1>1. /\ processed \in Nat /\ processed <= MaxIndex /\ MaxIndex \in Nat
      /\ nextBatch \in 1..processed
  BY LogFacts DEF Collect, BatchEnd, BatchesOnLog, TypeOK
<1>2. /\ requests \in Seq(Request \cup {None}) /\ Len(requests) = MaxIndex + 1
      /\ nextBatch \in 1..Len(requests) /\ processed \in nextBatch..Len(requests)
      /\ processed \in 0..Len(requests) /\ nextBatch - 1 \in 0..Len(requests)
  BY <1>1, LogFacts
<1>3. /\ states[nextBatch - 1] = SubSeq(requests, 1, nextBatch - 1)
      /\ states[processed] = SubSeq(requests, 1, processed)
      /\ states[nextBatch - 1] \in Seq(Request) /\ states[processed] \in Seq(Request)
  <2>1. /\ nextBatch - 1 \in 0..processed /\ processed \in 0..processed
        /\ nextBatch - 1 \in 0..MaxIndex /\ processed \in 0..MaxIndex
    BY <1>1
  <2>2. states \in [0..MaxIndex -> Seq(Request)]
    BY DEF TypeOK
  <2>. QED  BY <2>1, <2>2 DEF StatesAreReplays
<1>4. /\ Len(states[nextBatch - 1]) = nextBatch - 1
      /\ Len(states[processed]) = processed
  BY <1>2, <1>3, PrefixFacts
<1>5. job.pre = states[nextBatch - 1] /\ job.post = states[processed] /\ job.status = "pending"
  BY <1>2, <1>3, PrefixExtend DEF Proven
<1>6. job \in Batch /\ BatchOnLog(job)
  <2>1. job = [status |-> "pending", pre |-> job.pre, post |-> job.post]
    BY DEF Proven
  <2>. HIDE DEF job
  <2>2. job.pre \in Seq(Request) /\ job.post \in Seq(Request)
    BY <1>3, <1>5
  <2>3. job \in Batch
    BY <2>1, <2>2 DEF Batch
  <2>4. Len(job.pre) = nextBatch - 1 /\ Len(job.post) = processed
    BY <1>4, <1>5
  <2>5. OnLog(job.pre) /\ OnLog(job.post)
    BY <1>1, <1>5, <2>4 DEF OnLog
  <2>. QED  BY <1>1, <2>3, <2>4, <2>5 DEF BatchOnLog
<1>7. /\ batcher' = [batcher EXCEPT !.pc = "submit", !.end = processed, !.tries = 0,
                                    !.job = job]
      /\ UNCHANGED <<processed, requests, states, nextBatch, lastSeenHeight, channel, engine,
                     listener, client, jobs, chain, troubles>>
      /\ batcher.nonce \in Index
  BY DEF Collect, BatchEnd, dbVars
<1>. HIDE DEF job
<1>8. /\ batcher'.job = job /\ batcher'.nonce = batcher.nonce /\ batcher'.pc = "submit"
      /\ batcher' \in BatcherState
  BY <1>1, <1>6, <1>7 DEF TypeOK, BatcherState
<1>9. TypeOK'
  BY <1>7, <1>8 DEF TypeOK
<1>10. BatchesOnLog'
  BY <1>1, <1>6, <1>7, <1>8 DEF BatchesOnLog, BatchOnLog, OnLog
<1>11. StatesAreReplays' /\ Logged' /\ EngineOnLog'
  BY <1>7 DEF StatesAreReplays, Logged, EngineOnLog
<1>. QED  BY <1>9, <1>10, <1>11

LEMMA StoreLog ==
  ASSUME LogInv, batcher.pc = "submit", Store(batcher.nonce)
  PROVE  jobs' \in [Index -> Batch] /\ \A n \in Index : jobs'[n] \in {jobs[n], batcher.job}
  BY DEF LogInv, BatchesOnLog, TypeOK, BatcherState, Store

LEMMA BatcherLog ==
  ASSUME LogInv, EnsureInitialized \/ Submit \/ SubmitRefused \/ SubmitLost \/ Save
  PROVE  LogInv'
<1>. USE DEF LogInv
<1>1. CASE EnsureInitialized \/ Save
  <2>1. /\ batcher' \in BatcherState /\ nextBatch' \in Nat \ {0}
        /\ batcher'.pc = "idle"
        /\ UNCHANGED <<processed, requests, states, lastSeenHeight, channel, engine, listener,
                       client, jobs, chain, troubles>>
    <3>1. CASE EnsureInitialized
      <4>1. /\ batcher' = [batcher EXCEPT !.pc = "idle"] /\ batcher \in BatcherState
            /\ nextBatch' = IF nextBatch = 0 THEN 1 ELSE nextBatch
            /\ nextBatch \in Nat
        BY <3>1 DEF EnsureInitialized, TypeOK, INIT_INDEX
      <4>2. batcher' \in BatcherState /\ batcher'.pc = "idle"
        BY <4>1 DEF BatcherState
      <4>3. nextBatch' \in Nat \ {0}
        BY <4>1
      <4>. QED  BY <3>1, <4>2, <4>3 DEF EnsureInitialized
    <3>2. CASE Save
      <4>1. /\ batcher' = [batcher EXCEPT !.pc = "idle", !.nonce = @ + 1]
            /\ nextBatch' = batcher.end + 1 /\ batcher \in BatcherState
        BY <3>2 DEF Save, SaveNextBatch, TypeOK
      <4>4. batcher.nonce + 1 \in Nat \ {0}
        BY <4>1 DEF BatcherState
      <4>2. batcher' \in BatcherState /\ batcher'.pc = "idle"
        BY <4>1, <4>4 DEF BatcherState
      <4>3. nextBatch' \in Nat \ {0}
        BY <4>1 DEF BatcherState
      <4>. QED  BY <3>2, <4>2, <4>3 DEF Save
    <3>. QED  BY <1>1, <3>1, <3>2
  <2>2. StatesAreReplays' /\ Logged' /\ EngineOnLog'
    BY <2>1 DEF StatesAreReplays, Logged, EngineOnLog
  <2>3. BatchesOnLog'
    BY <2>1 DEF BatchesOnLog, BatchOnLog, OnLog
  <2>4. TypeOK'
    BY <2>1 DEF TypeOK
  <2>. QED  BY <2>2, <2>3, <2>4
<1>2. CASE (SubmitRefused \/ SubmitLost) /\ Restarted /\ UNCHANGED <<jobs, chain>>
  <2>1. troubles' \in Nat /\ UNCHANGED dbVars
    BY <1>2 DEF SubmitRefused, SubmitLost, Trouble, TypeOK
  <2>. QED  BY <1>2, <2>1, RestartLog
<1>3. CASE SubmitLost /\ Restarted /\ Store(batcher.nonce)
  <2>1. /\ UNCHANGED <<dbVars, chain>> /\ troubles' \in Nat /\ batcher.pc = "submit"
    BY <1>3 DEF SubmitLost, Trouble, TypeOK
  <2>2. jobs' \in [Index -> Batch] /\ \A n \in Index : jobs'[n] \in {jobs[n], batcher.job}
    BY <1>3, <2>1, StoreLog
  <2>3. TypeOK'
    <3>1. /\ processed \in 0..MaxIndex /\ states[processed] \in Seq(Request)
          /\ lastSeenHeight \in Nat \ {0}
      BY DEF TypeOK
    <3>4. engine' \in EngineState
      BY <1>3, <3>1 DEF Restarted, EngineAtStart, EngineState
    <3>5. listener' \in ListenerState
      BY <1>3, <3>1 DEF Restarted, ListenerAtStart, ListenerState
    <3>2. batcher' \in BatcherState
      BY <1>3 DEF Restarted, BatcherAtStart, NoJob, Batch, BatcherState
    <3>3. client' \in [Http -> ClientState]
      BY <1>3 DEF TypeOK, Restarted, ClientState
    <3>. QED  BY <1>3, <2>1, <2>2, <3>2, <3>3, <3>4, <3>5 DEF TypeOK, Restarted, dbVars
  <2>4. StatesAreReplays' /\ Logged' /\ EngineOnLog'
    BY <1>3, <2>1 DEF Restarted, EngineAtStart, StatesAreReplays, Logged, EngineOnLog, TypeOK,
                      dbVars
  <2>5. BatchesOnLog'
    BY <1>3, <2>1, <2>2 DEF Restarted, BatcherAtStart, BatchesOnLog, BatchOnLog, OnLog, dbVars
  <2>. QED  BY <2>3, <2>4, <2>5
<1>4. CASE \/ Submit
           \/ /\ SubmitRefused \/ SubmitLost
              /\ batcher' = [batcher EXCEPT !.tries = @ + 1]
              /\ UNCHANGED <<channel, engine, listener, client>>
  <2>6. /\ batcher.pc = "submit" /\ troubles' \in Nat
        /\ UNCHANGED <<dbVars, channel, engine, listener, client, chain>>
    BY <1>4 DEF Submit, SubmitRefused, SubmitLost, Trouble, TypeOK
  <2>7. \/ batcher' = [batcher EXCEPT !.pc = "save"]
        \/ batcher' = [batcher EXCEPT !.tries = @ + 1]
    BY <1>4 DEF Submit
  <2>8. /\ batcher' \in BatcherState
        /\ batcher'.job = batcher.job /\ batcher'.nonce = batcher.nonce
        /\ batcher'.pc \in {"submit", "save"}
    <3>1. batcher \in BatcherState /\ batcher.tries + 1 \in Nat
      BY DEF TypeOK, BatcherState
    <3>2. CASE batcher' = [batcher EXCEPT !.pc = "save"]
      BY <2>6, <3>1, <3>2 DEF BatcherState
    <3>3. CASE batcher' = [batcher EXCEPT !.tries = @ + 1]
      BY <2>6, <3>1, <3>3 DEF BatcherState
    <3>. QED  BY <2>7, <3>2, <3>3
  <2>1. /\ UNCHANGED <<dbVars, channel, engine, listener, client, chain>> /\ troubles' \in Nat
        /\ batcher.pc = "submit" /\ batcher' \in BatcherState
        /\ batcher'.job = batcher.job /\ batcher'.nonce = batcher.nonce
        /\ batcher'.pc \in {"submit", "save"}
    BY <2>6, <2>8
  <2>2. jobs' \in [Index -> Batch] /\ \A n \in Index : jobs'[n] \in {jobs[n], batcher.job}
    BY <1>4, <2>1, StoreLog DEF Submit, SubmitRefused, SubmitLost, TypeOK
  <2>3. TypeOK'
    BY <2>1, <2>2 DEF TypeOK, dbVars
  <2>4. StatesAreReplays' /\ Logged' /\ EngineOnLog'
    BY <2>1 DEF StatesAreReplays, Logged, EngineOnLog, dbVars
  <2>5. BatchesOnLog'
    BY <2>1, <2>2 DEF BatchesOnLog, BatchOnLog, OnLog, dbVars
  <2>. QED  BY <2>3, <2>4, <2>5
<1>. QED  BY <1>1, <1>2, <1>3, <1>4 DEF SubmitRefused, SubmitLost, TryFails

\* What the coprocessor node does with a job it has.
Handles(n) == Relay(n) \/ RelayFails(n) \/ DlqRelays(n) \/ ExecutionFails(n)

LEMMA HandlesFacts ==
  ASSUME LogInv, NEW n \in Index, Handles(n)
  PROVE  /\ jobs[n].status # "none"
         /\ \/ UNCHANGED chain
            \/ AcceptedBy(jobs[n]) /\ chain' = jobs[n].post
         /\ \E st \in {"relayed", "dead", "failed"} : jobs' = [jobs EXCEPT ![n].status = st]
         /\ UNCHANGED <<dbVars, channel, engine, listener, batcher, client, answers>>
         /\ troubles' \in Nat /\ (troubles' = 0 => troubles = 0)
<1>1. CASE Relay(n)
  BY <1>1 DEF Relay, ToRelay, Mined, GivenUp, LogInv, TypeOK
<1>2. CASE RelayFails(n)
  BY <1>2 DEF RelayFails, ToRelay, GivenUp, Trouble, LogInv, TypeOK
<1>3. CASE DlqRelays(n)
  BY <1>3 DEF DlqRelays, Mined, LogInv, TypeOK
<1>4. CASE ExecutionFails(n)
  BY <1>4 DEF ExecutionFails, Trouble, LogInv, TypeOK
<1>. QED  BY <1>1, <1>2, <1>3, <1>4 DEF Handles

\* The chain moves from the beginning of a batch to its end, or not at all.
LEMMA HandlesLog ==
  ASSUME LogInv, NEW n \in Index, Handles(n)
  PROVE  /\ LogInv'
         /\ \/ UNCHANGED chain
            \/ /\ OnLog(jobs[n].post) /\ Len(chain) < Len(jobs[n].post)
               /\ chain' = jobs[n].post
<1>. USE DEF LogInv
<1>1. jobs[n] \in Batch /\ BatchOnLog(jobs[n]) /\ jobs[n].status # "none"
  BY HandlesFacts DEF TypeOK, BatchesOnLog
<1>2. \/ UNCHANGED chain
      \/ /\ OnLog(jobs[n].post) /\ Len(chain) < Len(jobs[n].post)
         /\ chain' = jobs[n].post
  BY <1>1, HandlesFacts DEF AcceptedBy, BatchOnLog
<1>3. PICK st \in {"relayed", "dead", "failed"} : jobs' = [jobs EXCEPT ![n].status = st]
  BY HandlesFacts
<1>4. /\ jobs' \in [Index -> Batch]
      /\ \A k \in Index : jobs'[k].pre = jobs[k].pre /\ jobs'[k].post = jobs[k].post
      /\ \A k \in Index : jobs'[k].status # "none" => jobs[k].status # "none"
  BY <1>1, <1>3 DEF TypeOK, Batch
<1>5. UNCHANGED <<dbVars, channel, engine, listener, batcher, client>> /\ troubles' \in Nat
  BY HandlesFacts
<1>6. TypeOK'
  BY <1>1, <1>2, <1>4, <1>5 DEF TypeOK, dbVars, Batch
<1>7. StatesAreReplays' /\ Logged' /\ EngineOnLog'
  BY <1>5 DEF StatesAreReplays, Logged, EngineOnLog, dbVars
<1>8. BatchesOnLog'
  BY <1>2, <1>4, <1>5 DEF BatchesOnLog, BatchOnLog, OnLog, dbVars
<1>. QED  BY <1>2, <1>6, <1>7, <1>8

LEMMA LogInductive == LogInv /\ [Next]_vars => LogInv'
<1>. SUFFICES ASSUME LogInv, [Next]_vars PROVE LogInv'  OBVIOUS
<1>1. ASSUME NEW r \in Http, Handle(r) \/ Disconnect(r) PROVE LogInv'
  BY <1>1, ClientLog
<1>2. CASE EngineStep
  <2>1. CASE RespondToNobody
    BY <2>1, RestartLog DEF RespondToNobody, LogInv, TypeOK
  <2>. QED  BY <1>2, <2>1, SeeLog, TickLog, RespondLog DEF EngineStep
<1>3. CASE ListenerStep
  BY <1>3, ListenerLog
<1>4. CASE ListenerFails \/ Crash
  BY <1>4, RestartLog DEF ListenerFails, Crash, Trouble, LogInv, TypeOK
<1>5. CASE BatcherStep \/ SubmitLost
  BY <1>5, CollectLog, BatcherLog DEF BatcherStep
<1>6. ASSUME NEW n \in Index, Handles(n) PROVE LogInv'
  BY <1>6, HandlesLog
<1>7. CASE UNCHANGED vars
  BY <1>7 DEF vars, dbVars, LogInv, TypeOK, StatesAreReplays, Logged, EngineOnLog, BatchesOnLog,
              BatchOnLog, OnLog
<1>. QED  BY <1>1, <1>2, <1>3, <1>4, <1>5, <1>6, <1>7 DEF Next, Done, ChainStep, Handles

LEMMA LogAlways == Spec => []LogInv
  BY InitLog, LogInductive, PTL DEF Spec

\* Replaying the stored requests from genesis gives the stored states, after any
\* crash and any failure of a task (engine.rs:44-108).
THEOREM StatesAreReplaysHolds == Spec => []StatesAreReplays
<1>1. LogInv => StatesAreReplays  BY DEF LogInv
<1>. QED  BY <1>1, LogAlways, PTL

\* What was given to the coprocessor node as a batch ends at a state the tables
\* still hold, and a request of a batch is never replaced (batcher.rs:54-155).
THEOREM BatchesAreProcessedHolds == Spec => []BatchesAreProcessed
<1>1. LogInv => BatchesAreProcessed
  BY DEF LogInv, BatchesOnLog, BatchOnLog, OnLog, BatchesAreProcessed
<1>. QED  BY <1>1, LogAlways, PTL

-----------------------------------------------------------------------------
(* The refinement: the log is what has been processed. *)

LEMMA LogUnchanged ==
  ASSUME LogInv, UNCHANGED processed, \A k \in 1..processed : requests'[k] = requests[k],
         requests' \in [1..(MaxIndex + 1) -> Request \cup {None}]
  PROVE  SubSeq(requests', 1, processed') = SubSeq(requests, 1, processed)
<1>1. /\ requests \in Seq(Request \cup {None}) /\ requests' \in Seq(Request \cup {None})
      /\ Len(requests) = MaxIndex + 1 /\ Len(requests') = MaxIndex + 1
      /\ processed \in 0..Len(requests) /\ processed <= Len(requests')
  BY BlocksAssumption, LogFacts DEF LogInv, TypeOK
<1>. QED  BY <1>1, PrefixUnchanged

LEMMA InitPromise == Init => Promise!Init
  BY SubSeqEmpty DEF Init, Promise!Init, GENESIS_GLOBAL_INDEX

LEMMA StepPromise == LogInv /\ [Next]_vars => [Promise!Next]_(Promise!vars)
<1>. SUFFICES ASSUME LogInv, [Next]_vars PROVE [Promise!Next]_(Promise!vars)  OBVIOUS
<1>. DEFINE log == SubSeq(requests, 1, processed)
<1>0. LogInv'
  BY LogInductive
<1>1. /\ requests \in Seq(Request \cup {None}) /\ Len(requests) = MaxIndex + 1
      /\ processed \in 0..Len(requests) /\ processed < Len(requests) /\ processed \in Nat
  BY BlocksAssumption, LogFacts DEF LogInv, TypeOK
<1>2. log \in Seq(Request \cup {None}) /\ Len(log) = processed
      /\ \A i \in 1..processed : log[i] = requests[i]
  BY <1>1, PrefixFacts
<1>3. CASE Tick
  <2>1. /\ processed' = processed + 1 /\ requests[processed + 1] \in Request
        /\ UNCHANGED <<requests, answers, chain>>
    BY <1>3, TickLog DEF Tick
  <2>2. log' = Append(log, requests[processed + 1])
    BY <1>1, <2>1, PrefixAppend
  <2>3. Promise!Process(requests[processed + 1])
    BY <2>1, <2>2 DEF Promise!Process
  <2>. QED  BY <2>1, <2>3 DEF Promise!Next
<1>4. CASE Respond
  <2>1. /\ processed \in 1..MaxIndex
        /\ answers' = answers \cup {<<processed, requests[processed]>>}
        /\ UNCHANGED <<requests, processed, chain>>
    BY <1>4, RespondLog DEF Respond, dbVars
  <2>2. processed \in DOMAIN log /\ log[processed] = requests[processed]
    BY <1>1, <1>2, <2>1
  <2>3. Promise!Answer(processed)
    BY <2>1, <2>2 DEF Promise!Answer
  <2>. QED  BY <2>2, <2>3 DEF Promise!Next
<1>5. CASE See
  <2>1. \A k \in 1..processed : requests'[k] = requests[k]
    BY <1>5 DEF See, LogInv, TypeOK, EngineOnLog
  <2>2. log' = log
    BY <1>0, <1>5, <2>1, LogUnchanged DEF See, LogInv, TypeOK
  <2>. QED  BY <1>5, <2>2 DEF See, Promise!vars
<1>6. ASSUME NEW n \in Index, Handles(n) PROVE [Promise!Next]_(Promise!vars)
  <2>1. UNCHANGED <<requests, processed, answers>>
    BY <1>6, HandlesFacts DEF dbVars
  <2>2. \/ UNCHANGED chain
        \/ /\ OnLog(jobs[n].post) /\ Len(chain) < Len(jobs[n].post)
           /\ chain' = jobs[n].post
    BY <1>6, HandlesLog
  <2>3. CASE UNCHANGED chain
    BY <2>1, <2>3 DEF Promise!vars
  <2>4. CASE /\ OnLog(jobs[n].post) /\ Len(chain) < Len(jobs[n].post)
             /\ chain' = jobs[n].post
    <3>. DEFINE k == Len(jobs[n].post)
    <3>1. /\ k \in 0..processed /\ k \in (Len(chain) + 1)..processed
          /\ jobs[n].post = states[k] /\ k \in Nat
      BY <1>1, <2>4 DEF OnLog, LogInv, TypeOK, Batch
    <3>2. states[k] = SubSeq(requests, 1, k)
      BY <3>1 DEF LogInv, StatesAreReplays
    <3>3. SubSeq(log, 1, k) = SubSeq(requests, 1, k)
      BY <1>1, <3>1, PrefixOfPrefix
    <3>4. Promise!SettleUpTo(k)
      BY <2>1, <2>4, <3>1, <3>2, <3>3 DEF Promise!SettleUpTo
    <3>. QED  BY <1>2, <3>1, <3>4 DEF Promise!Next
  <2>. QED  BY <2>2, <2>3, <2>4
<1>7. CASE UNCHANGED <<requests, processed, answers, chain>>
  BY <1>7 DEF Promise!vars
<1>8. \/ Tick \/ Respond \/ See
      \/ \E n \in Index : Handles(n)
      \/ UNCHANGED <<requests, processed, answers, chain>>
  BY DEF Next, Handle, Disconnect, EngineStep, RespondToNobody, ListenerStep, PushDeposit,
         SaveHeight, ListenerFails, BatcherStep, EnsureInitialized, Collect, Submit,
         SubmitRefused, Save, SubmitLost, Crash, Done, vars, dbVars, ChainStep, Handles
<1>. QED  BY <1>3, <1>4, <1>5, <1>6, <1>7, <1>8

\* The server with its database and the chain is the log that clients are
\* promised: one order, answers that keep their place, and a chain that only
\* moves forward along it (examples/clob/core/src/api/mod.rs:44).
THEOREM KeepsTheLogHolds == Spec => KeepsTheLog
  BY InitPromise, StepPromise, LogAlways, PTL DEF Spec, KeepsTheLog, Promise!Spec
-----------------------------------------------------------------------------
(* The deposits. *)

LEMMA DepositFacts ==
  /\ Blocks \in Seq(Seq(Deposit))
  /\ Http \cap Deposit = {}
  /\ \A b \in DOMAIN Blocks : Blocks[b] \in Seq(Deposit)
  /\ \A b \in DOMAIN Blocks : \A k \in DOMAIN Blocks[b] :
        b \in Nat /\ k \in Nat \ {0} /\ Blocks[b][k] \in Deposit
  /\ \A b, c \in DOMAIN Blocks : \A k \in DOMAIN Blocks[b], l \in DOMAIN Blocks[c] :
        Blocks[b][k] = Blocks[c][l] => b = c /\ k = l
<1>1. Blocks \in Seq(Seq(Deposit))  BY BlocksAssumption
<1>2. ASSUME NEW b \in DOMAIN Blocks
      PROVE  Blocks[b] \in Seq(Deposit) /\ b \in Nat
  BY <1>1, ElementOfSeq
<1>3. ASSUME NEW b \in DOMAIN Blocks, NEW k \in DOMAIN Blocks[b]
      PROVE  k \in Nat \ {0} /\ Blocks[b][k] \in Deposit
  BY <1>2, ElementOfSeq
<1>. QED  BY <1>1, <1>2, <1>3, BlocksAssumption

LEMMA InitDeposits == Init => DepositInv
<1>. SUFFICES ASSUME Init PROVE DepositInv  OBVIOUS
<1>1. ListenerInBlocks
  BY DepositFacts DEF Init, ListenerInBlocks, ListenerAtStart
<1>2. OneInFlight
  BY DEF Init, OneInFlight, EngineHasDeposit
<1>3. PassedAreLogged
  BY DepositFacts DEF Init, PassedAreLogged, Passed, ListenerAtStart
<1>4. Undisturbed
  BY DEF Init, Undisturbed, NobodyGone, NoncesFree, LoggedOnce, LoggedByListener, NoJob,
         GENESIS_GLOBAL_INDEX
<1>. QED  BY <1>1, <1>2, <1>3, <1>4 DEF DepositInv

\* A start after trouble: the listener goes back to the beginning of its block.
LEMMA RestartDeposits ==
  ASSUME LogInv, DepositInv, Restarted, UNCHANGED dbVars, troubles' # 0
  PROVE  DepositInv'
<1>1. /\ listener' = [pc |-> "poll", block |-> listener.block, next |-> 1]
      /\ channel' = <<>> /\ engine'.pc = "recv"
      /\ UNCHANGED <<processed, requests, lastSeenHeight>>
  BY DEF Restarted, ListenerAtStart, EngineAtStart, dbVars, DepositInv, ListenerInBlocks
<1>2. ListenerInBlocks'
  BY <1>1 DEF DepositInv, ListenerInBlocks
<1>3. OneInFlight'
  BY <1>1 DEF OneInFlight, EngineHasDeposit
<1>4. PassedAreLogged'
  <2>1. \A b, k \in Nat : Passed(b, k)' => Passed(b, k)
    BY <1>1, DepositFacts DEF Passed
  <2>. QED  BY <1>1, <2>1 DEF DepositInv, PassedAreLogged
<1>5. Undisturbed'
  BY DEF Undisturbed
<1>. QED  BY <1>2, <1>3, <1>4, <1>5 DEF DepositInv

\* What does not touch the log, the engine and the listener.
LEMMA OthersDeposits ==
  ASSUME LogInv, DepositInv,
         UNCHANGED <<processed, requests, lastSeenHeight, channel, engine, listener>>,
         troubles' = 0 => troubles = 0,
         troubles' = 0 => NobodyGone' /\ NoncesFree'
  PROVE  DepositInv'
<1>1. ListenerInBlocks' /\ OneInFlight' /\ PassedAreLogged'
  BY DEF DepositInv, ListenerInBlocks, OneInFlight, EngineHasDeposit, Awaited, PassedAreLogged,
         Passed
<1>2. Undisturbed'
  BY DEF DepositInv, Undisturbed, LoggedOnce, LoggedByListener, Passed
<1>. QED  BY <1>1, <1>2 DEF DepositInv

LEMMA BatcherDeposits ==
  ASSUME LogInv, DepositInv, BatcherStep \/ SubmitLost
  PROVE  DepositInv'
<1>1. troubles = 0 => NobodyGone /\ NoncesFree
  BY DEF DepositInv, Undisturbed
<1>2. batcher.nonce \in Nat
  BY DEF LogInv, TypeOK, BatcherState
<1>3. CASE EnsureInitialized
  BY <1>1, <1>3, OthersDeposits DEF EnsureInitialized, NobodyGone, NoncesFree, LogInv, TypeOK,
                                    BatcherState
<1>4. CASE Collect
  BY <1>1, <1>4, OthersDeposits DEF Collect, NobodyGone, NoncesFree, LogInv, TypeOK,
                                    BatcherState, dbVars
<1>5. CASE Submit
  <2>1. UNCHANGED <<dbVars, channel, engine, listener, client, troubles>>
    BY <1>5 DEF Submit
  <2>2. troubles = 0 => NoncesFree'
    <3>1. batcher'.nonce = batcher.nonce /\ batcher'.pc = "save"
      BY <1>5 DEF Submit, LogInv, TypeOK, BatcherState
    <3>2. \A n \in Index : n # batcher.nonce => jobs'[n] = jobs[n]
      BY <1>5 DEF Submit, Store, LogInv, TypeOK
    <3>. QED  BY <1>1, <1>2, <3>1, <3>2 DEF NoncesFree, Index
  <2>. QED  BY <1>1, <2>1, <2>2, OthersDeposits DEF NobodyGone, dbVars
<1>6. CASE SubmitRefused
  \* a nonce that is not free is refused
  <2>1. batcher.nonce \in Index /\ jobs[batcher.nonce].status # "none" /\ batcher.pc = "submit"
    BY <1>6 DEF SubmitRefused, LogInv, BatchesOnLog
  <2>2. troubles # 0 /\ UNCHANGED <<dbVars, troubles>>
    BY <1>1, <1>6, <2>1 DEF NoncesFree, SubmitRefused
  <2>3. CASE Restarted
    BY <2>2, <2>3, RestartDeposits
  <2>4. CASE UNCHANGED <<channel, engine, listener>>
    BY <2>2, <2>4, OthersDeposits DEF dbVars
  <2>. QED  BY <1>6, <2>3, <2>4 DEF SubmitRefused, TryFails
<1>7. CASE SubmitLost
  <2>1. troubles' # 0 /\ UNCHANGED dbVars
    BY <1>7 DEF SubmitLost, Trouble, LogInv, TypeOK
  <2>2. CASE Restarted
    BY <2>1, <2>2, RestartDeposits
  <2>3. CASE UNCHANGED <<channel, engine, listener>>
    BY <2>1, <2>3, OthersDeposits DEF dbVars
  <2>. QED  BY <1>7, <2>2, <2>3 DEF SubmitLost, TryFails
<1>8. CASE Save
  <2>1. batcher'.nonce = batcher.nonce + 1 /\ batcher'.pc = "idle"
    BY <1>8 DEF Save, LogInv, TypeOK, BatcherState
  <2>2. troubles = 0 => NoncesFree'
    BY <1>1, <1>2, <1>8, <2>1 DEF NoncesFree, Save, Index
  <2>. QED  BY <1>1, <1>8, <2>2, OthersDeposits DEF Save, NobodyGone
<1>. QED  BY <1>3, <1>4, <1>5, <1>6, <1>7, <1>8 DEF BatcherStep

LEMMA HandlesDeposits ==
  ASSUME LogInv, DepositInv, NEW n \in Index, Handles(n)
  PROVE  DepositInv'
<1>1. /\ UNCHANGED <<dbVars, channel, engine, listener, batcher, client>>
      /\ troubles' = 0 => troubles = 0
  BY HandlesFacts
<1>2. PICK st \in {"relayed", "dead", "failed"} : jobs' = [jobs EXCEPT ![n].status = st]
  BY HandlesFacts
<1>3. \A k \in Index : jobs[k].status = "none" => jobs'[k].status = "none"
  BY <1>2, HandlesFacts DEF LogInv, TypeOK, Batch
<1>4. troubles = 0 => NobodyGone' /\ NoncesFree'
  BY <1>1, <1>3 DEF DepositInv, Undisturbed, NobodyGone, NoncesFree
<1>. QED  BY <1>1, <1>4, OthersDeposits DEF dbVars

LEMMA ClientDeposits ==
  ASSUME LogInv, DepositInv, NEW r \in Http, Handle(r) \/ Disconnect(r)
  PROVE  DepositInv'
<1>1. CASE Disconnect(r)
  <2>1. troubles' # 0
    BY <1>1 DEF Disconnect, Trouble, LogInv, TypeOK
  <2>. QED  BY <1>1, <2>1, OthersDeposits DEF Disconnect, dbVars
<1>2. CASE Handle(r)
  <2>1. r \notin Deposit /\ r \in Request /\ channel \in Seq(Request)
    BY DepositFacts DEF Request, LogInv, TypeOK
  <2>2. /\ channel' = Append(channel, r) /\ Len(channel') = Len(channel) + 1
        /\ \A i \in 1..Len(channel) : channel'[i] = channel[i]
        /\ channel'[Len(channel) + 1] = r /\ Len(channel) \in Nat
    BY <1>2, <2>1, AppendProperties DEF Handle
  <2>3. \A i \in 1..Len(channel') :
           channel'[i] \in Deposit => i \in 1..Len(channel) /\ channel'[i] = channel[i]
    BY <2>1, <2>2
  <2>4. UNCHANGED <<dbVars, engine, listener, batcher, jobs, troubles>>
    BY <1>2 DEF Handle
  <2>5. OneInFlight'
    BY <2>3, <2>4 DEF DepositInv, OneInFlight, EngineHasDeposit, Awaited
  <2>6. ListenerInBlocks' /\ PassedAreLogged'
    BY <2>4 DEF DepositInv, ListenerInBlocks, PassedAreLogged, Passed, dbVars
  <2>7. NobodyGone => NobodyGone'
    BY <1>2 DEF Handle, NobodyGone, LogInv, TypeOK
  <2>8. Undisturbed'
    BY <2>4, <2>7 DEF DepositInv, Undisturbed, NoncesFree, LoggedOnce, LoggedByListener, Passed,
                      dbVars
  <2>. QED  BY <2>5, <2>6, <2>8 DEF DepositInv
<1>. QED  BY <1>1, <1>2
\* From the channel into the hands of the engine.
LEMMA SeeDeposits ==
  ASSUME LogInv, DepositInv, See
  PROVE  DepositInv'
<1>1. /\ channel \in Seq(Request) /\ channel # <<>> /\ channel' = Tail(channel)
      /\ engine.pc = "recv" /\ engine \in EngineState /\ engine.index = processed
      /\ engine'.pc = "seen" /\ engine'.request = Head(channel)
      /\ processed \in Nat
      /\ UNCHANGED <<processed, lastSeenHeight, listener, batcher, client, jobs, troubles>>
  BY DEF See, TakeFromChannel, LogInv, EngineOnLog, TypeOK, EngineState
<1>2. \A k \in 1..processed : requests'[k] = requests[k]
  BY <1>1 DEF See, LogInv, TypeOK
<1>3. /\ Head(channel) = channel[1] /\ Len(channel) \in Nat \ {0}
      /\ Len(channel') = Len(channel) - 1
      /\ \A i \in 1..(Len(channel) - 1) : channel'[i] = channel[i + 1]
  BY <1>1, HeadTailProperties
<1>4. ListenerInBlocks'
  BY <1>1 DEF DepositInv, ListenerInBlocks
<1>5. OneInFlight'
  <2>1. /\ \A i \in 1..Len(channel) : channel[i] \in Deposit =>
              listener.pc = "wait" /\ channel[i] = Awaited
        /\ \A i, j \in 1..Len(channel) : channel[i] \in Deposit /\ channel[j] \in Deposit => i = j
    BY DEF DepositInv, OneInFlight
  <2>2. EngineHasDeposit' => channel[1] \in Deposit
    BY <1>1, <1>3 DEF EngineHasDeposit
  <2>3. Awaited' = Awaited
    BY <1>1 DEF Awaited
  <2>4. ASSUME NEW i \in 1..Len(channel'), channel'[i] \in Deposit
        PROVE  listener'.pc = "wait" /\ channel'[i] = Awaited /\ ~EngineHasDeposit'
    <3>1. i + 1 \in 1..Len(channel) /\ 1 \in 1..Len(channel) /\ i + 1 # 1
          /\ channel[i + 1] = channel'[i]
      BY <1>3
    <3>. QED  BY <1>1, <2>1, <2>2, <2>4, <3>1
  <2>5. ASSUME NEW i \in 1..Len(channel'), NEW j \in 1..Len(channel'),
               channel'[i] \in Deposit, channel'[j] \in Deposit
        PROVE  i = j
    <3>1. i + 1 \in 1..Len(channel) /\ j + 1 \in 1..Len(channel)
          /\ channel[i + 1] = channel'[i] /\ channel[j + 1] = channel'[j]
      BY <1>3
    <3>2. i + 1 = j + 1
      BY <2>1, <2>5, <3>1
    <3>. QED  BY <3>2
  <2>6. EngineHasDeposit' => listener'.pc = "wait" /\ engine'.request = Awaited
    BY <1>1, <1>3, <2>1, <2>2
  <2>. QED  BY <2>3, <2>4, <2>5, <2>6 DEF OneInFlight
<1>6. PassedAreLogged'
  BY <1>1, <1>2 DEF DepositInv, PassedAreLogged, Passed
<1>7. Undisturbed'
  <2>1. LoggedOnce => LoggedOnce'
    BY <1>1, <1>2 DEF LoggedOnce
  <2>2. LoggedByListener => LoggedByListener'
    BY <1>1, <1>2 DEF LoggedByListener, Passed
  <2>. QED  BY <1>1, <2>1, <2>2 DEF DepositInv, Undisturbed, NobodyGone, NoncesFree
<1>. QED  BY <1>4, <1>5, <1>6, <1>7 DEF DepositInv

\* A deposit comes into the log when the listener waits for it, so it is none of
\* those the log has.
LEMMA TickDeposits ==
  ASSUME LogInv, DepositInv, Tick
  PROVE  DepositInv'
<1>1. /\ processed' = processed + 1 /\ processed \in Nat
      /\ engine.pc = "seen" /\ engine'.pc = "respond"
      /\ engine'.request = engine.request /\ engine.request = requests[processed + 1]
      /\ UNCHANGED <<requests, lastSeenHeight, channel, listener, batcher, client, jobs,
                     troubles>>
  BY DEF Tick, Persist, LogInv, EngineOnLog, TypeOK, EngineState
<1>2. EngineHasDeposit' <=> EngineHasDeposit
  BY <1>1 DEF EngineHasDeposit
<1>3. ListenerInBlocks' /\ OneInFlight'
  BY <1>1, <1>2 DEF DepositInv, ListenerInBlocks, OneInFlight, Awaited
<1>4. PassedAreLogged'
  BY <1>1 DEF DepositInv, PassedAreLogged, Passed
<1>5. ASSUME requests[processed + 1] \in Deposit
      PROVE  /\ listener.block \in DOMAIN Blocks
             /\ listener.next \in DOMAIN Blocks[listener.block]
             /\ requests[processed + 1] = Blocks[listener.block][listener.next]
  BY <1>1, <1>5 DEF DepositInv, OneInFlight, EngineHasDeposit, Awaited, ListenerInBlocks
<1>6. ASSUME LoggedByListener, NEW i \in 1..processed, requests[i] \in Deposit
      PROVE  requests[i] # requests[processed + 1]
  <2>1. PICK b, k \in Nat : Passed(b, k) /\ Blocks[b][k] = requests[i]
    BY <1>1, <1>6 DEF LoggedByListener
  <2>2. b \in DOMAIN Blocks /\ k \in DOMAIN Blocks[b]
        /\ (b # listener.block \/ k # listener.next)
    BY <2>1 DEF Passed, LogInv, TypeOK, ListenerState
  <2>. QED  BY <1>5, <1>6, <2>1, <2>2, DepositFacts
<1>7. LoggedOnce /\ LoggedByListener => LoggedOnce'
  <2>. SUFFICES ASSUME LoggedOnce, LoggedByListener,
                       NEW i \in 1..(processed + 1), NEW j \in 1..(processed + 1),
                       requests[i] \in Deposit, requests[i] = requests[j]
                PROVE  i = j
    BY <1>1 DEF LoggedOnce
  <2>1. (i = processed + 1 \/ i \in 1..processed) /\ (j = processed + 1 \/ j \in 1..processed)
    BY <1>1
  <2>. QED  BY <1>6, <2>1 DEF LoggedOnce
<1>8. LoggedByListener => LoggedByListener'
  <2>. SUFFICES ASSUME LoggedByListener, NEW i \in 1..(processed + 1), requests[i] \in Deposit
                PROVE  \/ \E b, k \in Nat : Passed(b, k) /\ Blocks[b][k] = requests[i]
                       \/ i = processed + 1
    BY <1>1 DEF LoggedByListener, Passed
  <2>1. i = processed + 1 \/ i \in 1..processed
    BY <1>1
  <2>. QED  BY <1>1, <2>1 DEF LoggedByListener
<1>9. Undisturbed'
  BY <1>1, <1>7, <1>8 DEF DepositInv, Undisturbed, NobodyGone, NoncesFree
<1>. QED  BY <1>3, <1>4, <1>9 DEF DepositInv

\* With the answer the listener passes the deposit.
LEMMA RespondDeposits ==
  ASSUME LogInv, DepositInv, Respond
  PROVE  DepositInv'
<1>1. /\ engine.pc = "respond" /\ engine'.pc = "recv"
      /\ engine.request = requests[processed] /\ processed >= 1 /\ processed \in Nat
      /\ engine.request \in Request
      /\ UNCHANGED <<processed, requests, lastSeenHeight, channel, batcher, jobs, troubles>>
  BY DEF Respond, dbVars, LogInv, EngineOnLog, Logged, TypeOK, EngineState
<1>2. ~EngineHasDeposit'
  BY <1>1 DEF EngineHasDeposit
<1>3. NobodyGone => NobodyGone'
  BY DEF Respond, NobodyGone, LogInv, TypeOK
<1>4. CASE engine.request \in Http
  <2>1. UNCHANGED listener /\ engine.request \notin Deposit
    BY <1>4, DepositFacts DEF Respond
  <2>2. OneInFlight'
    BY <1>1, <1>2, <2>1 DEF DepositInv, OneInFlight, Awaited
  <2>3. ListenerInBlocks' /\ PassedAreLogged'
    BY <1>1, <2>1 DEF DepositInv, ListenerInBlocks, PassedAreLogged, Passed
  <2>4. LoggedByListener => LoggedByListener'
    BY <1>1, <2>1 DEF LoggedByListener, Passed
  <2>5. Undisturbed'
    BY <1>1, <1>3, <2>4 DEF DepositInv, Undisturbed, NoncesFree, LoggedOnce
  <2>. QED  BY <2>2, <2>3, <2>5 DEF DepositInv
<1>5. CASE engine.request \notin Http
  <2>1. engine.request \in Deposit /\ EngineHasDeposit
    BY <1>1, <1>5 DEF Request, EngineHasDeposit
  <2>2. /\ listener.pc = "wait" /\ requests[processed] = Awaited
        /\ listener.block \in DOMAIN Blocks /\ listener.next \in DOMAIN Blocks[listener.block]
        /\ \A i \in 1..Len(channel) : channel[i] \notin Deposit
    BY <1>1, <2>1 DEF DepositInv, OneInFlight, ListenerInBlocks
  <2>3. /\ listener' = [listener EXCEPT !.pc = "poll", !.next = @ + 1]
        /\ listener \in ListenerState
    BY <1>5 DEF Respond, LogInv, TypeOK
  <2>4. /\ listener'.pc = "poll" /\ listener'.block = listener.block
        /\ listener'.next = listener.next + 1
        /\ listener.block \in Nat /\ listener.next \in Nat
    BY <2>3 DEF ListenerState
  <2>5. ListenerInBlocks' /\ OneInFlight'
    BY <1>1, <1>2, <2>2, <2>4 DEF DepositInv, ListenerInBlocks, OneInFlight
  <2>6. \A b, k \in Nat : Passed(b, k)' <=>
           Passed(b, k) \/ (b = listener.block /\ k = listener.next)
    BY <2>2, <2>4 DEF Passed
  <2>7. PassedAreLogged'
    <3>. SUFFICES ASSUME NEW b \in Nat, NEW k \in Nat, Passed(b, k)'
                  PROVE  \E i \in 1..processed : requests[i] = Blocks[b][k]
      BY <1>1 DEF PassedAreLogged
    <3>1. CASE Passed(b, k)
      BY <3>1 DEF DepositInv, PassedAreLogged
    <3>2. CASE b = listener.block /\ k = listener.next
      BY <1>1, <2>2, <3>2 DEF Awaited
    <3>. QED  BY <2>6, <3>1, <3>2
  <2>8. LoggedByListener => LoggedByListener'
    <3>. SUFFICES ASSUME LoggedByListener, NEW i \in 1..processed, requests[i] \in Deposit
                  PROVE  \E b, k \in Nat : Passed(b, k)' /\ Blocks[b][k] = requests[i]
      BY <1>1 DEF LoggedByListener
    <3>1. CASE i = processed
      BY <2>2, <2>4, <2>6, <3>1 DEF Awaited
    <3>2. CASE i # processed
      BY <2>6, <3>2 DEF LoggedByListener
    <3>. QED  BY <3>1, <3>2
  <2>9. Undisturbed'
    BY <1>1, <1>3, <2>8 DEF DepositInv, Undisturbed, NoncesFree, LoggedOnce
  <2>. QED  BY <2>5, <2>7, <2>9 DEF DepositInv
<1>. QED  BY <1>4, <1>5

LEMMA PushDeposits ==
  ASSUME LogInv, DepositInv, PushDeposit
  PROVE  DepositInv'
<1>1. /\ listener.pc = "poll" /\ listener \in ListenerState
      /\ listener' = [listener EXCEPT !.pc = "wait"]
      /\ listener.block \in DOMAIN Blocks /\ listener.next \in DOMAIN Blocks[listener.block]
      /\ UNCHANGED <<dbVars, engine, batcher, client, jobs, troubles>>
  BY DepositFacts DEF PushDeposit, LogInv, TypeOK, ListenerState
<1>2. Awaited \in Deposit /\ Awaited \in Request /\ channel \in Seq(Request)
  BY <1>1, DepositFacts DEF Awaited, Request, LogInv, TypeOK
<1>3. /\ channel' = Append(channel, Awaited) /\ Len(channel') = Len(channel) + 1
      /\ \A i \in 1..Len(channel) : channel'[i] = channel[i]
      /\ channel'[Len(channel) + 1] = Awaited /\ Len(channel) \in Nat
  BY <1>2, AppendProperties DEF PushDeposit, Awaited
<1>4. /\ listener'.pc = "wait" /\ listener'.block = listener.block
      /\ listener'.next = listener.next /\ Awaited' = Awaited
  BY <1>1 DEF ListenerState, Awaited
<1>5. /\ ~EngineHasDeposit /\ ~EngineHasDeposit'
      /\ \A i \in 1..Len(channel) : channel[i] \notin Deposit
  BY <1>1 DEF DepositInv, OneInFlight, EngineHasDeposit
<1>6. \A i \in 1..Len(channel') : channel'[i] \in Deposit => i = Len(channel) + 1
  BY <1>3, <1>5
<1>7. OneInFlight'
  BY <1>3, <1>4, <1>5, <1>6 DEF OneInFlight
<1>8. ListenerInBlocks' /\ PassedAreLogged'
  BY <1>1, <1>4 DEF DepositInv, ListenerInBlocks, PassedAreLogged, Passed, dbVars
<1>9. Undisturbed'
  BY <1>1, <1>4 DEF DepositInv, Undisturbed, NobodyGone, NoncesFree, LoggedOnce,
                    LoggedByListener, Passed, dbVars
<1>. QED  BY <1>7, <1>8, <1>9 DEF DepositInv

LEMMA SaveHeightDeposits ==
  ASSUME LogInv, DepositInv, SaveHeight
  PROVE  DepositInv'
<1>1. /\ listener.pc = "poll" /\ listener \in ListenerState
      /\ listener' = [listener EXCEPT !.block = @ + 1, !.next = 1]
      /\ lastSeenHeight' = listener.block + 1
      /\ listener.block <= Len(Blocks) /\ listener.next > Len(Blocks[listener.block])
      /\ UNCHANGED <<processed, requests, channel, engine, batcher, client, jobs, troubles>>
  BY DEF SaveHeight, LogInv, TypeOK
<1>2. /\ listener'.pc = "poll" /\ listener'.block = listener.block + 1 /\ listener'.next = 1
      /\ listener.block \in Nat \ {0} /\ listener.next \in Nat
  BY <1>1 DEF ListenerState
<1>3. listener.block \in DOMAIN Blocks /\ Len(Blocks) \in Nat
  BY <1>1, <1>2, DepositFacts
<1>4. \A b, k \in Nat : Passed(b, k)' <=> Passed(b, k)
  <2>. SUFFICES ASSUME NEW b \in DOMAIN Blocks, NEW k \in DOMAIN Blocks[b],
                       b \in Nat, k \in Nat \ {0}
                PROVE  b < listener.block + 1 \/ (b = listener.block + 1 /\ k < 1)
                         <=> b < listener.block \/ (b = listener.block /\ k < listener.next)
    BY <1>2, DepositFacts DEF Passed
  <2>1. b = listener.block => k <= Len(Blocks[listener.block])
    BY <1>3, DepositFacts
  <2>2. Len(Blocks[listener.block]) \in Nat
    BY <1>3, DepositFacts
  <2>. QED  BY <1>1, <1>2, <2>1, <2>2
<1>5. ListenerInBlocks' /\ OneInFlight'
  BY <1>1, <1>2, <1>3 DEF DepositInv, ListenerInBlocks, OneInFlight, EngineHasDeposit
<1>6. PassedAreLogged'
  BY <1>1, <1>4 DEF DepositInv, PassedAreLogged
<1>7. Undisturbed'
  BY <1>1, <1>4 DEF DepositInv, Undisturbed, NobodyGone, NoncesFree, LoggedOnce,
                    LoggedByListener
<1>. QED  BY <1>5, <1>6, <1>7 DEF DepositInv

LEMMA DepositsInductive == LogInv /\ DepositInv /\ [Next]_vars => DepositInv'
<1>. SUFFICES ASSUME LogInv, DepositInv, [Next]_vars PROVE DepositInv'  OBVIOUS
<1>1. CASE RespondToNobody
  \* somebody has left
  <2>1. troubles # 0 /\ UNCHANGED <<dbVars, troubles>>
    BY <1>1 DEF RespondToNobody, DepositInv, Undisturbed, NobodyGone
  <2>. QED  BY <1>1, <2>1, RestartDeposits DEF RespondToNobody
<1>2. CASE ListenerFails \/ Crash
  <2>1. troubles' # 0
    BY <1>2 DEF ListenerFails, Crash, Trouble, LogInv, TypeOK
  <2>. QED  BY <1>2, <2>1, RestartDeposits DEF ListenerFails, Crash
<1>3. CASE UNCHANGED vars
  BY <1>3, OthersDeposits DEF vars, dbVars, DepositInv, Undisturbed, NobodyGone, NoncesFree
<1>. QED  BY <1>1, <1>2, <1>3, ClientDeposits, SeeDeposits, TickDeposits, RespondDeposits,
             PushDeposits, SaveHeightDeposits, BatcherDeposits, HandlesDeposits
          DEF Next, EngineStep, ListenerStep, ChainStep, Handles, Done

LEMMA DepositsAlways == Spec => [](LogInv /\ DepositInv)
  BY InitLog, LogInductive, InitDeposits, DepositsInductive, PTL DEF Spec

\* How often a deposit is credited, from where it is in the log.
LEMMA CreditsBounds ==
  ASSUME NEW s \in Seq(Request), NEW d
  PROVE  /\ (\E i \in DOMAIN s : s[i] = d) => Credits(s, d) >= 1
         /\ (\A i, j \in DOMAIN s : s[i] = d /\ s[j] = d => i = j) => Credits(s, d) <= 1
<1>. DEFINE At == {i \in DOMAIN s : s[i] = d}
<1>1. IsFiniteSet(At) /\ Cardinality(At) \in Nat
  <2>1. IsFiniteSet(1..Len(s)) /\ Len(s) \in Nat /\ At \in SUBSET (1..Len(s))
    BY FS_Interval
  <2>2. IsFiniteSet(At)
    BY <2>1, FS_Subset
  <2>. QED  BY <2>2, FS_CardinalityType
<1>2. ASSUME NEW i \in DOMAIN s, s[i] = d PROVE Cardinality(At) >= 1
  <2>1. At # {}
    BY <1>2
  <2>. HIDE DEF At
  <2>2. Cardinality(At) # 0
    BY <1>1, <2>1, FS_EmptySet
  <2>. QED  BY <1>1, <2>2
<1>3. ASSUME \A i, j \in DOMAIN s : s[i] = d /\ s[j] = d => i = j
      PROVE  Cardinality(At) <= 1
  <2>1. CASE At = {}
    <3>1. Cardinality(At) = 0
      BY <2>1, FS_EmptySet, Zenon
    <3>. QED  BY <3>1
  <2>2. CASE At # {}
    <3>1. PICK i \in At : At = {i}
      BY <1>3, <2>2
    <3>2. Cardinality(At) = 1
      BY <3>1, FS_Singleton, Zenon
    <3>. QED  BY <3>2
  <2>. QED  BY <2>1, <2>2
<1>. QED  BY <1>2, <1>3 DEF Credits

\* The deposits of every block before the saved height are credited in the state
\* that clients see, and none is credited twice unless the process was stopped on
\* the way (event.rs:62-97, where the height is saved after the answers).
THEOREM DepositsAreCreditedHolds == Spec => []DepositsAreCredited
<1>1. ASSUME LogInv, DepositInv PROVE DepositsAreCredited
  <2>1. /\ clob_state = SubSeq(requests, 1, processed) /\ clob_state \in Seq(Request)
        /\ processed \in Nat
    BY <1>1 DEF clob_state, LogInv, StatesAreReplays, TypeOK
  <2>2. /\ Len(clob_state) = processed /\ DOMAIN clob_state = 1..processed
        /\ \A i \in 1..processed : clob_state[i] = requests[i]
    <3>1. requests \in Seq(Request \cup {None}) /\ processed \in 0..Len(requests)
      BY <1>1, LogFacts DEF LogInv, TypeOK
    <3>. QED  BY <2>1, <3>1, PrefixFacts
  <2>3. ASSUME NEW b \in 1..(lastSeenHeight - 1), NEW d \in ToSet(Blocks[b])
        PROVE  Credits(clob_state, d) >= 1
    <3>1. b \in DOMAIN Blocks /\ b < listener.block /\ b \in Nat
      BY <1>1, DepositFacts DEF DepositInv, ListenerInBlocks, LogInv, TypeOK, ListenerState
    <3>2. PICK k \in DOMAIN Blocks[b] : Blocks[b][k] = d
      BY DEF ToSet
    <3>3. Passed(b, k) /\ k \in Nat
      BY <3>1, DepositFacts DEF Passed
    <3>4. \E i \in 1..processed : requests[i] = d
      BY <1>1, <3>1, <3>2, <3>3 DEF DepositInv, PassedAreLogged
    <3>. QED  BY <2>1, <2>2, <3>4, CreditsBounds
  <2>4. ASSUME troubles = 0, NEW d \in Deposit
        PROVE  Credits(clob_state, d) <= 1
    <3>1. \A i, j \in 1..processed : requests[i] = d /\ requests[j] = d => i = j
      BY <1>1, <2>4 DEF DepositInv, Undisturbed, LoggedOnce
    <3>. QED  BY <2>1, <2>2, <3>1, CreditsBounds
  <2>. QED  BY <2>3, <2>4 DEF DepositsAreCredited
<1>. QED  BY <1>1, DepositsAlways, PTL
=============================================================================
