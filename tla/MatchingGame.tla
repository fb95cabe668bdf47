---------------------------- MODULE MatchingGame ----------------------------
(***************************************************************************)
(* The matching game (examples/matching-game, MatchingGameConsumer.sol): a *)
(* server whose engine plays the requests of its users one by one, a       *)
(* batcher that plays them again and has the coprocessor node prove them,  *)
(* and the consumer contract that keeps the partners.                      *)
(*                                                                         *)
(* A Merkle trie stands here as what it holds: a function from the numbers *)
(* that have an entry to the users who wait there; its root is the         *)
(* function itself.  The server keeps everything in memory: when its       *)
(* process ends, the next one starts with an empty game, whereas the chain *)
(* and the coprocessor node go on from where they are.                     *)
(*                                                                         *)
(* Requests reach the engine through one queue in one order, so the engine *)
(* takes any request here.  Definitions named X_Y are variants of X with a *)
(* mistake, as in ClobNode.                                                *)
(***************************************************************************)
EXTENDS Naturals, Sequences, SequencesExt, FiniteSetsExt

CONSTANTS
    User,
    Number,
    MaxRequests,    \* bounds on the requests of the first process, of the second, ...
    Nobody

ASSUME GameAssumption == MaxRequests \in Seq(Nat) /\ MaxRequests # <<>> /\ Nobody \notin User

Request == [kind : {"submit", "cancel"}, address : User, number : Number]
MaxEnds == Len(MaxRequests) - 1
Index == 1..Max(ToSet(MaxRequests))

-----------------------------------------------------------------------------
(* apply_requests.                                                           *)

TrieRootEmpty == <<>>
Waiting(game, n) == IF n \in DOMAIN game THEN game[n] ELSE <<>>

Unmatched == [user1 |-> Nobody, user2 |-> Nobody]

\* Somebody waits at the number.
MatchPair(game, r) ==
    IF r.kind = "submit" /\ Waiting(game, r.number) # <<>>
    THEN [user1 |-> Head(Waiting(game, r.number)), user2 |-> r.address]
    ELSE Unmatched

\* A cancellation at a number that has an entry unwraps the place of its user.
Panics(game, r) ==
    /\ r.kind = "cancel" /\ r.number \in DOMAIN game
    /\ r.address \notin ToSet(game[r.number])

Played(game, r) ==
    CASE r.kind = "cancel" /\ r.number \notin DOMAIN game -> game
      [] r.kind = "cancel" /\ r.number \in DOMAIN game ->
            [game EXCEPT ![r.number] = RemoveFirst(@, r.address)]
      [] r.kind = "submit" /\ MatchPair(game, r) # Unmatched ->
            [game EXCEPT ![r.number] = Tail(@)]
      [] OTHER ->
            [n \in DOMAIN game \cup {r.number} |->
                IF n = r.number THEN Append(Waiting(game, r.number), r.address) ELSE game[n]]

\* The game after the requests, and their matches in order.
ApplyRequests(game, reqs) ==
    FoldLeft(LAMBDA acc, r :
                [root |-> Played(acc.root, r),
                 matches |-> IF MatchPair(acc.root, r) = Unmatched THEN acc.matches
                             ELSE Append(acc.matches, MatchPair(acc.root, r))],
             [root |-> game, matches |-> <<>>], reqs)

-----------------------------------------------------------------------------

VARIABLES
    \* ServerState
    requests,               \* the requests seen, by index
    processed_global_index,
    next_batch_global_index,
    merkle_root_engine,
    merkle_root_batcher,
    \* the tasks
    engine,                 \* where run_engine is
    batcher,                \* run_batcher
    \* around them
    jobs,                   \* coprocessor node: nonce -> job
    latestStateHash,        \* of the consumer contract
    userToPartner,          \* of the consumer contract
    made,                   \* history: the matches the engines have made
    published,              \* history: the matches the contract has received
    ends                    \* history: how many processes have ended

stateVars == <<requests, processed_global_index, next_batch_global_index,
               merkle_root_engine, merkle_root_batcher>>
chainVars == <<latestStateHash, userToPartner, published>>
vars == <<stateVars, engine, batcher, jobs, chainVars, made, ends>>

NoJob == [status |-> "none", pre |-> TrieRootEmpty, post |-> TrieRootEmpty, matches |-> <<>>]

BatcherAtStart == [pc |-> "init", nonce |-> 1, end |-> 0, job |-> NoJob]

Init ==
    /\ requests = <<>>
    /\ processed_global_index = 0 /\ next_batch_global_index = 0
    /\ merkle_root_engine = TrieRootEmpty /\ merkle_root_batcher = TrieRootEmpty
    /\ engine = "recv" /\ batcher = BatcherAtStart
    /\ jobs = [n \in Index |-> NoJob]
    /\ latestStateHash = TrieRootEmpty
    /\ userToPartner = [u \in User |-> Nobody]
    /\ made = {} /\ published = {} /\ ends = 0

\* The process ends, and the next one finds nothing of it.
Ends ==
    /\ ends < MaxEnds /\ ends' = ends + 1
    /\ requests' = <<>>
    /\ processed_global_index' = 0 /\ next_batch_global_index' = 0
    /\ merkle_root_engine' = TrieRootEmpty /\ merkle_root_batcher' = TrieRootEmpty
    /\ engine' = "recv" /\ batcher' = BatcherAtStart

Crash == Ends /\ UNCHANGED <<jobs, chainVars, made>>

-----------------------------------------------------------------------------
(* engine.rs                                                                 *)

See(r) ==
    /\ engine = "recv" /\ Len(requests) < MaxRequests[ends + 1]
    /\ requests' = Append(requests, r)
    /\ engine' = "seen"
    /\ UNCHANGED <<processed_global_index, next_batch_global_index, merkle_root_engine,
                   merkle_root_batcher, batcher, jobs, chainVars, made, ends>>

SetEngineRoot_OnSubmit ==
    merkle_root_engine' = IF Last(requests).kind = "submit"
                          THEN Played(merkle_root_engine, Last(requests)) ELSE merkle_root_engine

SetEngineRoot == merkle_root_engine' = Played(merkle_root_engine, Last(requests))

\* ... and the client gets its answer.  Had it gone away, the engine would
\* return an error and the process end: that is a Crash.
Apply ==
    LET r == Last(requests)
        match == MatchPair(merkle_root_engine, r)
    IN
    /\ engine = "seen" /\ ~Panics(merkle_root_engine, r)
    /\ SetEngineRoot
    /\ processed_global_index' = Len(requests)
    /\ made' = IF match = Unmatched THEN made ELSE made \cup {match}
    /\ engine' = "recv"
    /\ UNCHANGED <<requests, next_batch_global_index, merkle_root_batcher, batcher, jobs,
                   chainVars, ends>>

\* The panic of the engine ends the process.
ApplyPanics ==
    /\ engine = "seen" /\ Panics(merkle_root_engine, Last(requests))
    /\ Ends
    /\ UNCHANGED <<jobs, chainVars, made>>

-----------------------------------------------------------------------------
(* batcher.rs                                                                *)

EnsureInitialized ==
    /\ batcher.pc = "init" /\ processed_global_index > 0
    /\ next_batch_global_index' = 1
    /\ merkle_root_batcher' = TrieRootEmpty
    /\ batcher' = [batcher EXCEPT !.pc = "idle"]
    /\ UNCHANGED <<requests, processed_global_index, merkle_root_engine, engine, jobs,
                   chainVars, made, ends>>

PreRoot_Engine == merkle_root_engine
PreRoot == merkle_root_batcher

\* The zkVM program applies the requests to the snapshot once more: the matches
\* and the output root are its result.
Proven(pre, reqs) ==
    LET result == ApplyRequests(pre, reqs)
    IN  [status |-> "pending", pre |-> pre, post |-> result.root, matches |-> result.matches]

Collect ==
    LET end == processed_global_index IN
    /\ batcher.pc = "idle" /\ next_batch_global_index <= end /\ batcher.nonce \in Index
    /\ batcher' = [batcher EXCEPT
                      !.pc = "submit", !.end = end,
                      !.job = Proven(PreRoot, SubSeq(requests, next_batch_global_index, end))]
    /\ UNCHANGED <<stateVars, engine, jobs, chainVars, made, ends>>

Store(n) ==
    IF jobs[n].status = "none" THEN jobs' = [jobs EXCEPT ![n] = batcher.job] ELSE UNCHANGED jobs

Submit ==
    /\ batcher.pc = "submit" /\ jobs[batcher.nonce].status \in {"none", "pending"}
    /\ Store(batcher.nonce)
    /\ batcher' = [batcher EXCEPT !.pc = "save"]
    /\ UNCHANGED <<stateVars, engine, chainVars, made, ends>>

\* The call takes effect but its answer is lost; the batcher tries again.  (One
\* that is lost without effect changes nothing.)
SubmitLost ==
    /\ batcher.pc = "submit" /\ jobs[batcher.nonce].status = "none"
    /\ Store(batcher.nonce)
    /\ UNCHANGED <<stateVars, engine, batcher, chainVars, made, ends>>

\* Every one of the RETRIES would be refused: the batcher returns an error, and
\* the process ends.
SubmitRefused ==
    /\ batcher.pc = "submit" /\ jobs[batcher.nonce].status \in {"relayed", "failed"}
    /\ Ends
    /\ UNCHANGED <<jobs, chainVars, made>>

SaveNextBatch_Processed == next_batch_global_index' = processed_global_index + 1
SaveNextBatch == next_batch_global_index' = batcher.end + 1

Save ==
    /\ batcher.pc = "save"
    /\ SaveNextBatch
    /\ merkle_root_batcher' = batcher.job.post
    /\ batcher' = [batcher EXCEPT !.pc = "idle", !.nonce = @ + 1]
    /\ UNCHANGED <<requests, processed_global_index, merkle_root_engine, engine, jobs, chainVars,
                   made, ends>>

-----------------------------------------------------------------------------
(* The coprocessor node relays Ordered jobs by their nonces, and the         *)
(* consumer takes a result whose input root is its own.                      *)

\* _receiveResult: each match makes its two users partners.
Partners(partner, matches) ==
    FoldLeft(LAMBDA acc, m : [acc EXCEPT ![m.user1] = m.user2, ![m.user2] = m.user1],
             partner, matches)

\* The coprocessor node is taken to execute and broadcast every job: no failed
\* execution and no dead letter (ClobNode has both).
Relay(n) ==
    /\ jobs[n].status = "pending"
    /\ \A k \in 1..(n - 1) : jobs[k].status \in {"relayed", "failed"}
    /\ IF jobs[n].pre = latestStateHash
       THEN /\ jobs' = [jobs EXCEPT ![n].status = "relayed"]
            /\ latestStateHash' = jobs[n].post
            /\ userToPartner' = Partners(userToPartner, jobs[n].matches)
            /\ published' = published \cup ToSet(jobs[n].matches)
       ELSE /\ jobs' = [jobs EXCEPT ![n].status = "failed"]
            /\ UNCHANGED chainVars
    /\ UNCHANGED <<stateVars, engine, batcher, made, ends>>

-----------------------------------------------------------------------------

EngineStep  == Apply \/ ApplyPanics
BatcherStep == EnsureInitialized \/ Collect \/ Submit \/ SubmitRefused \/ Save
ChainStep   == \E n \in Index : Relay(n)

\* Nobody asks for anything more, or the last process has ended.
Done == UNCHANGED vars

Next ==
    \/ \E r \in Request : See(r)
    \/ EngineStep \/ BatcherStep \/ SubmitLost \/ ChainStep
    \/ Crash
    \/ Done

Fairness == WF_vars(EngineStep) /\ WF_vars(BatcherStep) /\ WF_vars(ChainStep)

Spec == Init /\ [][Next]_vars /\ Fairness

-----------------------------------------------------------------------------
(* Properties.                                                               *)

\* What the engine and the batcher have as their games is what the requests in
\* ServerState lead to: the batcher's replay of a batch ends where the engine
\* was when it had processed the batch, with the requests in between not yet
\* or already there.
RootsAreReplays ==
    /\ merkle_root_engine
          = ApplyRequests(TrieRootEmpty, SubSeq(requests, 1, processed_global_index)).root
    /\ next_batch_global_index > 0 =>
          merkle_root_batcher
             = ApplyRequests(TrieRootEmpty, SubSeq(requests, 1, next_batch_global_index - 1)).root

\* Server, coprocessor node and contract play the game of Pairing: in
\* particular a match on chain is one that an engine made and answered with,
\* though the zkVM finds it by itself, and though processes end in between.
Game == INSTANCE Pairing WITH
    Player <- User,
    waiting <- [n \in Number |->
                   IF Waiting(merkle_root_engine, n) = <<>> THEN Nobody
                   ELSE Head(merkle_root_engine[n])],
    pairs <- {<<m.user1, m.user2>> : m \in made},
    partner <- userToPartner
PlaysTheGame == Game!Spec

\* While the process runs, a match that was answered reaches the chain.
MatchesArePublished ==
    [](ends = 0) =>
        \A u, v \in User :
            LET m == [user1 |-> u, user2 |-> v] IN (m \in made) ~> (m \in published)
=============================================================================
