-------------------------- MODULE JobManager_proofs --------------------------
(***************************************************************************)
(* Proofs about JobManager, for any number of nonces and any sets of       *)
(* terms, state roots, inputs, blobs, addresses and keys.                  *)
(***************************************************************************)
EXTENDS JobManager, TLAPS

\* The blob of a job is recorded by the transaction that completes it.
NoBlobYet == \A n \in Nonces : Status(n) # "completed" => jobIDToBlobhashes[n] = None

IInv == TypeOK /\ NextNonceFresh /\ RootChain /\ AcceptedOnce /\ AcceptedAsRequested /\ NoBlobYet

LEMMA AppendFacts ==
  ASSUME NEW S, NEW s \in Seq(S), NEW e \in S
  PROVE  /\ Append(s, e) \in Seq(S)
         /\ Append(s, e) # <<>>
         /\ Len(s) \in Nat
         /\ Len(Append(s, e)) = Len(s) + 1
         /\ \A i \in 1..Len(s) : Append(s, e)[i] = s[i]
         /\ Append(s, e)[Len(s) + 1] = e
  OBVIOUS

LEMMA AcceptedTypes ==
  ASSUME TypeOK
  PROVE  /\ Len(accepted) \in Nat
         /\ Len(accepted) = 0 <=> accepted = <<>>
         /\ \A i \in 1..Len(accepted) : accepted[i] \in Acceptance /\ accepted[i].nonce \in Nonces
<1>1. accepted \in Seq(Acceptance)  BY DEF TypeOK
<1>2. \A i \in 1..Len(accepted) : accepted[i] \in Acceptance  BY <1>1
<1>3. \A a \in Acceptance : a.nonce \in Nonces  BY DEF Acceptance
<1>. QED  BY <1>1, <1>2, <1>3

LEMMA InitInv == Init => IInv
<1>. SUFFICES ASSUME Init PROVE IInv  OBVIOUS
<1>1. TypeOK
  BY NonceAssumption, InitialAssumption
     DEF Init, TypeOK, NoMetadata, NoInputs, Metadata, JobStatus, JobInputs, Nonces
<1>2. NextNonceFresh /\ NoBlobYet  BY DEF Init, NextNonceFresh, NoBlobYet, Status, NoMetadata
<1>3. RootChain  BY DEF Init, RootChain
<1>4. AcceptedOnce /\ AcceptedAsRequested
  BY DEF Init, AcceptedOnce, AcceptedAsRequested, Status, NoMetadata
<1>. QED  BY <1>1, <1>2, <1>3, <1>4 DEF IInv

-----------------------------------------------------------------------------
(* The steps. *)

LEMMA RequestJobInv ==
  ASSUME IInv, NEW terms \in Terms, NEW input \in OnchainInput, RequestJob(terms, input)
  PROVE  IInv'
<1>. DEFINE n == maxNonce + 1
<1>. USE DEF IInv
<1>1. n \in Nonces /\ maxNonce \in Nat /\ Status(n) = "none"
  BY NonceAssumption DEF NotCreated, RequestJob, TypeOK, Nonces
<1>2. /\ maxNonce' = n
      /\ jobIDToMetadata' = [jobIDToMetadata EXCEPT ![n] = [status |-> "pending", terms |-> terms]]
      /\ jobIDToInputs' = [jobIDToInputs EXCEPT ![n].onchain = input]
  BY <1>1 DEF NotCreated, RequestJob, UpdateLatestNonce
<1>3. UNCHANGED <<relayer, coprocessorOperator, jobIDToBlobhashes, latestStateRoot, accepted>>
  BY DEF NotCreated, RequestJob, managerVars
<1>. HIDE DEF n
<1>4. TypeOK'
  <2>1. jobIDToInputs' \in [Nonces -> JobInputs]
    BY <1>1, <1>2 DEF TypeOK, JobInputs
  <2>2. jobIDToMetadata' \in [Nonces -> Metadata]
    BY <1>1, <1>2 DEF TypeOK, Metadata, JobStatus
  <2>. QED  BY <1>1, <1>2, <1>3, <2>1, <2>2 DEF TypeOK
<1>5. \A m \in Nonces : m # n => /\ jobIDToMetadata'[m] = jobIDToMetadata[m]
                                 /\ jobIDToInputs'[m] = jobIDToInputs[m]
  BY <1>2 DEF TypeOK
<1>6. jobIDToMetadata'[n].status = "pending"
  BY <1>1, <1>2 DEF TypeOK
<1>7. NextNonceFresh'
  BY <1>1, <1>2, <1>5, n = maxNonce + 1 DEF NextNonceFresh, Status, n, Nonces
<1>8. RootChain'  BY <1>3 DEF RootChain
<1>9. \A i \in 1..Len(accepted) : accepted[i].nonce # n /\ accepted[i].nonce \in Nonces
  <2>1. \A i \in 1..Len(accepted) :
           accepted[i].nonce \in Nonces /\ Status(accepted[i].nonce) = "completed"
    BY AcceptedTypes DEF AcceptedOnce
  <2>. QED  BY <1>1, <2>1
<1>10. AcceptedOnce'
  BY <1>1, <1>3, <1>5, <1>6, <1>9 DEF AcceptedOnce, Status
<1>11. AcceptedAsRequested'
  BY <1>3, <1>5, <1>9 DEF AcceptedAsRequested
<1>12. NoBlobYet'
  BY <1>1, <1>3, <1>5, <1>6 DEF NoBlobYet, Status
<1>. QED  BY <1>4, <1>7, <1>8, <1>10, <1>11, <1>12

LEMMA CancelJobInv ==
  ASSUME IInv, NEW n \in Nonces, CancelJob(n)
  PROVE  IInv'
<1>. USE DEF IInv
<1>1. /\ Status(n) = "pending"
      /\ jobIDToMetadata' = [jobIDToMetadata EXCEPT ![n].status = "cancelled"]
      /\ UNCHANGED <<relayer, coprocessorOperator, jobIDToBlobhashes, jobIDToInputs, maxNonce,
                     latestStateRoot, accepted>>
  BY DEF CancelJob, managerVars, consumerVars
<1>2. TypeOK'
  <2>1. jobIDToMetadata' \in [Nonces -> Metadata]
    BY <1>1 DEF TypeOK, Metadata, JobStatus
  <2>. QED  BY <1>1, <2>1 DEF TypeOK
<1>3. /\ \A m \in Nonces : jobIDToMetadata'[m].terms = jobIDToMetadata[m].terms
      /\ \A m \in Nonces : m # n => Status(m)' = Status(m)
      /\ Status(n)' = "cancelled"
  BY <1>1 DEF TypeOK, Status, Metadata
<1>4. NextNonceFresh' /\ NoBlobYet'  BY <1>1, <1>3 DEF NextNonceFresh, NoBlobYet
<1>5. RootChain'  BY <1>1 DEF RootChain
<1>6. AcceptedOnce'  BY <1>1, <1>3 DEF AcceptedOnce
<1>7. AcceptedAsRequested'
  BY <1>1, <1>3, AcceptedTypes DEF AcceptedAsRequested
<1>. QED  BY <1>2, <1>4, <1>5, <1>6, <1>7

\* What accepting a result for nonce n changes, whichever transaction does it.
Accepts(n, e) ==
    /\ n \in Nonces /\ e \in Acceptance /\ e.nonce = n
    /\ Status(n) # "completed"
    /\ Status(n)' = "completed"
    /\ \A m \in Nonces : m # n => /\ jobIDToMetadata'[m] = jobIDToMetadata[m]
                                  /\ jobIDToInputs'[m] = jobIDToInputs[m]
                                  /\ jobIDToBlobhashes'[m] = jobIDToBlobhashes[m]
    /\ e.onchain.root = latestStateRoot
    /\ latestStateRoot' = e.out
    /\ accepted' = Append(accepted, e)
    /\ e.terms = jobIDToMetadata'[n].terms
    /\ e.onchain = jobIDToInputs'[n].onchain
    /\ jobIDToBlobhashes'[n] \in {None, e.posted}

LEMMA AcceptsInv ==
  ASSUME IInv, NEW n \in Nonces, NEW STATE e, Accepts(n, e)
  PROVE  /\ accepted' \in Seq(Acceptance)
         /\ latestStateRoot' \in Root
         /\ RootChain' /\ AcceptedOnce' /\ AcceptedAsRequested' /\ NoBlobYet'
<1>. USE DEF IInv
<1>. DEFINE L == Len(accepted)
<1>1. /\ accepted' \in Seq(Acceptance) /\ accepted' # <<>>
      /\ L \in Nat /\ Len(accepted') = L + 1
      /\ \A i \in 1..L : accepted'[i] = accepted[i]
      /\ accepted'[L + 1] = e
  BY AppendFacts DEF TypeOK, Accepts
<1>2. /\ \A i \in 1..L : accepted[i] \in Acceptance /\ accepted[i].nonce \in Nonces
      /\ L = 0 <=> accepted = <<>>
  BY AcceptedTypes DEF L
<1>. HIDE DEF L
<1>3. latestStateRoot' \in Root  BY DEF Accepts, Acceptance
<1>4. \A i \in 1..L : accepted[i].nonce # n
  <2>1. \A i \in 1..L : Status(accepted[i].nonce) = "completed"
    BY <1>2 DEF AcceptedOnce, L
  <2>. QED  BY <2>1 DEF Accepts
<1>5. 1..Len(accepted') = 1..L \cup {L + 1}  BY <1>1
<1>6. RootChain'
  <2>1. latestStateRoot' = accepted'[Len(accepted')].out
    BY <1>1 DEF Accepts
  <2>2. e.onchain.root = IF L = 0 THEN InitialRoot ELSE accepted[L].out
    BY <1>2 DEF RootChain, Accepts, L
  <2>3. accepted'[L + 1].onchain.root = IF L + 1 = 1 THEN InitialRoot ELSE accepted'[L].out
    BY <1>1, <2>2
  <2>4. ASSUME NEW i \in 1..L
        PROVE  accepted'[i].onchain.root = IF i = 1 THEN InitialRoot ELSE accepted'[i - 1].out
    <3>1. i # 1 => i - 1 \in 1..L  BY <1>1
    <3>. QED  BY <1>1, <3>1 DEF RootChain, L
  <2>. QED  BY <1>1, <1>5, <2>1, <2>3, <2>4 DEF RootChain
<1>7. AcceptedOnce'
  <2>1. \A i, k \in 1..Len(accepted') : accepted'[i].nonce = accepted'[k].nonce => i = k
    <3>1. \A i, k \in 1..L : accepted[i].nonce = accepted[k].nonce => i = k
      BY DEF AcceptedOnce, L
    <3>. QED  BY <1>1, <1>4, <1>5, <3>1 DEF Accepts
  <2>2. ASSUME NEW m \in Nonces
        PROVE  Status(m)' = "completed" <=> \E i \in 1..Len(accepted') : accepted'[i].nonce = m
    <3>1. CASE m = n
      BY <1>1, <1>5, <3>1 DEF Accepts
    <3>2. CASE m # n
      <4>1. Status(m)' = Status(m)  BY <3>2 DEF Accepts, Status
      <4>2. Status(m) = "completed" <=> \E i \in 1..L : accepted[i].nonce = m
        BY DEF AcceptedOnce, L
      <4>3. accepted'[L + 1].nonce # m  BY <1>1, <3>2 DEF Accepts
      <4>. QED  BY <1>1, <1>5, <4>1, <4>2, <4>3
    <3>. QED  BY <3>1, <3>2
  <2>. QED  BY <2>1, <2>2 DEF AcceptedOnce
<1>8. AcceptedAsRequested'
  <2>. SUFFICES ASSUME NEW i \in 1..Len(accepted')
                PROVE  LET m == accepted'[i].nonce IN
                       /\ accepted'[i].terms = jobIDToMetadata'[m].terms
                       /\ accepted'[i].onchain = jobIDToInputs'[m].onchain
                       /\ jobIDToBlobhashes'[m] \in {None, accepted'[i].posted}
    BY DEF AcceptedAsRequested
  <2>1. CASE i \in 1..L
    <3>1. /\ accepted'[i] = accepted[i] /\ accepted[i].nonce \in Nonces
          /\ accepted[i].nonce # n
      BY <1>1, <1>2, <1>4, <2>1
    <3>. QED  BY <2>1, <3>1 DEF AcceptedAsRequested, Accepts, L
  <2>2. CASE i = L + 1
    BY <1>1, <2>2 DEF Accepts
  <2>. QED  BY <1>5, <2>1, <2>2
<1>9. NoBlobYet'
  BY DEF NoBlobYet, Accepts, Status
<1>. QED  BY <1>1, <1>3, <1>6, <1>7, <1>8, <1>9

LEMMA SubmitResultInv ==
  ASSUME IInv, NEW sender \in Address, NEW result \in Result, SubmitResult(sender, result)
  PROVE  IInv'
<1>. USE DEF IInv
<1>. DEFINE n == result.nonce
            e == [nonce |-> n, terms |-> result.terms, onchain |-> jobIDToInputs[n].onchain,
                  out |-> result.out, posted |-> None]
<1>1. /\ n \in Nonces /\ result.terms \in Terms /\ result.onchain \in OnchainInput
      /\ result.out \in Root
  BY DEF Result
<1>2. /\ Status(n) = "pending"
      /\ result.onchain = jobIDToInputs[n].onchain
      /\ result.terms = jobIDToMetadata[n].terms
      /\ jobIDToMetadata' = [jobIDToMetadata EXCEPT ![n].status = "completed"]
      /\ e.onchain.root = latestStateRoot
      /\ latestStateRoot' = e.out
      /\ accepted' = Append(accepted, e)
      /\ UNCHANGED <<relayer, coprocessorOperator, jobIDToBlobhashes, jobIDToInputs, maxNonce>>
  BY DEF AnswersJob, SubmitResult, ReceiveResult, managerVars
<1>3. e \in Acceptance /\ e.nonce = n  BY <1>1, <1>2 DEF Acceptance
<1>4. /\ Status(n)' = "completed"
      /\ jobIDToMetadata'[n].terms = jobIDToMetadata[n].terms
      /\ \A m \in Nonces : m # n => jobIDToMetadata'[m] = jobIDToMetadata[m]
  BY <1>1, <1>2 DEF TypeOK, Status, Metadata
<1>5. jobIDToBlobhashes[n] = None
  BY <1>1, <1>2 DEF NoBlobYet
<1>6. Accepts(n, e)
  <2>1. e.terms = jobIDToMetadata'[n].terms /\ e.onchain = jobIDToInputs'[n].onchain
    BY <1>1, <1>2, <1>4
  <2>2. Status(n) # "completed" /\ e.posted = None
    BY <1>2
  <2>. HIDE DEF e
  <2>. QED  BY <1>1, <1>2, <1>3, <1>4, <1>5, <2>1, <2>2 DEF Accepts
<1>. HIDE DEF n, e
<1>7. TypeOK'
  <2>1. jobIDToMetadata' \in [Nonces -> Metadata]
    BY <1>1, <1>2 DEF TypeOK, Metadata, JobStatus
  <2>. QED  BY <1>2, <1>6, <2>1, AcceptsInv DEF TypeOK
<1>8. NextNonceFresh'
  BY <1>1, <1>2, <1>4 DEF NextNonceFresh, Status
<1>. QED  BY <1>1, <1>6, <1>7, <1>8, AcceptsInv

LEMMA SubmitOffchainInv ==
  ASSUME IInv, NEW request \in Request, NEW posted \in Blob \cup {None},
         SubmitResultForOffchainJob(request, posted)
  PROVE  IInv'
<1>. USE DEF IInv
<1>. PICK result \in Result : CompleteOffchainJob(request, result, posted)
  BY DEF SubmitResultForOffchainJob
<1>. DEFINE n == request.nonce
            e == [nonce |-> result.nonce, terms |-> result.terms, onchain |-> request.onchain,
                  out |-> result.out, posted |-> posted]
<1>1. /\ n \in Nonces /\ request.terms \in Terms /\ request.onchain \in OnchainInput
      /\ request.offchain \in Offchain
      /\ result.out \in Root /\ result.blob \in Blob \cup {None}
  BY DEF Request, Result
<1>2. /\ result.nonce = n /\ result.terms = request.terms
      /\ Status(n) = "none"
      /\ result.blob # None => result.blob = posted
      /\ jobIDToBlobhashes' = IF result.blob # None
                              THEN [jobIDToBlobhashes EXCEPT ![n] = result.blob]
                              ELSE jobIDToBlobhashes
      /\ maxNonce' = IF n > maxNonce THEN n ELSE maxNonce
      /\ jobIDToInputs' = [jobIDToInputs EXCEPT ![n] = [onchain |-> request.onchain,
                                                        offchain |-> request.offchain]]
      /\ jobIDToMetadata' = [jobIDToMetadata EXCEPT ![n] = [status |-> "completed",
                                                            terms |-> request.terms]]
      /\ e.onchain.root = latestStateRoot
      /\ latestStateRoot' = e.out
      /\ accepted' = Append(accepted, e)
      /\ UNCHANGED <<relayer, coprocessorOperator>>
  BY DEF NotCreated, AnswersJob, SubmitResultForOffchainJob, CompleteOffchainJob, ReceiveResult,
         UpdateLatestNonce, managerVars
<1>3. e \in Acceptance /\ e.nonce = n  BY <1>1, <1>2 DEF Acceptance
<1>4. /\ Status(n)' = "completed"
      /\ jobIDToMetadata'[n].terms = request.terms
      /\ jobIDToInputs'[n].onchain = request.onchain
      /\ \A m \in Nonces : m # n => /\ jobIDToMetadata'[m] = jobIDToMetadata[m]
                                    /\ jobIDToInputs'[m] = jobIDToInputs[m]
                                    /\ jobIDToBlobhashes'[m] = jobIDToBlobhashes[m]
  BY <1>1, <1>2 DEF TypeOK, Status
<1>5. jobIDToBlobhashes'[n] \in {None, posted}
  <2>1. jobIDToBlobhashes[n] = None  BY <1>1, <1>2 DEF NoBlobYet
  <2>. QED  BY <1>1, <1>2, <2>1 DEF TypeOK
<1>6. Accepts(n, e)
  <2>1. e.terms = jobIDToMetadata'[n].terms /\ e.onchain = jobIDToInputs'[n].onchain
    BY <1>1, <1>2, <1>4
  <2>2. Status(n) # "completed" /\ e.posted = posted
    BY <1>2
  <2>. HIDE DEF e
  <2>. QED  BY <1>1, <1>2, <1>3, <1>4, <1>5, <2>1, <2>2 DEF Accepts
<1>. HIDE DEF n, e
<1>7. TypeOK'
  <2>1. jobIDToMetadata' \in [Nonces -> Metadata]
    BY <1>1, <1>2 DEF TypeOK, Metadata, JobStatus
  <2>2. jobIDToInputs' \in [Nonces -> JobInputs]
    BY <1>1, <1>2 DEF TypeOK, JobInputs
  <2>3. jobIDToBlobhashes' \in [Nonces -> Blob \cup {None}]
    BY <1>1, <1>2 DEF TypeOK
  <2>4. maxNonce' \in Nonces  BY <1>1, <1>2 DEF TypeOK
  <2>. QED  BY <1>2, <1>6, <2>1, <2>2, <2>3, <2>4, AcceptsInv DEF TypeOK
<1>8. NextNonceFresh'
  <2>. SUFFICES ASSUME NEW m \in Nonces, m > maxNonce' PROVE Status(m)' = "none"
    BY DEF NextNonceFresh
  <2>1. m # n /\ m > maxNonce
    BY <1>1, <1>2 DEF TypeOK, Nonces
  <2>. QED  BY <1>4, <2>1 DEF NextNonceFresh, Status
<1>. QED  BY <1>1, <1>6, <1>7, <1>8, AcceptsInv

LEMMA SetInv ==
  ASSUME IInv, SetRelayer \/ SetCoprocessorOperator
  PROVE  IInv'
<1>. USE DEF IInv
<1>1. /\ relayer' \in Address /\ coprocessorOperator' \in Key
      /\ UNCHANGED <<jobIDToMetadata, jobIDToBlobhashes, jobIDToInputs, maxNonce,
                     latestStateRoot, accepted>>
  BY DEF SetRelayer, SetCoprocessorOperator, consumerVars, TypeOK
<1>. QED
  BY <1>1 DEF TypeOK, NextNonceFresh, RootChain, AcceptedOnce, AcceptedAsRequested, NoBlobYet,
              Status

LEMMA StutterInv == IInv /\ UNCHANGED vars => IInv'
  BY DEF IInv, TypeOK, NextNonceFresh, RootChain, AcceptedOnce, AcceptedAsRequested, NoBlobYet,
         Status, vars, managerVars, consumerVars

LEMMA NextInv == IInv /\ [Next]_vars => IInv'
  BY RequestJobInv, CancelJobInv, SubmitResultInv, SubmitOffchainInv, SetInv, StutterInv DEF Next

\* The inductive invariant holds in every reachable state.
THEOREM Invariant == Spec => []IInv
<1>. QED  BY InitInv, NextInv, PTL DEF Spec

-----------------------------------------------------------------------------
(* The theorems. *)

\* Every variable keeps its type.
THEOREM TypeCorrect == Spec => []TypeOK
<1>1. IInv => TypeOK  BY DEF IInv
<1>. QED  BY <1>1, Invariant, PTL

\* A request on chain never meets a job that exists, whatever the nonces of the
\* offchain jobs (JobManager.sol:77, Consumer.sol:50-52).
THEOREM RequestsNeverCollide == Spec => []NextNonceFresh
<1>1. IInv => NextNonceFresh  BY DEF IInv
<1>. QED  BY <1>1, Invariant, PTL

\* The results a StatefulConsumer accepts are one chain of state transitions
\* (StatefulConsumer.sol:47-50).
THEOREM RootsAreChained == Spec => []RootChain
<1>1. IInv => RootChain  BY DEF IInv
<1>. QED  BY <1>1, Invariant, PTL

\* One result for each completed job, none for the others
\* (JobManager.sol:161-180).
THEOREM ResultsAreAcceptedOnce == Spec => []AcceptedOnce
<1>1. IInv => AcceptedOnce  BY DEF IInv
<1>. QED  BY <1>1, Invariant, PTL

\* ... and it answers the request as it was made (JobManager.sol:132-172).
THEOREM ResultsMatchRequests == Spec => []AcceptedAsRequested
<1>1. IInv => AcceptedAsRequested  BY DEF IInv
<1>. QED  BY <1>1, Invariant, PTL

\* Terms, inputs and blobs of a job are fixed when it is created and completed,
\* and a job that left "pending" stays as it is (JobManager.sol:77, 87, 162).
THEOREM JobsStayFixed == Spec => JobsAreFixed
<1>. DEFINE Fixed(n) == /\ jobIDToMetadata'[n].terms = jobIDToMetadata[n].terms
                        /\ jobIDToInputs'[n] = jobIDToInputs[n]
                        /\ jobIDToBlobhashes'[n] = jobIDToBlobhashes[n]
                        /\ Status(n) # "pending" => jobIDToMetadata'[n].status = Status(n)
            Step == \A n \in Nonces : Status(n) # "none" => Fixed(n)
<1>1. TypeOK /\ [Next]_vars => [Step]_vars
  <2>. SUFFICES ASSUME TypeOK, Next, NEW n \in Nonces, Status(n) # "none" PROVE Fixed(n)
    OBVIOUS
  <2>1. ASSUME NEW terms \in Terms, NEW input \in OnchainInput, RequestJob(terms, input)
        PROVE  Fixed(n)
    BY <2>1 DEF NotCreated, RequestJob, TypeOK, Status
  <2>2. ASSUME NEW m \in Nonces, CancelJob(m) PROVE Fixed(n)
    BY <2>2 DEF CancelJob, TypeOK, Status, Metadata
  <2>3. ASSUME NEW sender \in Address, NEW result \in Result, SubmitResult(sender, result)
        PROVE  Fixed(n)
    BY <2>3 DEF SubmitResult, TypeOK, Status, Metadata
  <2>4. ASSUME NEW request \in Request, NEW posted \in Blob \cup {None},
               SubmitResultForOffchainJob(request, posted)
        PROVE  Fixed(n)
    <3>1. n # request.nonce  BY <2>4 DEF NotCreated, SubmitResultForOffchainJob
    <3>. QED
      BY <2>4, <3>1 DEF SubmitResultForOffchainJob, CompleteOffchainJob, TypeOK, Status
  <2>5. CASE SetRelayer \/ SetCoprocessorOperator
    BY <2>5 DEF SetRelayer, SetCoprocessorOperator, Status
  <2>. QED  BY <2>1, <2>2, <2>3, <2>4, <2>5 DEF Next
<1>. QED  BY <1>1, TypeCorrect, PTL DEF Spec, JobsAreFixed
=============================================================================
