----------------------------- MODULE JobManager -----------------------------
(***************************************************************************)
(* The JobManager contract and one StatefulConsumer contract               *)
(* (contracts/src/coprocessor).  Jobs are requested on chain by the        *)
(* consumer, or off chain by whoever signs for it; a coprocessor node      *)
(* answers with results its operator signs.  Results arrive in any order,  *)
(* more than once, for cancelled jobs and from former operators: every     *)
(* action below is one transaction, and a transaction that fails one of    *)
(* its require statements is reverted and leaves no trace.                 *)
(*                                                                         *)
(* A job id is the hash of the nonce and the consumer, so a job is keyed   *)
(* by its nonce.  Hashes are compared as the values they stand for.        *)
(*                                                                         *)
(* Definitions named X_Y are variants of X with a plausible mistake Y.  No *)
(* specification uses them: put in the place of X, each makes TLC find a   *)
(* violation of one of the properties at the end of the module.            *)
(***************************************************************************)
EXTENDS Naturals, Sequences

CONSTANTS
    MaxUint64,        \* the largest nonce
    InitialMaxNonce,
    Terms,            \* program id and cycle limit of a job
    Root,             \* state roots of the consumer
    InitialRoot,
    Body,             \* the rest of an onchain input
    Offchain,         \* hashes of offchain inputs
    Blob,             \* versioned hashes of the blobs a transaction carries
    Address, Key,
    OffchainSigner,   \* the key that signs offchain requests
    InitialRelayer, InitialOperator,
    None

ASSUME NonceAssumption ==
    /\ MaxUint64 \in Nat /\ InitialMaxNonce \in 0..MaxUint64

ASSUME InitialAssumption ==
    /\ InitialRoot \in Root
    /\ InitialRelayer \in Address /\ InitialOperator \in Key
    /\ None \notin Terms /\ None \notin Offchain /\ None \notin Blob
    /\ None \notin [root : Root, body : Body]

VARIABLES
    relayer, coprocessorOperator,
    jobIDToMetadata,      \* nonce -> status and terms of the job
    jobIDToBlobhashes,    \* nonce -> versioned hash of the job's blob
    jobIDToInputs,        \* nonce -> inputs of the job, kept by the consumer
    maxNonce,
    latestStateRoot,
    accepted              \* history: the results forwarded to the consumer

managerVars  == <<relayer, coprocessorOperator>>
consumerVars == <<maxNonce, latestStateRoot>>
vars == <<managerVars, jobIDToMetadata, jobIDToBlobhashes, jobIDToInputs, consumerVars, accepted>>

Nonces       == 0..MaxUint64
OnchainInput == [root : Root, body : Body]
JobStatus    == {"none", "pending", "cancelled", "completed"}
Metadata     == [status : JobStatus, terms : Terms \cup {None}]
JobInputs    == [onchain : OnchainInput \cup {None}, offchain : Offchain \cup {None}]

Request == [nonce : Nonces, terms : Terms, onchain : OnchainInput, offchain : Offchain,
            signer : Key]

\* What an operator signs: the request it answers, and the new state root.
\* The result of an onchain job has no offchain input and no blobs.
Result == [nonce : Nonces, terms : Terms, onchain : OnchainInput,
           offchain : Offchain \cup {None}, blob : Blob \cup {None},
           out : Root, signer : Key]

Acceptance == [nonce : Nonces, terms : Terms, onchain : OnchainInput, out : Root,
               posted : Blob \cup {None}]

NoMetadata == [status |-> "none", terms |-> None]
NoInputs   == [onchain |-> None, offchain |-> None]

TypeOK ==
    /\ relayer \in Address /\ coprocessorOperator \in Key
    /\ jobIDToMetadata \in [Nonces -> Metadata]
    /\ jobIDToBlobhashes \in [Nonces -> Blob \cup {None}]
    /\ jobIDToInputs \in [Nonces -> JobInputs]
    /\ maxNonce \in Nonces
    /\ latestStateRoot \in Root
    /\ accepted \in Seq(Acceptance)

Init ==
    /\ relayer = InitialRelayer
    /\ coprocessorOperator = InitialOperator
    /\ jobIDToMetadata = [n \in Nonces |-> NoMetadata]
    /\ jobIDToBlobhashes = [n \in Nonces |-> None]
    /\ jobIDToInputs = [n \in Nonces |-> NoInputs]
    /\ maxNonce = InitialMaxNonce
    /\ latestStateRoot = InitialRoot
    /\ accepted = <<>>

Status(n) == jobIDToMetadata[n].status

UpdateLatestNonce_Skips(n) == maxNonce' = IF n > maxNonce THEN n + 1 ELSE maxNonce
UpdateLatestNonce_Always(n) == maxNonce' = n
UpdateLatestNonce(n) == maxNonce' = IF n > maxNonce THEN n ELSE maxNonce

NotCreated_Unchecked(n) == TRUE

\* _createJob: no job has this nonce.
NotCreated(n) == Status(n) = "none"

AnswersJob_AnyTerms(result, terms, input) == result.onchain = input

\* _submitResult: the result is signed for the job's terms and onchain input.
AnswersJob(result, terms, input) == result.onchain = input /\ result.terms = terms

\* The app behind the consumer requests a job.  maxNonce + 1 is checked
\* arithmetic: at the largest nonce the request is reverted.
RequestJob(terms, input) ==
    LET n == maxNonce + 1 IN
    /\ maxNonce < MaxUint64
    /\ NotCreated(n)
    /\ jobIDToMetadata' = [jobIDToMetadata EXCEPT ![n] = [status |-> "pending", terms |-> terms]]
    /\ UpdateLatestNonce(n)
    /\ jobIDToInputs' = [jobIDToInputs EXCEPT ![n].onchain = input]
    /\ UNCHANGED <<managerVars, jobIDToBlobhashes, latestStateRoot, accepted>>

\* By the consumer or by the owner of the JobManager.
CancelJob(n) ==
    /\ Status(n) = "pending"
    /\ jobIDToMetadata' = [jobIDToMetadata EXCEPT ![n].status = "cancelled"]
    /\ UNCHANGED <<managerVars, jobIDToBlobhashes, jobIDToInputs, consumerVars, accepted>>

ReceiveResult_AnyRoot(input, result, posted) ==
    /\ latestStateRoot' = result.out
    /\ accepted' = Append(accepted, [nonce |-> result.nonce, terms |-> result.terms,
                                     onchain |-> input, out |-> result.out,
                                     posted |-> posted])

\* StatefulConsumer.receiveResult for a job with this onchain input.
ReceiveResult(input, result, posted) ==
    /\ input.root = latestStateRoot
    /\ latestStateRoot' = result.out
    /\ accepted' = Append(accepted, [nonce |-> result.nonce, terms |-> result.terms,
                                     onchain |-> input, out |-> result.out,
                                     posted |-> posted])

SubmitResult(sender, result) ==
    /\ sender = relayer
    /\ result.signer = coprocessorOperator
    /\ Status(result.nonce) = "pending"
    /\ AnswersJob(result, jobIDToMetadata[result.nonce].terms, jobIDToInputs[result.nonce].onchain)
    /\ jobIDToMetadata' = [jobIDToMetadata EXCEPT ![result.nonce].status = "completed"]
    /\ ReceiveResult(jobIDToInputs[result.nonce].onchain, result, None)
    /\ UNCHANGED <<managerVars, jobIDToBlobhashes, jobIDToInputs, maxNonce>>

\* The operator's result completes the job the request describes.
CompleteOffchainJob(request, result, posted) ==
    LET n == request.nonce IN
    /\ result.signer = coprocessorOperator
    /\ result.nonce = n
    /\ result.offchain = request.offchain
    /\ result.blob # None => result.blob = posted
    /\ AnswersJob(result, request.terms, request.onchain)
    /\ jobIDToBlobhashes' = IF result.blob # None
                            THEN [jobIDToBlobhashes EXCEPT ![n] = result.blob]
                            ELSE jobIDToBlobhashes
    /\ jobIDToInputs' = [jobIDToInputs EXCEPT ![n] = [onchain |-> request.onchain,
                                                      offchain |-> request.offchain]]
    /\ jobIDToMetadata' = [jobIDToMetadata EXCEPT ![n] = [status |-> "completed",
                                                          terms |-> request.terms]]
    /\ ReceiveResult(request.onchain, result, posted)

\* By anyone.  The transaction carries the blob posted, or None.
SubmitResultForOffchainJob(request, posted) ==
    /\ request.signer = OffchainSigner
    /\ NotCreated(request.nonce)
    /\ UpdateLatestNonce(request.nonce)
    /\ \E result \in Result : CompleteOffchainJob(request, result, posted)
    /\ UNCHANGED managerVars

\* Both by the owner.
SetRelayer ==
    /\ relayer' \in Address
    /\ UNCHANGED <<coprocessorOperator, jobIDToMetadata, jobIDToBlobhashes, jobIDToInputs,
                   consumerVars, accepted>>

SetCoprocessorOperator ==
    /\ coprocessorOperator' \in Key
    /\ UNCHANGED <<relayer, jobIDToMetadata, jobIDToBlobhashes, jobIDToInputs, consumerVars,
                   accepted>>

Next ==
    \/ \E terms \in Terms, input \in OnchainInput : RequestJob(terms, input)
    \/ \E n \in Nonces : CancelJob(n)
    \/ \E sender \in Address, result \in Result : SubmitResult(sender, result)
    \/ \E request \in Request, posted \in Blob \cup {None} :
          SubmitResultForOffchainJob(request, posted)
    \/ SetRelayer \/ SetCoprocessorOperator

Spec == Init /\ [][Next]_vars

-----------------------------------------------------------------------------
(* Properties. *)

\* Offchain jobs arrive with nonces of their own choice and in any order, yet
\* the nonce requestJob takes is always free, so that a request never collides
\* with a job that exists (Consumer.sol:50-52, JobManager.sol:77).
NextNonceFresh == \A n \in Nonces : n > maxNonce => Status(n) = "none"

\* The accepted results form a chain of state transitions from the initial
\* state root to the latest one: none is skipped, forked or applied twice,
\* in whatever order they arrive (StatefulConsumer.sol:47-50).
RootChain ==
    /\ \A i \in 1..Len(accepted) :
          accepted[i].onchain.root = IF i = 1 THEN InitialRoot ELSE accepted[i - 1].out
    /\ latestStateRoot = IF accepted = <<>> THEN InitialRoot ELSE accepted[Len(accepted)].out

\* A result is accepted once for every completed job, and for no other: in
\* particular not for a cancelled one.
AcceptedOnce ==
    /\ \A i, k \in 1..Len(accepted) : accepted[i].nonce = accepted[k].nonce => i = k
    /\ \A n \in Nonces :
          Status(n) = "completed" <=> \E i \in 1..Len(accepted) : accepted[i].nonce = n

\* The result accepted for a job was computed for the terms and the onchain
\* input the job was requested with, whatever was submitted since, and the blob
\* recorded for it was in the transaction.
AcceptedAsRequested ==
    \A i \in 1..Len(accepted) :
        LET n == accepted[i].nonce IN
        /\ accepted[i].terms = jobIDToMetadata[n].terms
        /\ accepted[i].onchain = jobIDToInputs[n].onchain
        /\ jobIDToBlobhashes[n] \in {None, accepted[i].posted}

\* No transaction changes the terms or the inputs of a job that exists, nor
\* revives one that is cancelled or completed.
JobsAreFixed ==
    [][\A n \in Nonces : Status(n) # "none" =>
          /\ jobIDToMetadata'[n].terms = jobIDToMetadata[n].terms
          /\ jobIDToInputs'[n] = jobIDToInputs[n]
          /\ jobIDToBlobhashes'[n] = jobIDToBlobhashes[n]
          /\ Status(n) # "pending" => jobIDToMetadata'[n].status = Status(n)]_vars
=============================================================================
