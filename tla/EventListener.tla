--------------------------- MODULE EventListener ---------------------------
(***************************************************************************)
(* The JobEventListener (coproc/src/event.rs) in front of a coprocessor    *)
(* node: jobs requested on chain reach submit_job block by block, and the  *)
(* height up to which blocks were processed is saved through the writer,   *)
(* without waiting, for the next start of the process.                     *)
(*                                                                         *)
(* The calls of submit_job for jobs in the logs are the listener's, all    *)
(* other calls are clients'.  A query of the RPC provider that fails, and  *)
(* a lost connection, only delay the listener.                             *)
(***************************************************************************)
EXTENDS ProgramStore

CONSTANTS
    Scenarios,        \* what is requested on chain and what clients submit
    FromBlock,        \* exec_block_tag: where a node without a height starts
    SubmitJobRetries  \* SUBMIT_JOB_RETRIES

\* logs: block number -> the jobs of its JobCreated events.  A job requested on
\* chain is Unordered.
ASSUME ListenerAssumption ==
    /\ FromBlock \in Nat /\ SubmitJobRetries \in Nat \ {0}
    /\ \A s \in Scenarios :
          /\ s.clients \subseteq Job /\ DOMAIN s.logs \subseteq Nat
          /\ s.uploads \subseteq Upload
          /\ s.installed \in [Program -> Elf \cup {NoRow}]
          /\ \A p \in Program : s.installed[p] # NoRow => IdOf[s.installed[p]] = p
          /\ \A b \in DOMAIN s.logs :
                s.logs[b] \in Seq(Job \ Ordered) /\ Range(s.logs[b]) \cap s.clients = {}

VARIABLES
    logs, clients,    \* the scenario
    lastBlockHeight,  \* LastBlockHeight in the database, 0 for none
    lastSeenBlock,
    events,           \* events of the block at hand still to submit
    try,              \* the i of the loop around submit_job, 0 between blocks
    dropped           \* history: jobs whose every try was refused

scenarioVars == <<logs, clients>>
listenerVars == <<scenarioVars, lastBlockHeight, lastSeenBlock, events, try, dropped>>
allVars      == <<nodeVars, programVars, listenerVars>>

HeightWrite(b) == [kind |-> "height", height |-> b, ack |-> NoJob]

ListenerAtStart(height) == Max({FromBlock, height})

ListenerInit ==
    /\ NodeInit
    /\ \E s \in Scenarios :
          logs = s.logs /\ clients = s.clients /\ ProgramInit(s.installed, s.uploads)
    /\ lastBlockHeight = 0
    /\ lastSeenBlock = ListenerAtStart(0)
    /\ events = <<>>
    /\ try = 0
    /\ dropped = {}

ReadBlock_SaveFirst ==
    /\ try = 0 /\ lastSeenBlock \in DOMAIN logs
    /\ events' = logs[lastSeenBlock]
    /\ try' = 1
    /\ ToWriter(HeightWrite(lastSeenBlock + 1))
    /\ UNCHANGED <<vars, programVars, scenarioVars, intakeVars, actorUp, dbVars, txVars, dlq, chainVars, histVars,
                   lastBlockHeight, lastSeenBlock, dropped>>

ReadBlock ==
    /\ try = 0 /\ lastSeenBlock \in DOMAIN logs
    /\ events' = logs[lastSeenBlock]
    /\ try' = 1
    /\ UNCHANGED <<nodeVars, programVars, scenarioVars, lastBlockHeight, lastSeenBlock, dropped>>

\* One step of the submit_job the listener awaits.
SubmitEvent ==
    /\ events # <<>> /\ Submit(Head(events))
    /\ UNCHANGED <<programVars, listenerVars>>

EventSubmitted ==
    /\ events # <<>> /\ intake[Head(events)] = "done"
    /\ events' = Tail(events)
    /\ try' = 1
    /\ UNCHANGED <<nodeVars, programVars, scenarioVars, lastBlockHeight, lastSeenBlock, dropped>>

TryAgain ==
    /\ events # <<>> /\ intake[Head(events)] = "refused"
    /\ try < SubmitJobRetries
    /\ try' = try + 1
    /\ Goto(Head(events), "idle")
    /\ UNCHANGED <<vars, programVars, scenarioVars, matched, readNonce, actorUp, dbVars, writerRx, txVars, dlq, chainVars,
                   histVars, lastBlockHeight, lastSeenBlock, events, dropped>>

\* The error is logged and the job is left behind.
EventDropped ==
    /\ events # <<>> /\ intake[Head(events)] = "refused"
    /\ try = SubmitJobRetries
    /\ dropped' = dropped \cup {Head(events)}
    /\ events' = Tail(events)
    /\ try' = 1
    /\ UNCHANGED <<nodeVars, programVars, scenarioVars, lastBlockHeight, lastSeenBlock>>

BlockDone ==
    /\ try # 0 /\ events = <<>>
    /\ lastSeenBlock' = lastSeenBlock + 1
    /\ try' = 0
    /\ ToWriter(HeightWrite(lastSeenBlock + 1))
    /\ UNCHANGED <<vars, programVars, scenarioVars, intakeVars, actorUp, dbVars, txVars, dlq, chainVars, histVars,
                   lastBlockHeight, events, dropped>>

HeightWritten ==
    /\ writerRx # <<>> /\ Head(writerRx).kind = "height"
    /\ lastBlockHeight' = Head(writerRx).height
    /\ writerRx' = Tail(writerRx)
    /\ UNCHANGED <<vars, programVars, scenarioVars, intakeVars, actorUp, dbVars, txVars, dlq, chainVars, histVars,
                   lastSeenBlock, events, try, dropped>>

ListenerStep ==
    ReadBlock \/ SubmitEvent \/ EventSubmitted \/ TryAgain \/ EventDropped \/ BlockDone

Restart ==
    /\ CrashInStore
    /\ lastSeenBlock' = ListenerAtStart(lastBlockHeight)
    /\ events' = <<>>
    /\ try' = 0
    /\ UNCHANGED <<scenarioVars, lastBlockHeight, dropped>>

ClientStep == \E j \in clients : Submit(j) /\ UNCHANGED programVars

ListenerRest ==
    /\ NothingLeftToDo /\ \A j \in clients : Returned(j)
    /\ \A c \in Upload : upload[c] \in {"absent", "ok", "refused"}
    /\ try = 0 /\ lastSeenBlock \notin DOMAIN logs
    /\ UNCHANGED allVars

ListenerNext ==
    \/ ListenerStep \/ HeightWritten \/ Restart \/ ListenerRest
    \/ (ClientStep \/ StoreStep) /\ UNCHANGED listenerVars

ListenerSpec == ListenerInit /\ [][ListenerNext]_allVars

-----------------------------------------------------------------------------
\* The jobs of a block below the saved height, which no start of the node reads
\* again, are in the job table, and submit_job accepted them, or another job
\* with their nonce, unless it refused every try, whatever crashes took from the
\* writer's queue and the actors.
PassedBlocksAreSubmitted ==
    \A b \in DOMAIN logs : FromBlock <= b /\ b < lastBlockHeight =>
        \A j \in Range(logs[b]) :
            Found(j) /\ (j \in dropped \/ \E k \in acked : Nonce[k] = Nonce[j])
=============================================================================
