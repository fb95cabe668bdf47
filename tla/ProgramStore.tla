---------------------------- MODULE ProgramStore ----------------------------
(***************************************************************************)
(* The programs of a coprocessor node: submit_elf (coproc/src/intake.rs)   *)
(* stores an ELF and the program made from it in two writes, and a worker  *)
(* that finds no program for a job fails the job.  submit_elf runs in a    *)
(* blocking task of its own, which goes on when the client disconnects.    *)
(*                                                                         *)
(* A program is known by the ELF that it was made from.                    *)
(***************************************************************************)
EXTENDS CoprocessorNode

CONSTANTS
    Program,     \* program ids
    Elf,
    IdOf,        \* the program id that derives from each ELF
    Loadable,    \* the ELFs that a program can be made from
    Upload,      \* the calls of submit_elf
    Uploaded,    \* call -> the program id and the ELF it brings
    ProgramOf    \* the program of each job

\* A program id is a digest of the ELF: no two ELFs have the same.
ASSUME ProgramAssumption ==
    /\ IdOf \in [Elf -> Program] /\ Loadable \subseteq Elf
    /\ \A e, f \in Elf : IdOf[e] = IdOf[f] => e = f
    /\ Uploaded \in [Upload -> [id : Program, elf : Elf]]
    /\ ProgramOf \in [Job -> Program]
    /\ NoRow \notin Elf /\ NoJob \notin Upload

VARIABLES
    elfTable, programTable,  \* ElfTable and ProgramTable: id -> ELF
    upload,                  \* where each call of submit_elf is
    accepted                 \* history: ids for which submit_elf returned Ok

programVars == <<elfTable, programTable, upload, accepted>>

ElfWrite(c) == [kind |-> "elf", row |-> Uploaded[c], ack |-> NoJob]
ProgramWrite(c) == [kind |-> "program", row |-> Uploaded[c], ack |-> c]

\* `absent' calls are never made.
ProgramInit(installed, calls) ==
    /\ elfTable = installed /\ programTable = installed
    /\ upload = [c \in Upload |-> IF c \in calls THEN "idle" ELSE "absent"]
    /\ accepted = {}

GotoUpload(c, phase) == upload' = [upload EXCEPT ![c] = phase]

\* create_elf: the id is derived from the ELF, whoever uploads it.
DerivedId(c) == IdOf[Uploaded[c].elf]

\* create_program: some ELFs have an id and yet make no program.
Derivable(c) == Uploaded[c].elf \in Loadable

MismatchProgramId_Unchecked(c) == FALSE
MismatchProgramId(c) == DerivedId(c) # Uploaded[c].id

ElfAlreadyExists(c) == elfTable[Uploaded[c].id] # NoRow

LookUpElf(c) ==
    /\ upload[c] = "idle"
    /\ GotoUpload(c, IF ElfAlreadyExists(c) \/ MismatchProgramId(c) THEN "refused" ELSE "checked")
    /\ UNCHANGED <<nodeVars, elfTable, programTable, accepted>>

SendElf(c) ==
    /\ upload[c] = "checked"
    /\ ToWriter(ElfWrite(c))
    /\ GotoUpload(c, "creating")
    /\ UNCHANGED <<vars, intakeVars, actorUp, dbVars, txVars, dlq, chainVars, histVars,
                   elfTable, programTable, accepted>>

SendProgram(c) ==
    /\ upload[c] = "creating" /\ Derivable(c)
    /\ ToWriter(ProgramWrite(c))
    /\ GotoUpload(c, "writing")
    /\ UNCHANGED <<vars, intakeVars, actorUp, dbVars, txVars, dlq, chainVars, histVars,
                   elfTable, programTable, accepted>>

\* create_program fails, and the ELF stays: its id is taken for good.
CreateProgramFails(c) ==
    /\ upload[c] = "creating" /\ ~Derivable(c)
    /\ GotoUpload(c, "refused")
    /\ UNCHANGED <<nodeVars, elfTable, programTable, accepted>>

SubmitElf(c) == LookUpElf(c) \/ SendElf(c) \/ SendProgram(c) \/ CreateProgramFails(c)

ElfWritten ==
    /\ writerRx # <<>> /\ Head(writerRx).kind = "elf"
    /\ elfTable' = [elfTable EXCEPT ![Head(writerRx).row.id] = Head(writerRx).row.elf]
    /\ writerRx' = Tail(writerRx)
    /\ UNCHANGED <<vars, intakeVars, actorUp, dbVars, txVars, dlq, chainVars, histVars,
                   programTable, upload, accepted>>

\* The call is answered when its program is written, after its ELF.
ProgramWritten ==
    /\ writerRx # <<>> /\ Head(writerRx).kind = "program"
    /\ programTable' = [programTable EXCEPT ![Head(writerRx).row.id] = Head(writerRx).row.elf]
    /\ GotoUpload(Head(writerRx).ack, "ok")
    /\ accepted' = accepted \cup {Head(writerRx).row.id}
    /\ writerRx' = Tail(writerRx)
    /\ UNCHANGED <<vars, intakeVars, actorUp, dbVars, txVars, dlq, chainVars, histVars, elfTable>>

\* get_program: a job whose program is missing fails.
WorkersHavePrograms ==
    \A j \in Job :
        task[j] = "executing" /\ task'[j] \in {"ok", "lost"} => programTable[ProgramOf[j]] # NoRow

\* A step of the node, whose workers look their programs up.
StoreStep ==
    \/ NodeStep /\ WorkersHavePrograms /\ UNCHANGED programVars
    \/ \E c \in Upload : SubmitElf(c)
    \/ ElfWritten \/ ProgramWritten

\* Clients may bring their ELFs again.
CrashInStore ==
    /\ Crash
    /\ upload' = [c \in Upload |-> IF upload[c] = "absent" THEN "absent" ELSE "idle"]
    /\ UNCHANGED <<elfTable, programTable, accepted>>

-----------------------------------------------------------------------------
\* What submit_job and submit_elf answered Ok for is stored, across a crash: the
\* job in the job table, and both the ELF and the program, which is the one
\* that the ELF makes ("we wait on that before returning", intake.rs:299), with
\* two calls for one id at a time, one of which may lie about the id.
AnsweredIsStored ==
    /\ AckedIsStored
    /\ \A p \in accepted : elfTable[p] # NoRow /\ programTable[p] = elfTable[p]
=============================================================================
