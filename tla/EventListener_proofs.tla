----------------------- MODULE EventListener_proofs -----------------------
(***************************************************************************)
(* Proofs about EventListener and the ProgramStore it runs on, for any     *)
(* jobs, blocks, programs and calls, and any number of crashes.            *)
(***************************************************************************)
EXTENDS EventListener, CoprocessorNode_proofs

-----------------------------------------------------------------------------
(* The inductive invariant. *)

Honest(row) == IdOf[row.elf] = row.id

ProgramRow == {row \in [id : Program, elf : Elf] : Honest(row)}

ElfWrites     == [kind : {"elf"}, row : ProgramRow, ack : {NoJob}]
ProgramWrites == [kind : {"program"}, row : ProgramRow, ack : Upload]
HeightWrites  == {w \in [kind : {"height"}, height : Nat, ack : {NoJob}] :
                     w.height <= lastSeenBlock}
AllWrites     == NodeWrites \cup ElfWrites \cup ProgramWrites \cup HeightWrites

AllQueueInv == writerRx \in Seq(AllWrites)

\* The ELF of the program is stored or among the first n writes in the queue.
ElfComes(id, n) ==
    \/ elfTable[id] # NoRow
    \/ \E i \in 1..n : writerRx[i].kind = "elf" /\ writerRx[i].row.id = id

UploadPhase == {"absent", "idle", "refused", "checked", "creating", "writing", "ok"}

ProgramTypes ==
    /\ elfTable \in [Program -> Elf \cup {NoRow}]
    /\ programTable \in [Program -> Elf \cup {NoRow}]
    /\ upload \in [Upload -> UploadPhase]
    /\ accepted \subseteq Program

\* Whatever is stored, or about to be, is stored under the id it derives, and a
\* program is written after an ELF of its id.
ProgramInv ==
    /\ ProgramTypes
    /\ \A p \in Program :
          /\ elfTable[p] # NoRow => IdOf[elfTable[p]] = p
          /\ programTable[p] # NoRow => IdOf[programTable[p]] = p
    /\ \A c \in Upload : upload[c] \in {"checked", "creating"} => Honest(Uploaded[c])
    /\ \A c \in Upload : upload[c] = "creating" => ElfComes(Uploaded[c].id, Len(writerRx))
    /\ \A i \in 1..Len(writerRx) :
          writerRx[i].kind = "program" => ElfComes(writerRx[i].row.id, i)
    /\ \A p \in accepted : elfTable[p] # NoRow /\ programTable[p] # NoRow

Submitted(j) == Found(j) /\ (j \in dropped \/ Nonce[j] \in Answered)

BlockTypes ==
    /\ DOMAIN logs \subseteq Nat /\ clients \subseteq Job
    /\ \A b \in DOMAIN logs : logs[b] \in Seq(Job \ Ordered)
    /\ lastBlockHeight \in Nat /\ lastSeenBlock \in Nat /\ try \in Nat
    /\ events \in Seq(Job \ Ordered)
    /\ dropped \subseteq Job

\* Every block from FromBlock up to the listener's is submitted, and the jobs of
\* the block it is at are submitted or still to come.
BlockInv ==
    /\ BlockTypes
    /\ FromBlock <= lastSeenBlock /\ lastBlockHeight <= lastSeenBlock
    /\ try = 0 => events = <<>>
    /\ \A b \in DOMAIN logs : FromBlock <= b /\ b < lastSeenBlock =>
          \A i \in 1..Len(logs[b]) : Submitted(logs[b][i])
    /\ try # 0 =>
          /\ lastSeenBlock \in DOMAIN logs
          /\ \A i \in 1..Len(logs[lastSeenBlock]) :
                \/ Submitted(logs[lastSeenBlock][i])
                \/ \E k \in 1..Len(events) : events[k] = logs[lastSeenBlock][i]

ListenerInv == NodeInv /\ ProgramInv /\ BlockInv /\ AllQueueInv

-----------------------------------------------------------------------------
(* The start. *)

LEMMA AtStart ==
  ASSUME NEW height \in Nat
  PROVE  /\ ListenerAtStart(height) \in {FromBlock, height}
         /\ ListenerAtStart(height) >= FromBlock
         /\ ListenerAtStart(height) >= height
<1>. DEFINE S == {FromBlock, height}
<1>1. \E m \in S : \A n \in S : m >= n
  BY ListenerAssumption
<1>2. Max(S) \in S /\ \A n \in S : Max(S) >= n
  BY <1>1 DEF Max
<1>. QED  BY <1>2 DEF ListenerAtStart

LEMMA InitListenerInv == ListenerInit => ListenerInv
<1>. SUFFICES ASSUME ListenerInit PROVE ListenerInv
  OBVIOUS
<1>0. PICK s \in Scenarios :
         logs = s.logs /\ clients = s.clients /\ ProgramInit(s.installed, s.uploads)
  BY DEF ListenerInit
<1>1. NodeInv  BY InitNodeInv DEF ListenerInit
<1>2. writerRx = <<>>  BY DEF ListenerInit, NodeInit
<1>3. ProgramInv
  <2>1. /\ s.installed \in [Program -> Elf \cup {NoRow}]
        /\ \A p \in Program : s.installed[p] # NoRow => IdOf[s.installed[p]] = p
    BY ListenerAssumption
  <2>2. elfTable = s.installed /\ programTable = s.installed /\ accepted = {}
    BY <1>0 DEF ProgramInit
  <2>3. upload \in [Upload -> UploadPhase] /\ \A c \in Upload : upload[c] \in {"idle", "absent"}
    BY <1>0 DEF ProgramInit, UploadPhase
  <2>4. ProgramTypes
    BY <2>1, <2>2, <2>3 DEF ProgramTypes
  <2>. QED  BY <1>2, <2>1, <2>2, <2>3, <2>4 DEF ProgramInv
<1>4. BlockInv
  <2>1. /\ DOMAIN logs \subseteq Nat /\ FromBlock \in Nat /\ clients \subseteq Job
        /\ \A b \in DOMAIN logs : logs[b] \in Seq(Job \ Ordered)
    BY <1>0, ListenerAssumption
  <2>2. lastSeenBlock = FromBlock
    BY AtStart, <2>1 DEF ListenerInit
  <2>. QED  BY <2>1, <2>2 DEF ListenerInit, BlockInv, BlockTypes
<1>5. AllQueueInv  BY <1>2 DEF AllQueueInv
<1>. QED  BY <1>1, <1>3, <1>4, <1>5 DEF ListenerInv

-----------------------------------------------------------------------------
(* The writer's queue. *)

LEMMA AllWritesGrow ==
  ASSUME NodeWrites \subseteq NodeWrites', lastSeenBlock \in Nat, lastSeenBlock' \in Nat,
         lastSeenBlock <= lastSeenBlock'
  PROVE  AllWrites \subseteq AllWrites'
<1>1. HeightWrites \subseteq HeightWrites'  BY DEF HeightWrites
<1>. QED  BY <1>1 DEF AllWrites, ElfWrites, ProgramWrites

\* The writes of each kind.
LEMMA KindFacts ==
  ASSUME NEW w \in AllWrites
  PROVE  /\ w.kind = "elf" => w \in ElfWrites /\ w.row \in ProgramRow
         /\ w.kind = "program" => w \in ProgramWrites /\ w.row \in ProgramRow /\ w.ack \in Upload
         /\ w.kind = "height" => w.height \in Nat /\ w.height <= lastSeenBlock
         /\ w.kind \in {"job", "failure", "delete"} => w \in NodeWrites
         /\ w \in NodeWrites => w.kind \in {"job", "failure", "delete"}
BY DEF AllWrites, NodeWrites, JobWrites, FailureWrites, DeleteWrites, ElfWrites, ProgramWrites,
       HeightWrites

\* A write joins the queue: one of a program must come after an ELF's.
LEMMA QueueGrows ==
  ASSUME ProgramInv, NEW S, writerRx \in Seq(S), NEW w \in S, ToWriter(w), UNCHANGED elfTable,
         w.kind = "program" => ElfComes(w.row.id, Len(writerRx))
  PROVE  /\ Len(writerRx') = Len(writerRx) + 1 /\ Len(writerRx) \in Nat
         /\ writerRx'[Len(writerRx')] = w
         /\ \A id : ElfComes(id, Len(writerRx)) => ElfComes(id, Len(writerRx))'
         /\ \A i \in 1..Len(writerRx') :
               writerRx'[i].kind = "program" => ElfComes(writerRx[i].row.id, i)'
<1>1. /\ Len(writerRx') = Len(writerRx) + 1 /\ Len(writerRx) \in Nat
      /\ \A i \in 1..Len(writerRx) : writerRx'[i] = writerRx[i]
      /\ writerRx'[Len(writerRx) + 1] = w
  BY AppendFacts DEF ToWriter
<1>2. ASSUME NEW id, NEW n \in 0..Len(writerRx), NEW m \in n..Len(writerRx'), ElfComes(id, n)
      PROVE  \/ elfTable'[id] # NoRow
             \/ \E i \in 1..m : writerRx'[i].kind = "elf" /\ writerRx'[i].row.id = id
  BY <1>1, <1>2 DEF ElfComes
<1>3. ASSUME NEW i \in 1..Len(writerRx'), writerRx'[i].kind = "program"
      PROVE  \/ elfTable'[writerRx'[i].row.id] # NoRow
             \/ \E k \in 1..i :
                   writerRx'[k].kind = "elf" /\ writerRx'[k].row.id = writerRx'[i].row.id
  <2>1. CASE i \in 1..Len(writerRx)
    <3>1. writerRx'[i] = writerRx[i] /\ ElfComes(writerRx[i].row.id, i)
      BY <1>1, <1>3, <2>1 DEF ProgramInv
    <3>2. i \in 0..Len(writerRx) /\ i \in i..Len(writerRx')  BY <1>1, <2>1
    <3>. QED  BY <1>2, <3>1, <3>2
  <2>2. CASE i = Len(writerRx) + 1
    <3>1. writerRx'[i] = w /\ ElfComes(w.row.id, Len(writerRx))
      BY <1>1, <1>3, <2>2
    <3>2. Len(writerRx) \in 0..Len(writerRx) /\ i \in Len(writerRx)..Len(writerRx')
      BY <1>1, <2>2
    <3>. QED  BY <1>2, <3>1, <3>2
  <2>. QED  BY <1>1, <2>1, <2>2
<1>4. \A id : ElfComes(id, Len(writerRx)) => ElfComes(id, Len(writerRx))'
  <2>1. /\ Len(writerRx) \in 0..Len(writerRx)
        /\ Len(writerRx') \in Len(writerRx)..Len(writerRx')
    BY <1>1
  <2>. QED  BY <1>2, <2>1 DEF ElfComes
<1>. QED  BY <1>1, <1>3, <1>4 DEF ElfComes

\* The writer takes the write at the head; an ELF is stored then.
LEMMA QueueShrinks ==
  ASSUME ProgramInv, AllQueueInv, writerRx # <<>>, writerRx' = Tail(writerRx),
         \A p \in Program : elfTable[p] # NoRow => elfTable'[p] # NoRow,
         Head(writerRx).kind = "elf" => elfTable'[Head(writerRx).row.id] # NoRow
  PROVE  /\ Head(writerRx) \in AllWrites /\ writerRx' \in Seq(AllWrites)
         /\ \A p \in Program : ElfComes(p, Len(writerRx)) => ElfComes(p, Len(writerRx))'
         /\ \A i \in 1..Len(writerRx') :
               writerRx'[i].kind = "program" => ElfComes(writerRx[i].row.id, i)'
         /\ Head(writerRx).kind = "program" => elfTable[Head(writerRx).row.id] # NoRow
<1>1. /\ Head(writerRx) \in AllWrites /\ writerRx' \in Seq(AllWrites)
      /\ Head(writerRx) = writerRx[1] /\ Len(writerRx) \in Nat \ {0}
      /\ Len(writerRx') = Len(writerRx) - 1
      /\ \A i \in 1..(Len(writerRx) - 1) : writerRx'[i] = writerRx[i + 1]
  BY TailFacts DEF AllQueueInv
<1>2. ASSUME NEW p \in Program, NEW n \in 1..Len(writerRx), ElfComes(p, n)
      PROVE  \/ elfTable'[p] # NoRow
             \/ \E i \in 1..(n - 1) : writerRx'[i].kind = "elf" /\ writerRx'[i].row.id = p
  <2>1. CASE elfTable[p] # NoRow  BY <2>1
  <2>2. CASE \E i \in 1..n : writerRx[i].kind = "elf" /\ writerRx[i].row.id = p
    <3>1. PICK i \in 1..n : writerRx[i].kind = "elf" /\ writerRx[i].row.id = p  BY <2>2
    <3>2. CASE i = 1  BY <1>1, <3>1, <3>2
    <3>3. CASE i # 1
      <4>1. i - 1 \in 1..(n - 1) /\ writerRx'[i - 1] = writerRx[i]  BY <1>1, <3>3
      <4>. QED  BY <3>1, <4>1
    <3>. QED  BY <3>2, <3>3
  <2>. QED  BY <1>2, <2>1, <2>2 DEF ElfComes
<1>3. \A p \in Program : ElfComes(p, Len(writerRx)) => ElfComes(p, Len(writerRx))'
  BY <1>1, <1>2 DEF ElfComes
<1>4. ASSUME NEW i \in 1..Len(writerRx'), writerRx'[i].kind = "program"
      PROVE  \/ elfTable'[writerRx'[i].row.id] # NoRow
             \/ \E k \in 1..i :
                   writerRx'[k].kind = "elf" /\ writerRx'[k].row.id = writerRx'[i].row.id
  <2>1. i + 1 \in 1..Len(writerRx) /\ writerRx'[i] = writerRx[i + 1]  BY <1>1
  <2>2. ElfComes(writerRx[i + 1].row.id, i + 1)  BY <1>4, <2>1 DEF ProgramInv
  <2>3. writerRx[i + 1] \in AllWrites  BY <2>1 DEF AllQueueInv
  <2>4. writerRx[i + 1].row.id \in Program
    BY <1>4, <2>1, <2>3, KindFacts DEF ProgramRow
  <2>5. (i + 1) - 1 = i  BY <1>1
  <2>. QED  BY <1>2, <2>1, <2>2, <2>4, <2>5
<1>5. ASSUME Head(writerRx).kind = "program"
      PROVE  elfTable[Head(writerRx).row.id] # NoRow
  <2>1. ElfComes(writerRx[1].row.id, 1)  BY <1>1, <1>5 DEF ProgramInv
  <2>2. writerRx[1].kind # "elf"  BY <1>1, <1>5
  <2>. QED  BY <1>1, <2>1, <2>2 DEF ElfComes
<1>. QED  BY <1>1, <1>3, <1>4, <1>5 DEF ElfComes

-----------------------------------------------------------------------------
(* The programs. *)

\* The program side when another write, or none, is sent.
LEMMA OtherSendPrograms ==
  ASSUME ProgramInv, AllQueueInv, UNCHANGED programVars,
         UNCHANGED writerRx \/ \E w \in AllWrites : ToWriter(w) /\ w.kind # "program"
  PROVE  ProgramInv'
<1>1. CASE UNCHANGED writerRx
  BY <1>1 DEF ProgramInv, ProgramTypes, ElfComes, programVars
<1>2. ASSUME NEW w \in AllWrites, ToWriter(w), w.kind # "program"
      PROVE  ProgramInv'
  <2>1. UNCHANGED <<elfTable, programTable, upload, accepted>>  BY DEF programVars
  <2>2. /\ \A id : ElfComes(id, Len(writerRx)) => ElfComes(id, Len(writerRx))'
        /\ \A i \in 1..Len(writerRx') :
               writerRx'[i].kind = "program" => ElfComes(writerRx[i].row.id, i)'
    BY <1>2, <2>1, QueueGrows DEF AllQueueInv
  <2>. QED  BY <2>1, <2>2 DEF ProgramInv, ProgramTypes
<1>. QED  BY <1>1, <1>2

\* ... and when the writer takes a write that is not of a program or an ELF.
LEMMA OtherWrittenPrograms ==
  ASSUME ProgramInv, AllQueueInv, UNCHANGED programVars, writerRx # <<>>,
         writerRx' = Tail(writerRx), Head(writerRx).kind \notin {"elf", "program"}
  PROVE  ProgramInv'
<1>1. UNCHANGED <<elfTable, programTable, upload, accepted>>  BY DEF programVars
<1>2. /\ \A p \in Program : ElfComes(p, Len(writerRx)) => ElfComes(p, Len(writerRx))'
      /\ \A i \in 1..Len(writerRx') :
             writerRx'[i].kind = "program" => ElfComes(writerRx[i].row.id, i)'
  BY <1>1, QueueShrinks
<1>3. \A c \in Upload : Uploaded[c].id \in Program  BY ProgramAssumption
<1>. QED  BY <1>1, <1>2, <1>3 DEF ProgramInv, ProgramTypes

LEMMA SubmitElfPrograms ==
  ASSUME ProgramInv, AllQueueInv, NEW c \in Upload, SubmitElf(c)
  PROVE  ProgramInv' /\ (UNCHANGED writerRx \/ \E w \in AllWrites : ToWriter(w))
<1>1. /\ ProgramTypes /\ Uploaded[c] \in [id : Program, elf : Elf]
      /\ upload \in [Upload -> UploadPhase]
  BY ProgramAssumption DEF ProgramInv, ProgramTypes
<1>2. UNCHANGED <<elfTable, programTable, accepted>>
  BY DEF SubmitElf, LookUpElf, SendElf, SendProgram, CreateProgramFails
<1>3. CASE LookUpElf(c)
  <2>1. UNCHANGED writerRx  BY <1>3 DEF LookUpElf, nodeVars
  <2>2. \/ upload' = [upload EXCEPT ![c] = "refused"]
        \/ upload' = [upload EXCEPT ![c] = "checked"] /\ Honest(Uploaded[c])
    BY <1>3 DEF LookUpElf, GotoUpload, MismatchProgramId, DerivedId, Honest
  <2>3. ProgramTypes'  BY <1>1, <1>2, <2>2 DEF ProgramTypes, UploadPhase
  <2>. QED  BY <1>1, <1>2, <2>1, <2>2, <2>3 DEF ProgramInv, ElfComes
<1>4. CASE CreateProgramFails(c)
  <2>1. UNCHANGED writerRx /\ upload' = [upload EXCEPT ![c] = "refused"]
    BY <1>4 DEF CreateProgramFails, GotoUpload, nodeVars
  <2>2. ProgramTypes'  BY <1>1, <1>2, <2>1 DEF ProgramTypes, UploadPhase
  <2>. QED  BY <1>1, <1>2, <2>1, <2>2 DEF ProgramInv, ElfComes
<1>5. CASE SendElf(c)
  <2>1. /\ Honest(Uploaded[c]) /\ ToWriter(ElfWrite(c))
        /\ upload' = [upload EXCEPT ![c] = "creating"]
    BY <1>5 DEF SendElf, GotoUpload, ProgramInv
  <2>2. ElfWrite(c) \in AllWrites /\ ElfWrite(c).kind = "elf" /\ ElfWrite(c).row = Uploaded[c]
    BY <1>1, <2>1 DEF ElfWrite, AllWrites, ElfWrites, ProgramRow
  <2>3. /\ Len(writerRx') = Len(writerRx) + 1 /\ Len(writerRx) \in Nat
        /\ writerRx'[Len(writerRx')] = ElfWrite(c)
        /\ \A id : ElfComes(id, Len(writerRx)) => ElfComes(id, Len(writerRx))'
        /\ \A i \in 1..Len(writerRx') :
               writerRx'[i].kind = "program" => ElfComes(writerRx[i].row.id, i)'
    BY <1>2, <2>1, <2>2, QueueGrows DEF AllQueueInv
  <2>4. ElfComes(Uploaded[c].id, Len(writerRx))'
    <3>1. Len(writerRx') \in 1..Len(writerRx')  BY <2>3
    <3>. QED  BY <2>2, <2>3, <3>1 DEF ElfComes
  <2>5. ProgramTypes'  BY <1>1, <1>2, <2>1 DEF ProgramTypes, UploadPhase
  <2>6. \A d \in Upload : upload'[d] = "creating" => ElfComes(Uploaded[d].id, Len(writerRx))'
    BY <1>1, <2>1, <2>3, <2>4 DEF ProgramInv
  <2>7. \A d \in Upload : upload'[d] \in {"checked", "creating"} => Honest(Uploaded[d])
    BY <1>1, <2>1 DEF ProgramInv
  <2>. QED  BY <1>2, <2>1, <2>2, <2>3, <2>5, <2>6, <2>7 DEF ProgramInv, Honest
<1>6. CASE SendProgram(c)
  <2>1. /\ Honest(Uploaded[c]) /\ ToWriter(ProgramWrite(c))
        /\ ElfComes(Uploaded[c].id, Len(writerRx))
        /\ upload' = [upload EXCEPT ![c] = "writing"]
    BY <1>6 DEF SendProgram, GotoUpload, ProgramInv
  <2>2. ProgramWrite(c) \in AllWrites /\ ProgramWrite(c).row = Uploaded[c]
    BY <1>1, <2>1 DEF ProgramWrite, AllWrites, ProgramWrites, ProgramRow
  <2>3. /\ \A id : ElfComes(id, Len(writerRx)) => ElfComes(id, Len(writerRx))'
        /\ \A i \in 1..Len(writerRx') :
               writerRx'[i].kind = "program" => ElfComes(writerRx[i].row.id, i)'
    BY <1>2, <2>1, <2>2, QueueGrows DEF AllQueueInv
  <2>4. ProgramTypes'  BY <1>1, <1>2, <2>1 DEF ProgramTypes, UploadPhase
  <2>5. \A d \in Upload : upload'[d] \in {"checked", "creating"} => upload'[d] = upload[d]
    BY <1>1, <2>1
  <2>. QED  BY <1>2, <2>1, <2>2, <2>3, <2>4, <2>5 DEF ProgramInv, Honest
<1>. QED  BY <1>3, <1>4, <1>5, <1>6 DEF SubmitElf

LEMMA ElfWrittenPrograms ==
  ASSUME ProgramInv, AllQueueInv, ElfWritten
  PROVE  ProgramInv'
<1>. DEFINE row == Head(writerRx).row
<1>1. /\ writerRx # <<>> /\ Head(writerRx).kind = "elf" /\ writerRx' = Tail(writerRx)
      /\ elfTable' = [elfTable EXCEPT ![row.id] = row.elf]
      /\ UNCHANGED <<programTable, upload, accepted>>
      /\ ProgramTypes
  BY DEF ElfWritten, ProgramInv
<1>2. row \in ProgramRow
  <2>1. Head(writerRx) \in AllWrites  BY <1>1, TailFacts DEF AllQueueInv
  <2>. QED  BY <1>1, <2>1, KindFacts
<1>3. row.id \in Program /\ row.elf \in Elf /\ IdOf[row.elf] = row.id /\ row.elf # NoRow
  BY <1>2, ProgramAssumption DEF ProgramRow, Honest
<1>4. /\ \A p \in Program : elfTable[p] # NoRow => elfTable'[p] # NoRow
      /\ elfTable'[row.id] # NoRow
      /\ \A p \in Program : elfTable'[p] # NoRow => IdOf[elfTable'[p]] = p
      /\ ProgramTypes'
  <2>. HIDE DEF row
  <2>. QED  BY <1>1, <1>3 DEF ProgramTypes, ProgramInv
<1>5. /\ \A p \in Program : ElfComes(p, Len(writerRx)) => ElfComes(p, Len(writerRx))'
      /\ \A i \in 1..Len(writerRx') :
             writerRx'[i].kind = "program" => ElfComes(writerRx[i].row.id, i)'
  BY <1>1, <1>4, QueueShrinks
<1>6. \A c \in Upload : Uploaded[c].id \in Program  BY ProgramAssumption
<1>7. \A c \in Upload : upload'[c] = "creating" => ElfComes(Uploaded[c].id, Len(writerRx))'
  BY <1>1, <1>5, <1>6 DEF ProgramInv
<1>8. \A p \in accepted' : elfTable'[p] # NoRow /\ programTable'[p] # NoRow
  BY <1>1, <1>4 DEF ProgramInv, ProgramTypes
<1>9. \A c \in Upload : upload'[c] \in {"checked", "creating"} => Honest(Uploaded[c])
  BY <1>1 DEF ProgramInv
<1>10. \A p \in Program : programTable'[p] # NoRow => IdOf[programTable'[p]] = p
  BY <1>1 DEF ProgramInv
<1>. QED
  <2>. HIDE DEF row
  <2>. QED  BY <1>4, <1>5, <1>7, <1>8, <1>9, <1>10 DEF ProgramInv, Honest

LEMMA ProgramWrittenPrograms ==
  ASSUME ProgramInv, AllQueueInv, ProgramWritten
  PROVE  ProgramInv'
<1>. DEFINE row == Head(writerRx).row
            c == Head(writerRx).ack
<1>1. /\ writerRx # <<>> /\ Head(writerRx).kind = "program" /\ writerRx' = Tail(writerRx)
      /\ programTable' = [programTable EXCEPT ![row.id] = row.elf]
      /\ upload' = [upload EXCEPT ![c] = "ok"]
      /\ accepted' = accepted \cup {row.id}
      /\ UNCHANGED elfTable
      /\ ProgramTypes
  BY DEF ProgramWritten, GotoUpload, ProgramInv
<1>2. row \in ProgramRow /\ c \in Upload
  <2>1. Head(writerRx) \in AllWrites  BY <1>1, TailFacts DEF AllQueueInv
  <2>. QED  BY <1>1, <2>1, KindFacts
<1>3. row.id \in Program /\ row.elf \in Elf /\ IdOf[row.elf] = row.id /\ row.elf # NoRow
  BY <1>2, ProgramAssumption DEF ProgramRow, Honest
<1>4. /\ elfTable[row.id] # NoRow
      /\ \A p \in Program : ElfComes(p, Len(writerRx)) => ElfComes(p, Len(writerRx))'
      /\ \A i \in 1..Len(writerRx') :
             writerRx'[i].kind = "program" => ElfComes(writerRx[i].row.id, i)'
  BY <1>1, QueueShrinks
<1>5. \A d \in Upload : Uploaded[d].id \in Program  BY ProgramAssumption
<1>6. /\ \A p \in Program : programTable'[p] # NoRow => IdOf[programTable'[p]] = p
      /\ \A p \in accepted' : elfTable'[p] # NoRow /\ programTable'[p] # NoRow
      /\ \A d \in Upload : upload'[d] \in {"checked", "creating"} => upload'[d] = upload[d]
      /\ ProgramTypes'
  <2>1. elfTable[row.id] # NoRow  BY <1>4
  <2>. HIDE DEF row, c
  <2>. QED  BY <1>1, <1>2, <1>3, <2>1 DEF ProgramTypes, ProgramInv, UploadPhase
<1>7. \A d \in Upload : upload'[d] = "creating" => ElfComes(Uploaded[d].id, Len(writerRx))'
  BY <1>4, <1>5, <1>6 DEF ProgramInv
<1>8. \A d \in Upload : upload'[d] \in {"checked", "creating"} => Honest(Uploaded[d])
  BY <1>6 DEF ProgramInv
<1>9. \A p \in Program : elfTable'[p] # NoRow => IdOf[elfTable'[p]] = p
  BY <1>1 DEF ProgramInv
<1>. QED
  <2>. HIDE DEF row, c
  <2>. QED  BY <1>4, <1>6, <1>7, <1>8, <1>9 DEF ProgramInv, Honest

LEMMA CrashPrograms ==
  ASSUME ProgramInv, CrashInStore
  PROVE  ProgramInv'
<1>1. writerRx' = <<>> /\ UNCHANGED <<elfTable, programTable, accepted>>
  BY DEF CrashInStore, Crash
<1>2. upload' \in [Upload -> UploadPhase] /\ \A c \in Upload : upload'[c] \in {"absent", "idle"}
  BY DEF CrashInStore, UploadPhase
<1>. QED  BY <1>1, <1>2 DEF ProgramInv, ProgramTypes

-----------------------------------------------------------------------------
(* The blocks. *)

Keeps == /\ \A j \in Job : Found(j) => Found(j)'
         /\ acked \subseteq acked' /\ dropped \subseteq dropped'

LEMMA SubmittedPersists ==
  ASSUME Keeps
  PROVE  \A j \in Job : Submitted(j) => Submitted(j)'
BY DEF Keeps, Submitted, Answered

LEMMA LogFacts ==
  ASSUME BlockInv
  PROVE  /\ \A b \in DOMAIN logs : \A i \in 1..Len(logs[b]) : logs[b][i] \in Job \ Ordered
         /\ \A k \in 1..Len(events) : events[k] \in Job \ Ordered
         /\ events # <<>> => Head(events) \in Job \ Ordered
<1>1. \A b \in DOMAIN logs : logs[b] \in Seq(Job \ Ordered)  BY DEF BlockInv, BlockTypes
<1>2. events \in Seq(Job \ Ordered)  BY DEF BlockInv, BlockTypes
<1>3. events # <<>> => Head(events) \in Job \ Ordered  BY <1>2, TailFacts
<1>. QED  BY <1>1, <1>2, <1>3

\* A step that leaves the listener alone and forgets no job.
LEMMA OtherBlocks ==
  ASSUME BlockInv, Keeps, UNCHANGED listenerVars
  PROVE  BlockInv'
<1>1. UNCHANGED <<logs, clients, lastBlockHeight, lastSeenBlock, events, try, dropped>>
  BY DEF listenerVars, scenarioVars
<1>2. BlockTypes'  BY <1>1 DEF BlockInv, BlockTypes
<1>. QED  BY <1>1, <1>2, SubmittedPersists, LogFacts DEF BlockInv

LEMMA ReadBlockBlocks ==
  ASSUME BlockInv, ReadBlock
  PROVE  BlockInv'
<1>1. /\ try = 0 /\ lastSeenBlock \in DOMAIN logs /\ events' = logs[lastSeenBlock] /\ try' = 1
      /\ UNCHANGED <<jobTable, acked, logs, clients, lastBlockHeight, lastSeenBlock, dropped>>
  BY DEF ReadBlock, nodeVars, dbVars, histVars, scenarioVars
<1>2. BlockTypes'  BY <1>1 DEF BlockInv, BlockTypes
<1>. QED  BY <1>1, <1>2 DEF BlockInv, Submitted, Found, Answered

\* The job at hand is submitted, or left behind, and the listener goes on.
LEMMA NextEventBlocks ==
  ASSUME BlockInv, events # <<>>, events' = Tail(events), try' = 1, Keeps,
         UNCHANGED <<logs, clients, lastBlockHeight, lastSeenBlock>>, dropped' \subseteq Job,
         Found(Head(events)), Head(events) \in dropped' \/ Nonce[Head(events)] \in Answered
  PROVE  BlockInv'
<1>1. /\ events \in Seq(Job \ Ordered) /\ events' \in Seq(Job \ Ordered)
      /\ Head(events) = events[1] /\ Len(events) \in Nat \ {0}
      /\ Len(events') = Len(events) - 1
      /\ \A i \in 1..(Len(events) - 1) : events'[i] = events[i + 1]
  BY TailFacts DEF BlockInv, BlockTypes
<1>2. BlockTypes'  BY <1>1 DEF BlockInv, BlockTypes
<1>3. try # 0  BY DEF BlockInv
<1>4. jobTable'[Nonce[events[1]]] # NoRow
      /\ (events[1] \in dropped' \/ Nonce[events[1]] \in Answered')
  <2>1. events[1] \in Job  BY <1>1, LogFacts
  <2>. QED  BY <1>1, <2>1 DEF Keeps, Found, Answered
<1>5. ASSUME NEW i \in 1..Len(logs[lastSeenBlock]), lastSeenBlock \in DOMAIN logs
      PROVE  \/ Submitted(logs[lastSeenBlock][i])'
             \/ \E k \in 1..Len(events') : events'[k] = logs[lastSeenBlock][i]
  <2>1. CASE Submitted(logs[lastSeenBlock][i])
    BY <1>5, <2>1, SubmittedPersists, LogFacts DEF Submitted, Found
  <2>2. CASE \E k \in 1..Len(events) : events[k] = logs[lastSeenBlock][i]
    <3>1. PICK k \in 1..Len(events) : events[k] = logs[lastSeenBlock][i]  BY <2>2
    <3>2. CASE k = 1
      BY <1>4, <3>1, <3>2 DEF Submitted, Found
    <3>3. CASE k # 1
      <4>1. k - 1 \in 1..Len(events') /\ events'[k - 1] = events[k]  BY <1>1, <3>3
      <4>. QED  BY <3>1, <4>1
    <3>. QED  BY <3>2, <3>3
  <2>. QED  BY <1>3, <1>5, <2>1, <2>2 DEF BlockInv
<1>6. ASSUME NEW b \in DOMAIN logs, FromBlock <= b, b < lastSeenBlock,
             NEW i \in 1..Len(logs[b])
      PROVE  Submitted(logs[b][i])'
  BY <1>6, SubmittedPersists, LogFacts DEF BlockInv
<1>. QED  BY <1>2, <1>3, <1>5, <1>6 DEF BlockInv

LEMMA BlockDoneBlocks ==
  ASSUME BlockInv, BlockDone
  PROVE  BlockInv' /\ lastSeenBlock <= lastSeenBlock'
<1>1. /\ try # 0 /\ events = <<>> /\ lastSeenBlock' = lastSeenBlock + 1 /\ try' = 0
      /\ UNCHANGED <<jobTable, acked, logs, clients, lastBlockHeight, events, dropped>>
  BY DEF BlockDone, dbVars, histVars, scenarioVars
<1>2. BlockTypes /\ FromBlock \in Nat  BY ListenerAssumption DEF BlockInv
<1>3. BlockTypes'  BY <1>1, <1>2 DEF BlockTypes
<1>4. \A j : Submitted(j) <=> Submitted(j)'  BY <1>1 DEF Submitted, Found, Answered
<1>5. ASSUME NEW b \in DOMAIN logs, FromBlock <= b, b < lastSeenBlock',
             NEW i \in 1..Len(logs[b])
      PROVE  Submitted(logs[b][i])
  <2>1. CASE b = lastSeenBlock  BY <1>1, <1>5, <2>1 DEF BlockInv
  <2>2. CASE b < lastSeenBlock  BY <1>5, <2>2 DEF BlockInv
  <2>3. b \in Nat /\ lastSeenBlock \in Nat  BY <1>2 DEF BlockTypes
  <2>. QED  BY <1>1, <1>5, <2>1, <2>2, <2>3
<1>6. FromBlock <= lastSeenBlock' /\ lastBlockHeight' <= lastSeenBlock'
  BY <1>1, <1>2 DEF BlockInv, BlockTypes
<1>7. lastSeenBlock <= lastSeenBlock'  BY <1>1, <1>2 DEF BlockTypes
<1>. QED  BY <1>1, <1>3, <1>4, <1>5, <1>6, <1>7 DEF BlockInv

LEMMA HeightWrittenBlocks ==
  ASSUME BlockInv, AllQueueInv, HeightWritten
  PROVE  BlockInv'
<1>1. /\ writerRx # <<>> /\ Head(writerRx).kind = "height"
      /\ lastBlockHeight' = Head(writerRx).height
      /\ UNCHANGED <<jobTable, acked, logs, clients, lastSeenBlock, events, try, dropped>>
  BY DEF HeightWritten, dbVars, histVars, scenarioVars
<1>2. Head(writerRx) \in AllWrites  BY <1>1, TailFacts DEF AllQueueInv
<1>3. lastBlockHeight' \in Nat /\ lastBlockHeight' <= lastSeenBlock  BY <1>1, <1>2, KindFacts
<1>4. BlockTypes'  BY <1>1, <1>3 DEF BlockInv, BlockTypes
<1>. QED  BY <1>1, <1>3, <1>4 DEF BlockInv, Submitted, Found, Answered

LEMMA RestartBlocks ==
  ASSUME BlockInv, Restart
  PROVE  BlockInv'
<1>1. /\ lastSeenBlock' = ListenerAtStart(lastBlockHeight) /\ events' = <<>> /\ try' = 0
      /\ UNCHANGED <<jobTable, acked, logs, clients, lastBlockHeight, dropped>>
  BY DEF Restart, CrashInStore, Crash, dbVars, scenarioVars
<1>2. BlockTypes /\ FromBlock \in Nat  BY ListenerAssumption DEF BlockInv
<1>3. /\ lastSeenBlock' \in {FromBlock, lastBlockHeight}
      /\ lastSeenBlock' >= FromBlock /\ lastSeenBlock' >= lastBlockHeight
  BY <1>1, <1>2, AtStart DEF BlockTypes
<1>4. lastSeenBlock' \in Nat /\ lastSeenBlock' <= lastSeenBlock
  BY <1>2, <1>3 DEF BlockInv, BlockTypes
<1>5. BlockTypes'  BY <1>1, <1>2, <1>4 DEF BlockTypes
<1>6. ASSUME NEW b \in DOMAIN logs, FromBlock <= b, b < lastSeenBlock'
      PROVE  b < lastSeenBlock
  <2>1. b \in Nat /\ lastSeenBlock \in Nat  BY <1>2 DEF BlockTypes
  <2>. QED  BY <1>4, <1>6, <2>1
<1>7. \A j : Submitted(j) <=> Submitted(j)'  BY <1>1 DEF Submitted, Found, Answered
<1>8. FromBlock <= lastSeenBlock' /\ lastBlockHeight' <= lastSeenBlock'
  BY <1>1, <1>2, <1>3, <1>4 DEF BlockTypes
<1>9. \A b \in DOMAIN logs' : FromBlock <= b /\ b < lastSeenBlock' =>
         \A i \in 1..Len(logs'[b]) : Submitted(logs[b][i])'
  BY <1>1, <1>6, <1>7 DEF BlockInv
<1>. QED  BY <1>1, <1>5, <1>8, <1>9 DEF BlockInv

-----------------------------------------------------------------------------
(* The invariant of the whole, and the theorems. *)

\* No step of the node takes a row out of the job table.
LEMMA NotWriterKeeps ==
  ASSUME NotWriterStep, UNCHANGED listenerVars
  PROVE  Keeps
<1>1. UNCHANGED jobTable /\ acked \subseteq acked'
  <2>1. ASSUME NEW j \in Job, Submit(j)
        PROVE  UNCHANGED jobTable /\ acked \subseteq acked'
    BY <2>1 DEF Submit, SubmitMissing, SubmitNew, SubmitRefused, SubmitKnown, AskPending, AlreadyPending,
         NotPending, FindActor, ReadNextNonce, NextNonceUnavailable, SpawnActor, AskActor,
         RefuseLow, HandToActor, dbVars, histVars
  <2>2. PipelineStep \/ DlqWakes \/ DlqStep => UNCHANGED jobTable /\ acked \subseteq acked'
    BY PipelineFrame, DlqFrame DEF dbVars, histVars
  <2>3. Mine => UNCHANGED jobTable /\ acked \subseteq acked'  BY DEF Mine, dbVars, histVars
  <2>. QED  BY <2>1, <2>2, <2>3 DEF NotWriterStep
<1>2. UNCHANGED dropped  BY DEF listenerVars
<1>. QED  BY <1>1, <1>2 DEF Keeps, Found

LEMMA NodeStepInv ==
  ASSUME ListenerInv, NotWriterStep, UNCHANGED programVars, UNCHANGED listenerVars
  PROVE  ListenerInv'
<1>1. NodeInv' /\ Sends /\ NodeWrites \subseteq NodeWrites'
  BY StepKeepsNodeInv, WritesGrow DEF ListenerInv
<1>2. BlockInv'  BY NotWriterKeeps, OtherBlocks DEF ListenerInv
<1>3. UNCHANGED writerRx \/ \E w \in AllWrites : ToWriter(w) /\ w.kind # "program"
  <2>1. ASSUME NEW w \in NodeWrites
        PROVE  w \in AllWrites /\ w.kind # "program"
    <3>1. w \in AllWrites  BY DEF AllWrites
    <3>. QED  BY <3>1, KindFacts
  <2>. QED  BY <1>1, <2>1 DEF Sends
<1>4. ProgramInv'  BY <1>3, OtherSendPrograms DEF ListenerInv
<1>5. AllQueueInv'
  <2>1. writerRx' \in Seq(AllWrites)
    BY <1>3, AppendFacts DEF ListenerInv, AllQueueInv, ToWriter
  <2>2. lastSeenBlock \in Nat /\ lastSeenBlock' = lastSeenBlock
    BY DEF ListenerInv, BlockInv, BlockTypes, listenerVars
  <2>3. AllWrites \subseteq AllWrites'  BY <1>1, <2>2, AllWritesGrow
  <2>. QED  BY <2>1, <2>3, SeqMonotonic DEF AllQueueInv
<1>. QED  BY <1>1, <1>2, <1>4, <1>5 DEF ListenerInv

LEMMA RowStepInv ==
  ASSUME ListenerInv, RowWritten, UNCHANGED programVars, UNCHANGED listenerVars
  PROVE  ListenerInv'
<1>1. /\ writerRx \in Seq(AllWrites) /\ writerRx # <<>> /\ writerRx' = Tail(writerRx)
      /\ Head(writerRx).kind \in {"job", "failure", "delete"}
  BY DEF ListenerInv, AllQueueInv, RowWritten
<1>2. Head(writerRx) \in AllWrites /\ writerRx' \in Seq(AllWrites)  BY <1>1, TailFacts
<1>3. Head(writerRx) \in NodeWrites  BY <1>1, <1>2, KindFacts
<1>4. NodeInv' /\ NodeWrites \subseteq NodeWrites'
  BY <1>3, RowKeepsNodeInv, WritesGrow DEF ListenerInv
<1>5. ProgramInv'  BY <1>1, OtherWrittenPrograms DEF ListenerInv
<1>6. BlockInv'
  <2>1. \A j \in Job : Found(j) => Found(j)'  BY <1>3, RowStored DEF ListenerInv, NodeInv
  <2>2. UNCHANGED <<acked, dropped>>  BY DEF RowWritten, histVars, listenerVars
  <2>. QED  BY <2>1, <2>2, OtherBlocks DEF Keeps, ListenerInv
<1>7. AllQueueInv'
  <2>1. lastSeenBlock \in Nat /\ lastSeenBlock' = lastSeenBlock
    BY DEF ListenerInv, BlockInv, BlockTypes, listenerVars
  <2>2. AllWrites \subseteq AllWrites'  BY <1>4, <2>1, AllWritesGrow
  <2>. QED  BY <1>2, <2>2, SeqMonotonic DEF AllQueueInv
<1>. QED  BY <1>4, <1>5, <1>6, <1>7 DEF ListenerInv

\* A step that leaves everything of the node alone but the writer's queue.
LEMMA QueueStep ==
  ASSUME ListenerInv, UNCHANGED nodeCoreVars, ProgramInv', BlockInv',
         writerRx' \in Seq(AllWrites')
  PROVE  ListenerInv'
<1>1. NodeInv'  BY StutterKeepsNodeInv DEF ListenerInv
<1>. QED  BY <1>1 DEF ListenerInv, AllQueueInv

LEMMA CoreWrites ==
  ASSUME UNCHANGED nodeCoreVars, BlockInv, BlockInv', lastSeenBlock <= lastSeenBlock'
  PROVE  AllWrites \subseteq AllWrites'
<1>1. UNCHANGED <<onChain, mined>>  BY DEF nodeCoreVars, chainVars
<1>2. NodeWrites \subseteq NodeWrites'  BY <1>1, WritesGrow
<1>3. lastSeenBlock \in Nat /\ lastSeenBlock' \in Nat  BY DEF BlockInv, BlockTypes
<1>. QED  BY <1>2, <1>3, AllWritesGrow

LEMMA CoreKeeps ==
  ASSUME UNCHANGED nodeCoreVars, dropped \subseteq dropped'
  PROVE  Keeps
BY DEF nodeCoreVars, dbVars, histVars, Keeps, Found

\* submit_elf, and the writes of an ELF and of a program.
LEMMA StoreStepInv ==
  ASSUME ListenerInv, (\E c \in Upload : SubmitElf(c)) \/ ElfWritten \/ ProgramWritten,
         UNCHANGED listenerVars
  PROVE  ListenerInv'
<1>1. UNCHANGED nodeCoreVars
  BY DEF SubmitElf, LookUpElf, SendElf, SendProgram, CreateProgramFails, ElfWritten,
         ProgramWritten, nodeVars, nodeCoreVars
<1>2. UNCHANGED dropped /\ UNCHANGED lastSeenBlock /\ lastSeenBlock \in Nat
  BY DEF listenerVars, ListenerInv, BlockInv, BlockTypes
<1>3. BlockInv'  BY <1>1, <1>2, CoreKeeps, OtherBlocks DEF ListenerInv
<1>4. AllWrites \subseteq AllWrites'  BY <1>1, <1>2, <1>3, CoreWrites DEF ListenerInv
<1>5. ProgramInv'
  BY SubmitElfPrograms, ElfWrittenPrograms, ProgramWrittenPrograms DEF ListenerInv
<1>6. writerRx' \in Seq(AllWrites)
  <2>1. ASSUME NEW c \in Upload, SubmitElf(c)
        PROVE  writerRx' \in Seq(AllWrites)
    BY <2>1, SubmitElfPrograms, AppendFacts DEF ListenerInv, AllQueueInv, ToWriter
  <2>2. ASSUME ElfWritten \/ ProgramWritten
        PROVE  writerRx' \in Seq(AllWrites)
    <3>1. writerRx \in Seq(AllWrites) /\ writerRx # <<>> /\ writerRx' = Tail(writerRx)
      BY <2>2 DEF ListenerInv, AllQueueInv, ElfWritten, ProgramWritten
    <3>. QED  BY <3>1, TailFacts
  <2>. QED  BY <2>1, <2>2
<1>7. writerRx' \in Seq(AllWrites')  BY <1>4, <1>6, SeqMonotonic
<1>. QED  BY <1>1, <1>3, <1>5, <1>7, QueueStep

\* The listener's own steps.
LEMMA TryAgainKeepsNodeInv ==
  ASSUME NodeInv, TryAgain, Head(events) \in Job
  PROVE  NodeInv'
<1>1. /\ intake' = [intake EXCEPT ![Head(events)] = "idle"]
      /\ UNCHANGED <<vars, matched, readNonce, actorUp, dbVars, txVars, dlq, chainVars, histVars>>
  BY DEF TryAgain, Goto
<1>2. TypeOK'  BY <1>1, StutterType DEF NodeInv, NodeTypes
<1>3. IntakeTypes' /\ DatabaseTypes'
  BY <1>1 DEF NodeInv, NodeTypes, IntakeTypes, IntakePhase, DatabaseTypes, dbVars, histVars
<1>4. TransactionTypes'
  BY <1>1 DEF NodeInv, NodeTypes, TransactionTypes, HasLargest, MinedNonces, txVars, chainVars
<1>5. RelayedInv'
  BY <1>1, RelayedFrame DEF NodeInv, relayedVars, vars, relayVars, dbVars, txVars, chainVars
<1>6. \A j \in Job : intake'[j] = intake[j] \/ intake'[j] = "idle"
  BY <1>1 DEF NodeInv, NodeTypes, IntakeTypes
<1>7. UNCHANGED <<call, execRx, pendingJobs, pendingReply, jobTable, acked>>
  BY <1>1 DEF vars, callVars, actorVars, dbVars, histVars
<1>8. StoredInv'  BY <1>6, <1>7 DEF NodeInv, StoredInv, AckedIsStored, Found
<1>9. AnsweredInv'  BY <1>6, <1>7 DEF NodeInv, AnsweredInv, Answered
<1>. QED  BY <1>2, <1>3, <1>4, <1>5, <1>8, <1>9 DEF NodeInv, NodeTypes

LEMMA ListenerStepInv ==
  ASSUME ListenerInv,
         ReadBlock \/ EventSubmitted \/ TryAgain \/ EventDropped \/ BlockDone \/ HeightWritten
  PROVE  ListenerInv'
<1>1. UNCHANGED programVars
  BY DEF ReadBlock, EventSubmitted, TryAgain, EventDropped, BlockDone, HeightWritten
<1>2. NodeInv /\ ProgramInv /\ BlockInv /\ AllQueueInv /\ lastSeenBlock \in Nat
  BY DEF ListenerInv, BlockInv, BlockTypes
<1>3. events # <<>> => Head(events) \in Job /\ Head(events) \notin Ordered
  BY <1>2, LogFacts
<1>4. CASE ReadBlock \/ EventSubmitted \/ EventDropped
  <2>1. UNCHANGED <<nodeCoreVars, writerRx, lastSeenBlock>>
    BY <1>4 DEF ReadBlock, EventSubmitted, EventDropped, nodeVars, nodeCoreVars
  <2>2. ProgramInv'  BY <1>1, <1>2, <2>1, OtherSendPrograms
  <2>3. CASE ReadBlock
    <3>1. BlockInv'  BY <1>2, <2>3, ReadBlockBlocks
    <3>2. AllWrites \subseteq AllWrites'  BY <1>2, <2>1, <3>1, CoreWrites
    <3>3. writerRx' \in Seq(AllWrites')  BY <1>2, <2>1, <3>2, SeqMonotonic DEF AllQueueInv
    <3>. QED  BY <2>1, <2>2, <3>1, <3>3, QueueStep
  <2>4. CASE EventSubmitted \/ EventDropped
    <3>1. /\ events # <<>> /\ events' = Tail(events) /\ try' = 1
          /\ UNCHANGED <<logs, clients, lastBlockHeight>>
          /\ intake[Head(events)] \in {"done", "refused"}
      BY <2>4 DEF EventSubmitted, EventDropped, scenarioVars
    <3>2. dropped \subseteq dropped' /\ dropped' \subseteq Job
      BY <1>2, <1>3, <2>4 DEF EventSubmitted, EventDropped, BlockInv, BlockTypes
    <3>3. Found(Head(events))
      BY <1>2, <1>3, <3>1 DEF NodeInv, StoredInv
    <3>4. Head(events) \in dropped' \/ Nonce[Head(events)] \in Answered
      BY <1>2, <1>3, <2>4 DEF EventSubmitted, EventDropped, NodeInv, AnsweredInv
    <3>5. Keeps  BY <2>1, <3>2, CoreKeeps
    <3>6. BlockInv'
      BY <1>2, <2>1, <3>1, <3>2, <3>3, <3>4, <3>5, NextEventBlocks
    <3>7. AllWrites \subseteq AllWrites'  BY <1>2, <2>1, <3>6, CoreWrites
    <3>8. writerRx' \in Seq(AllWrites')  BY <1>2, <2>1, <3>7, SeqMonotonic DEF AllQueueInv
    <3>. QED  BY <2>1, <2>2, <3>6, <3>8, QueueStep
  <2>. QED  BY <1>4, <2>3, <2>4
<1>5. CASE TryAgain
  <2>1. /\ events # <<>> /\ try' = try + 1
        /\ UNCHANGED <<writerRx, onChain, mined, jobTable, acked, logs, clients, lastBlockHeight,
                       lastSeenBlock, events, dropped>>
    BY <1>5 DEF TryAgain, dbVars, chainVars, histVars, scenarioVars
  <2>2. NodeInv'  BY <1>2, <1>3, <1>5, <2>1, TryAgainKeepsNodeInv
  <2>3. ProgramInv'  BY <1>1, <1>2, <2>1, OtherSendPrograms
  <2>4. try # 0 /\ try' \in Nat /\ try' # 0
    BY <1>2, <2>1 DEF BlockInv, BlockTypes
  <2>5. BlockInv'
    <3>1. BlockTypes'  BY <1>2, <2>1, <2>4 DEF BlockInv, BlockTypes
    <3>. QED  BY <1>2, <2>1, <2>4, <3>1 DEF BlockInv, Submitted, Found, Answered
  <2>6. AllQueueInv'
    <3>1. NodeWrites \subseteq NodeWrites'  BY <2>1, WritesGrow
    <3>2. AllWrites \subseteq AllWrites'  BY <1>2, <2>1, <3>1, AllWritesGrow
    <3>. QED  BY <1>2, <2>1, <3>2, SeqMonotonic DEF AllQueueInv
  <2>. QED  BY <2>2, <2>3, <2>5, <2>6 DEF ListenerInv
<1>6. CASE BlockDone
  <2>1. UNCHANGED nodeCoreVars /\ ToWriter(HeightWrite(lastSeenBlock + 1))
        /\ lastSeenBlock' = lastSeenBlock + 1
    BY <1>6 DEF BlockDone, nodeCoreVars
  <2>2. BlockInv' /\ lastSeenBlock <= lastSeenBlock'  BY <1>2, <1>6, BlockDoneBlocks
  <2>3. AllWrites \subseteq AllWrites'  BY <1>2, <2>1, <2>2, CoreWrites
  <2>4. HeightWrite(lastSeenBlock + 1) \in AllWrites'
    BY <1>2, <2>1 DEF HeightWrite, AllWrites, HeightWrites
  <2>5. writerRx \in Seq(AllWrites')  BY <1>2, <2>3, SeqMonotonic DEF AllQueueInv
  <2>6. writerRx' \in Seq(AllWrites')  BY <2>1, <2>4, <2>5, AppendFacts DEF ToWriter
  <2>7. ProgramInv'
    <3>1. UNCHANGED <<elfTable, programTable, upload, accepted>>  BY <1>1 DEF programVars
    <3>2. HeightWrite(lastSeenBlock + 1).kind # "program"  BY DEF HeightWrite
    <3>3. /\ \A id : ElfComes(id, Len(writerRx)) => ElfComes(id, Len(writerRx))'
          /\ \A i \in 1..Len(writerRx') :
                 writerRx'[i].kind = "program" => ElfComes(writerRx[i].row.id, i)'
      BY <1>2, <2>1, <2>4, <2>5, <3>1, <3>2, QueueGrows
    <3>. QED  BY <1>2, <3>1, <3>3 DEF ProgramInv, ProgramTypes
  <2>. QED  BY <2>1, <2>2, <2>6, <2>7, QueueStep
<1>7. CASE HeightWritten
  <2>1. /\ UNCHANGED <<nodeCoreVars, lastSeenBlock>> /\ writerRx # <<>>
        /\ writerRx' = Tail(writerRx) /\ Head(writerRx).kind = "height"
    BY <1>7 DEF HeightWritten, nodeCoreVars
  <2>2. BlockInv'  BY <1>2, <1>7, HeightWrittenBlocks
  <2>3. ProgramInv'  BY <1>1, <1>2, <2>1, OtherWrittenPrograms
  <2>4. AllWrites \subseteq AllWrites'  BY <1>2, <2>1, <2>2, CoreWrites
  <2>5. writerRx' \in Seq(AllWrites)  BY <1>2, <2>1, TailFacts DEF AllQueueInv
  <2>6. writerRx' \in Seq(AllWrites')  BY <2>4, <2>5, SeqMonotonic
  <2>. QED  BY <2>1, <2>2, <2>3, <2>6, QueueStep
<1>. QED  BY <1>4, <1>5, <1>6, <1>7

LEMMA RestartInv ==
  ASSUME ListenerInv, Restart
  PROVE  ListenerInv'
<1>1. NodeInv'  BY CrashKeepsNodeInv DEF Restart, CrashInStore, ListenerInv
<1>2. ProgramInv'  BY CrashPrograms DEF Restart, ListenerInv
<1>3. BlockInv'  BY RestartBlocks DEF ListenerInv
<1>4. AllQueueInv'  BY DEF Restart, CrashInStore, Crash, AllQueueInv
<1>. QED  BY <1>1, <1>2, <1>3, <1>4 DEF ListenerInv

LEMMA StutterListenerInv ==
  ASSUME ListenerInv, UNCHANGED allVars
  PROVE  ListenerInv'
<1>1. UNCHANGED <<nodeCoreVars, writerRx, programVars, listenerVars>>
  BY DEF allVars, nodeVars, nodeCoreVars
<1>2. UNCHANGED dropped /\ UNCHANGED lastSeenBlock /\ lastSeenBlock \in Nat
  BY <1>1 DEF listenerVars, ListenerInv, BlockInv, BlockTypes
<1>3. BlockInv'  BY <1>1, <1>2, CoreKeeps, OtherBlocks DEF ListenerInv
<1>4. ProgramInv'  BY <1>1, OtherSendPrograms DEF ListenerInv
<1>5. AllWrites \subseteq AllWrites'  BY <1>1, <1>2, <1>3, CoreWrites DEF ListenerInv
<1>6. writerRx' \in Seq(AllWrites')
  BY <1>1, <1>5, SeqMonotonic DEF ListenerInv, AllQueueInv
<1>. QED  BY <1>1, <1>3, <1>4, <1>6, QueueStep

LEMMA NextListenerInv == ListenerInv /\ [ListenerNext]_allVars => ListenerInv'
<1>. SUFFICES ASSUME ListenerInv, [ListenerNext]_allVars
              PROVE  ListenerInv'
  OBVIOUS
<1>1. CASE ListenerStep \/ HeightWritten
  <2>1. CASE SubmitEvent
    <3>1. Head(events) \in Job
      BY <2>1, LogFacts DEF SubmitEvent, ListenerInv
    <3>. QED  BY <2>1, <3>1, NodeStepInv DEF SubmitEvent, NotWriterStep
  <2>. QED  BY <1>1, <2>1, ListenerStepInv DEF ListenerStep
<1>2. CASE ClientStep /\ UNCHANGED listenerVars
  <2>1. PICK j \in clients : Submit(j) /\ UNCHANGED programVars  BY <1>2 DEF ClientStep
  <2>2. j \in Job  BY <2>1 DEF ListenerInv, BlockInv, BlockTypes
  <2>. QED  BY <1>2, <2>1, <2>2, NodeStepInv DEF NotWriterStep
<1>3. CASE StoreStep /\ UNCHANGED listenerVars
  <2>1. CASE RowWritten /\ UNCHANGED programVars  BY <1>3, <2>1, RowStepInv
  <2>2. CASE NodeStep /\ ~RowWritten /\ UNCHANGED programVars
    <3>1. NotWriterStep  BY <2>2 DEF NodeStep, NotWriterStep, PipelineStep
    <3>. QED  BY <1>3, <2>2, <3>1, NodeStepInv
  <2>. QED  BY <1>3, <2>1, <2>2, StoreStepInv DEF StoreStep
<1>4. CASE Restart  BY <1>4, RestartInv
<1>5. CASE ListenerRest \/ UNCHANGED allVars
  BY <1>5, StutterListenerInv DEF ListenerRest
<1>. QED  BY <1>1, <1>2, <1>3, <1>4, <1>5 DEF ListenerNext

\* The inductive invariant of the node, its programs and its listener.
THEOREM ListenerInvariant == ListenerSpec => []ListenerInv
<1>. QED  BY InitListenerInv, NextListenerInv, PTL DEF ListenerSpec

\* Across crashes, restarts and lost writes: a row that says Relayed is of a job
\* that a mined transaction carried to the chain, whatever came of it there.
THEOREM RelayedIsMinedHolds == ListenerSpec => []RelayedIsMined
<1>1. ListenerInv => RelayedIsMined  BY DEF ListenerInv, NodeInv, RelayedInv
<1>. QED  BY <1>1, ListenerInvariant, PTL

\* What submit_job and submit_elf answered Ok for is stored, whatever calls
\* compete for an id and wherever the process dies (intake.rs).
THEOREM AnsweredIsStoredHolds == ListenerSpec => []AnsweredIsStored
<1>1. ListenerInv => AnsweredIsStored
  <2>. SUFFICES ASSUME ListenerInv PROVE AnsweredIsStored
    OBVIOUS
  <2>1. AckedIsStored  BY DEF ListenerInv, NodeInv, StoredInv
  <2>2. ASSUME NEW p \in accepted
        PROVE  elfTable[p] # NoRow /\ programTable[p] = elfTable[p]
    <3>1. p \in Program /\ elfTable[p] # NoRow /\ programTable[p] # NoRow
      BY DEF ListenerInv, ProgramInv, ProgramTypes
    <3>2. elfTable[p] \in Elf /\ programTable[p] \in Elf
      BY <3>1 DEF ListenerInv, ProgramInv, ProgramTypes
    <3>3. IdOf[elfTable[p]] = p /\ IdOf[programTable[p]] = p
      BY <3>1 DEF ListenerInv, ProgramInv
    <3>. QED  BY <3>1, <3>2, <3>3, ProgramAssumption
  <2>. QED  BY <2>1, <2>2 DEF AnsweredIsStored
<1>. QED  BY <1>1, ListenerInvariant, PTL

\* The jobs of every block below the saved height were submitted (event.rs).
THEOREM PassedBlocksAreSubmittedHolds == ListenerSpec => []PassedBlocksAreSubmitted
<1>1. ListenerInv => PassedBlocksAreSubmitted
  <2>. SUFFICES ASSUME ListenerInv,
                       NEW b \in DOMAIN logs, FromBlock <= b, b < lastBlockHeight,
                       NEW j \in Range(logs[b])
                PROVE  Found(j) /\ (j \in dropped \/ \E k \in acked : Nonce[k] = Nonce[j])
    BY DEF PassedBlocksAreSubmitted
  <2>1. b < lastSeenBlock
    BY DEF ListenerInv, BlockInv, BlockTypes
  <2>2. PICK i \in 1..Len(logs[b]) : j = logs[b][i]
    BY DEF Range, ListenerInv, BlockInv, BlockTypes
  <2>3. Submitted(j)  BY <2>1, <2>2 DEF ListenerInv, BlockInv
  <2>. QED  BY <2>3 DEF Submitted, Answered
<1>. QED  BY <1>1, ListenerInvariant, PTL
=============================================================================
