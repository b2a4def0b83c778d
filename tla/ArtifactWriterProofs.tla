------------------------ MODULE ArtifactWriterProofs ------------------------
(***************************************************************************)
(* Proofs about ArtifactWriter.tla, for any number of threads, any set of  *)
(* artifacts and any number of writes.                                     *)
(***************************************************************************)
EXTENDS ArtifactWriter, SequenceTheorems, TLAPS

LEMMA InitInv == Init => IInv
<1> SUFFICES ASSUME Init PROVE IInv
  OBVIOUS
<1> USE WriterAssumption DEF Init
<1>1. TypeOK
  <2>1. <<>> \in Seq(Record) /\ <<>> \in Seq(Artifact)
    OBVIOUS
  <2>2. pc \in [Threads -> {"idle", "file", "stream"}]
    OBVIOUS
  <2>3. rec \in [Threads -> Record \cup {Nobody}]
    OBVIOUS
  <2>4. QED
    BY <2>1, <2>2, <2>3 DEF TypeOK
<1>2. WriteHoldsMutex /\ CarriesNewest
  BY DEF WriteHoldsMutex, CarriesNewest
<1>3. FileInOrder /\ FileComplete
  BY DEF FileInOrder, FileComplete, InFlight
<1>4. QED
  BY <1>1, <1>2, <1>3 DEF IInv, NobodyInsideOnceDestroyed

\* What a flush under the mutex does to the file's part of the invariant.
LEMMA FlushKeepsFile ==
  ASSUME IInv, FlushLocked, UNCHANGED <<pc, nextSeq, numbered>>, mutex = Nobody
  PROVE  /\ disk' \in Seq(Record) /\ buffer' \in Seq(Record) /\ fileOk' \in BOOLEAN
         /\ FileInOrder' /\ FileComplete'
<1> USE DEF IInv, TypeOK
<1>1. /\ disk' \in Seq(Record) /\ buffer' \in Seq(Record) /\ fileOk' \in BOOLEAN
  <2>1. disk \o buffer \in Seq(Record) /\ <<>> \in Seq(Record)
    BY ConcatProperties, EmptySeq
  <2>2. disk' \in Seq(Record) /\ buffer' \in Seq(Record)
    BY <2>1 DEF FlushLocked
  <2>3. fileOk' \in BOOLEAN
    BY DEF FlushLocked
  <2>4. QED
    BY <2>2, <2>3
<1>2. InFlight = {} /\ InFlight' = {}
  BY WriterAssumption DEF InFlight, WriteHoldsMutex
<1>3. CASE disk' = disk \o buffer /\ buffer' = <<>> /\ HasFile /\ fileOk /\ fileOk' = fileOk
  <2>1. Len(disk') = Len(disk) + Len(buffer) /\ Len(buffer') = 0
    BY <1>3
  <2>2. \A i \in 1..Len(disk') :
          disk'[i] = IF i <= Len(disk) THEN disk[i] ELSE buffer[i - Len(disk)]
    BY <1>3
  <2>3. ASSUME NEW i \in 1..Len(disk') PROVE disk'[i] = NumberedRecord(i)'
    <3>1. CASE i <= Len(disk)
      BY <2>2, <3>1 DEF FileInOrder, NumberedRecord
    <3>2. CASE i > Len(disk)
      <4>1. i - Len(disk) \in 1..Len(buffer)
        BY <2>1, <3>2
      <4>2. buffer[i - Len(disk)] = NumberedRecord(Len(disk) + (i - Len(disk)))
        BY <4>1 DEF FileInOrder
      <4>3. Len(disk) + (i - Len(disk)) = i
        OBVIOUS
      <4>4. QED
        BY <2>1, <2>2, <3>2, <4>2, <4>3 DEF NumberedRecord
    <3>3. QED
      BY <3>1, <3>2
  <2>4. FileInOrder'
    BY <2>1, <2>3 DEF FileInOrder
  <2>5. FileComplete'
    BY <1>2, <1>3, <2>1 DEF FileComplete
  <2>6. QED
    BY <1>1, <2>4, <2>5
<1>4. CASE UNCHANGED <<disk, buffer>> /\ (fileOk' => fileOk)
  <2>1. FileInOrder'
    BY <1>4 DEF FileInOrder, NumberedRecord
  <2>2. FileComplete'
    BY <1>2, <1>4 DEF FileComplete
  <2>3. QED
    BY <1>1, <2>1, <2>2
<1>5. QED
  BY <1>3, <1>4 DEF FlushLocked

LEMMA NextInv == IInv /\ [Next]_vars => IInv'
<1> SUFFICES ASSUME IInv, [Next]_vars PROVE IInv'
  OBVIOUS
<1> USE WriterAssumption
<1>1. ASSUME NEW t \in Threads, NEW a \in Artifact, BeginWrite(t, a)
      PROVE  IInv'
  <2> USE <1>1 DEF BeginWrite
  <2>1. InFlight = {} /\ t \in InFlight'
    BY DEF IInv, TypeOK, InFlight, WriteHoldsMutex
  <2>2. TypeOK'
    BY DEF IInv, TypeOK, Record
  <2>3. /\ nextSeq' = Len(numbered') /\ numbered'[nextSeq'] = a
        /\ \A i \in 1..nextSeq : numbered'[i] = numbered[i]
    BY DEF IInv, TypeOK
  <2>4. WriteHoldsMutex'
    BY DEF IInv, TypeOK, WriteHoldsMutex
  <2>5. CarriesNewest'
    <3>1. rec'[t] = NumberedRecord(nextSeq)'
      BY <2>3 DEF IInv, TypeOK, NumberedRecord
    <3>2. ASSUME NEW u \in Threads, u # t PROVE rec'[u] = Nobody /\ pc'[u] = "idle"
      BY <3>2 DEF IInv, TypeOK, CarriesNewest, WriteHoldsMutex
    <3>3. QED
      BY <3>1, <3>2 DEF CarriesNewest, IInv, TypeOK
  <2>6. FileComplete'
    BY <2>1 DEF IInv, TypeOK, FileComplete
  <2>7. FileInOrder'
    <3>1. /\ Len(disk) \in Nat /\ Len(buffer) \in Nat
          /\ disk' = disk /\ buffer' = buffer
      BY DEF IInv, TypeOK
    <3>2. Len(disk) + Len(buffer) <= nextSeq /\ nextSeq \in Nat
      BY DEF IInv, TypeOK, FileComplete
    <3>3. ASSUME NEW i \in 1..nextSeq PROVE NumberedRecord(i)' = NumberedRecord(i)
      BY <2>3, <3>3 DEF NumberedRecord
    <3>4. /\ \A i \in 1..Len(disk) : i \in 1..nextSeq
          /\ \A i \in 1..Len(buffer) : Len(disk) + i \in 1..nextSeq
      BY <3>1, <3>2
    <3>5. ASSUME NEW i \in 1..Len(disk) PROVE disk'[i] = NumberedRecord(i)'
      BY <3>1, <3>3, <3>4 DEF IInv, FileInOrder
    <3>6. ASSUME NEW i \in 1..Len(buffer)
          PROVE  buffer'[i] = NumberedRecord(Len(disk) + i)'
      BY <3>1, <3>3, <3>4 DEF IInv, FileInOrder
    <3>7. QED
      BY <3>1, <3>5, <3>6, Zenon DEF FileInOrder, NumberedRecord
  <2>8. QED
    BY <2>2, <2>3, <2>4, <2>5, <2>6, <2>7 DEF IInv, NobodyInsideOnceDestroyed
<1>2. ASSUME NEW t \in Threads, WriteToFile(t)
      PROVE  IInv'
  <2> USE <1>2 DEF WriteToFile
  <2>1. t \in InFlight /\ InFlight' = {} /\ rec[t] = NumberedRecord(nextSeq)
    BY DEF IInv, TypeOK, InFlight, WriteHoldsMutex, CarriesNewest
  <2>2. nextSeq \in 1..Len(numbered) /\ rec[t] \in Record
    <3>1. nextSeq \in 1..Len(numbered)
      BY <2>1 DEF IInv, TypeOK, InFlight, WriteHoldsMutex
    <3>2. numbered[nextSeq] \in Artifact
      BY <3>1 DEF IInv, TypeOK
    <3>3. QED
      BY <2>1, <3>1, <3>2 DEF NumberedRecord, Record
  <2>3. \/ /\ HasFile /\ fileOk /\ fileOk' = fileOk
           /\ buffer' \in Seq(Record) /\ Len(buffer') = Len(buffer) + 1
           /\ \A i \in 1..Len(buffer) : buffer'[i] = buffer[i]
           /\ buffer'[Len(buffer) + 1] = rec[t]
        \/ /\ buffer' = buffer /\ fileOk' \in BOOLEAN /\ ~(HasFile /\ fileOk')
    <3>1. CASE HasFile /\ fileOk /\ buffer' = Append(buffer, rec[t]) /\ UNCHANGED fileOk
      <4>1. buffer \in Seq(Record)
        BY DEF IInv, TypeOK
      <4>2. QED
        BY <2>2, <3>1, <4>1, AppendProperties
    <3>2. CASE UNCHANGED buffer /\ fileOk' \in BOOLEAN /\ ~(HasFile /\ fileOk')
      BY <3>2
    <3>3. fileOk \in BOOLEAN
      BY DEF IInv, TypeOK
    <3>4. QED
      BY <3>1, <3>2, <3>3
  <2>4. TypeOK' /\ WriteHoldsMutex' /\ CarriesNewest'
    <3>1. buffer' \in Seq(Record) /\ fileOk' \in BOOLEAN
      BY <2>3 DEF IInv, TypeOK
    <3>2. TypeOK'
      BY <3>1 DEF IInv, TypeOK
    <3>3. WriteHoldsMutex' /\ CarriesNewest'
      BY DEF IInv, TypeOK, WriteHoldsMutex, CarriesNewest, NumberedRecord
    <3>4. QED
      BY <3>2, <3>3
  <2>5. FileComplete'
    <3>1. HasFile => /\ Len(disk) + Len(buffer) < nextSeq
                     /\ fileOk => Len(disk) + Len(buffer) = nextSeq - 1
      BY <2>1 DEF IInv, FileComplete
    <3>2. Len(disk) \in Nat /\ Len(buffer) \in Nat /\ nextSeq \in Nat
      BY DEF IInv, TypeOK
    <3>3. ~HasFile => disk' = <<>> /\ buffer' = <<>>
      BY <2>3 DEF IInv, FileComplete
    <3>4. HasFile => /\ Len(disk') + Len(buffer') <= nextSeq'
                     /\ fileOk' => Len(disk') + Len(buffer') = nextSeq'
      BY <2>3, <3>1, <3>2
    <3>5. QED
      BY <2>1, <3>3, <3>4 DEF FileComplete
  <2>6. FileInOrder'
    <3>1. CASE HasFile /\ fileOk /\ buffer' # buffer
      <4>1. Len(disk) \in Nat /\ Len(buffer) \in Nat /\ nextSeq \in Nat
        BY DEF IInv, TypeOK
      <4>2. Len(disk) + Len(buffer) = nextSeq - 1
        BY <2>1, <3>1 DEF IInv, FileComplete
      <4> HIDE <1>2
      <4>3. /\ Len(buffer') = Len(buffer) + 1
            /\ \A i \in 1..Len(buffer) : buffer'[i] = buffer[i]
            /\ buffer'[Len(buffer) + 1] = rec[t]
        BY <2>3, <3>1
      <4>4. buffer'[Len(buffer) + 1] = NumberedRecord(Len(disk) + (Len(buffer) + 1))
        <5>1. Len(disk) + (Len(buffer) + 1) = nextSeq
          BY <4>1, <4>2
        <5>2. QED
          BY <2>1, <4>3, <5>1
      <4>5. \A i \in 1..Len(buffer) : buffer'[i] = NumberedRecord(Len(disk) + i)
        BY <4>3 DEF IInv, FileInOrder
      <4>6. \A i \in 1..Len(buffer') : i \in 1..Len(buffer) \/ i = Len(buffer) + 1
        BY <4>1, <4>3
      <4>7. \A i \in 1..Len(buffer') : buffer'[i] = NumberedRecord(Len(disk) + i)
        BY <4>4, <4>5, <4>6
      <4>8. QED
        BY <1>2, <4>7 DEF IInv, FileInOrder, NumberedRecord
    <3>2. CASE buffer' = buffer
      BY <3>2 DEF IInv, FileInOrder, NumberedRecord
    <3>3. QED
      BY <2>3, <3>1, <3>2
  <2>7. QED
    BY <2>4, <2>5, <2>6 DEF IInv, NobodyInsideOnceDestroyed
<1>3. ASSUME NEW t \in Threads, WriteToStream(t)
      PROVE  IInv'
  <2> USE <1>3 DEF WriteToStream
  <2>1. InFlight = {} /\ InFlight' = {} /\ rec[t] = NumberedRecord(nextSeq)
    BY DEF IInv, TypeOK, InFlight, WriteHoldsMutex, CarriesNewest
  <2>2. rec[t] \in Record
    BY <2>1 DEF IInv, TypeOK, WriteHoldsMutex, NumberedRecord, Record
  <2>3. TypeOK'
    BY <2>2 DEF IInv, TypeOK
  <2>4. WriteHoldsMutex' /\ CarriesNewest'
    BY DEF IInv, TypeOK, WriteHoldsMutex, CarriesNewest, NumberedRecord
  <2>5. FileComplete' /\ FileInOrder'
    BY <2>1 DEF IInv, TypeOK, FileComplete, FileInOrder, NumberedRecord
  <2>6. QED
    BY <2>3, <2>4, <2>5 DEF IInv, NobodyInsideOnceDestroyed
<1>4. ASSUME NEW t \in Threads, Flush(t)
      PROVE  IInv'
  <2>1. FileInOrder' /\ FileComplete' /\ TypeOK'
    BY <1>4, FlushKeepsFile DEF Flush, IInv, TypeOK
  <2>2. QED
    BY <1>4, <2>1 DEF Flush, IInv, WriteHoldsMutex, CarriesNewest, NumberedRecord,
                      NobodyInsideOnceDestroyed
<1>5. CASE PeriodicFlush
  <2>1. FileInOrder' /\ FileComplete' /\ TypeOK'
    BY <1>5, FlushKeepsFile DEF PeriodicFlush, IInv, TypeOK
  <2>2. QED
    BY <1>5, <2>1 DEF PeriodicFlush, IInv, WriteHoldsMutex, CarriesNewest,
                      NumberedRecord, NobodyInsideOnceDestroyed
<1>6. CASE FlusherExit
  BY <1>6 DEF FlusherExit, IInv, TypeOK, WriteHoldsMutex, CarriesNewest, FileInOrder,
              FileComplete, InFlight, NumberedRecord, NobodyInsideOnceDestroyed
<1>7. CASE Destroy
  <2>1. FileInOrder' /\ FileComplete' /\ TypeOK'
    BY <1>7, FlushKeepsFile DEF Destroy, IInv, TypeOK
  <2>2. QED
    BY <1>7, <2>1 DEF Destroy, IInv, WriteHoldsMutex, CarriesNewest, NumberedRecord,
                      NobodyInsideOnceDestroyed
<1>8. CASE Join
  BY <1>8 DEF Join, IInv, TypeOK, WriteHoldsMutex, CarriesNewest, FileInOrder,
              FileComplete, InFlight, NumberedRecord, NobodyInsideOnceDestroyed
<1>9. CASE UNCHANGED vars
  BY <1>9 DEF vars, IInv, TypeOK, WriteHoldsMutex, CarriesNewest, FileInOrder,
              FileComplete, InFlight, NumberedRecord, NobodyInsideOnceDestroyed
<1>10. QED
  BY <1>1, <1>2, <1>3, <1>4, <1>5, <1>6, <1>7, <1>8, <1>9 DEF Next, Gone

(***************************************************************************)
(* The inductive invariant: the mutex holder alone is inside               *)
(* ArtifactWriter::Write, it carries the newest sequence number, and the   *)
(* file's records are the earlier ones in order.                           *)
(***************************************************************************)
THEOREM Invariance == Spec => []IInv
<1>1. QED
  BY InitInv, NextInv, PTL DEF Spec

(***************************************************************************)
(* Sequence numbers are file order: what ArtifactWriter::Write relies on   *)
(* its mutex for, whatever the number of threads.                          *)
(***************************************************************************)
THEOREM FileOrder == Spec => []SequenceNumbersAreFileOrder
<1>1. IInv => SequenceNumbersAreFileOrder
  <2> SUFFICES ASSUME IInv, HasFile
               PROVE  /\ \A i \in 1..Len(fileRecords) :
                           fileRecords[i] = [seq |-> i - 1, artifact |-> numbered[i]]
                      /\ fileOk /\ InFlight = {} => Len(fileRecords) = nextSeq
    BY DEF SequenceNumbersAreFileOrder
  <2> USE DEF IInv, TypeOK
  <2>1. Len(fileRecords) = Len(disk) + Len(buffer)
    BY DEF fileRecords
  <2>2. ASSUME NEW i \in 1..Len(fileRecords)
        PROVE  fileRecords[i] = [seq |-> i - 1, artifact |-> numbered[i]]
    <3>1. fileRecords[i] = IF i <= Len(disk) THEN disk[i] ELSE buffer[i - Len(disk)]
      BY <2>1 DEF fileRecords
    <3>2. CASE i <= Len(disk)
      BY <3>1, <3>2 DEF FileInOrder, NumberedRecord
    <3>3. CASE i > Len(disk)
      <4>1. i - Len(disk) \in 1..Len(buffer)
        BY <2>1, <3>3
      <4>2. buffer[i - Len(disk)] = NumberedRecord(Len(disk) + (i - Len(disk)))
        BY <4>1 DEF FileInOrder
      <4>3. Len(disk) + (i - Len(disk)) = i
        OBVIOUS
      <4>4. QED
        BY <3>1, <3>3, <4>2, <4>3 DEF NumberedRecord
    <3>4. QED
      BY <3>2, <3>3
  <2>3. fileOk /\ InFlight = {} => Len(fileRecords) = nextSeq
    BY <2>1 DEF FileComplete
  <2>4. QED
    BY <2>2, <2>3
<1>2. QED
  BY Invariance, <1>1, PTL

\* What is on the stream was numbered before the record being written, which keeps the
\* stream in the order of the numbers.
StreamInOrder ==
  \A i \in 1..Len(stream) :
    stream[i].seq < IF mutex = Nobody THEN nextSeq ELSE nextSeq - 1

StreamInv == IInv /\ StreamInOrder /\ StreamMissesOnlyUnprintable

\* An artifact that is numbered joins those that some thread still carries.
LEMMA BeginWriteKeepsStream ==
  ASSUME StreamInv, IInv', NEW t \in Threads, NEW a \in Artifact, BeginWrite(t, a)
  PROVE  StreamInOrder' /\ StreamMissesOnlyUnprintable'
<1> USE WriterAssumption DEF BeginWrite, StreamInv, IInv, TypeOK
<1>1. /\ numbered' \in Seq(Artifact) /\ nextSeq' = nextSeq + 1
      /\ \A n \in 1..nextSeq : numbered'[n] = numbered[n]
      /\ stream \in Seq(Record) /\ stream' = stream
  OBVIOUS
<1>2. \A u \in Threads : pc[u] = "idle"
  BY DEF WriteHoldsMutex
<1>3. StreamInOrder'
  <2>1. \A i \in 1..Len(stream) : stream[i].seq < nextSeq
    BY DEF StreamInOrder
  <2>2. mutex' # Nobody /\ nextSeq' - 1 = nextSeq
    OBVIOUS
  <2>. QED
    BY <1>1, <2>1, <2>2 DEF StreamInOrder
<1>4. StreamMissesOnlyUnprintable'
  <2>0. /\ stream' = stream
        /\ StreamMissesOnlyUnprintable' <=>
             (HasStream =>
                /\ \A i, j \in 1..Len(stream') : i < j => stream'[i].seq < stream'[j].seq
                /\ \A n \in 1..nextSeq' :
                     \/ numbered'[n] \in Unprintable
                     \/ \E u \in Threads : pc'[u] # "idle" /\ rec'[u].seq = n - 1
                     \/ \E i \in 1..Len(stream') :
                          stream'[i] = [seq |-> n - 1, artifact |-> numbered'[n]])
    BY <1>1, Zenon DEF StreamMissesOnlyUnprintable
  <2>. SUFFICES ASSUME HasStream
                PROVE  /\ \A i, j \in 1..Len(stream) : i < j => stream[i].seq < stream[j].seq
                       /\ \A n \in 1..nextSeq' :
                            \/ numbered'[n] \in Unprintable
                            \/ \E u \in Threads : pc'[u] # "idle" /\ rec'[u].seq = n - 1
                            \/ \E i \in 1..Len(stream) :
                                 stream[i] = [seq |-> n - 1, artifact |-> numbered'[n]]
    BY <2>0
  <2>1. \A i, j \in 1..Len(stream) : i < j => stream[i].seq < stream[j].seq
    BY DEF StreamMissesOnlyUnprintable
  <2>2. ASSUME NEW n \in 1..nextSeq, numbered[n] \notin Unprintable
        PROVE  \E i \in 1..Len(stream) :
                 stream[i] = [seq |-> n - 1, artifact |-> numbered[n]]
    BY <1>2, <2>2 DEF StreamMissesOnlyUnprintable
  <2>3. pc'[t] # "idle" /\ rec'[t].seq = nextSeq
    OBVIOUS
  <2>4. \A n \in 1..nextSeq' : n \in 1..nextSeq \/ n - 1 = nextSeq
    BY <1>1
  <2>. QED
    BY <1>1, <2>1, <2>2, <2>3, <2>4
<1>. QED
  BY <1>3, <1>4

\* The record that leaves Write is the newest, and the only one that was carried.
LEMMA WriteToStreamKeepsStream ==
  ASSUME StreamInv, NEW t \in Threads, WriteToStream(t)
  PROVE  StreamInOrder' /\ StreamMissesOnlyUnprintable'
<1> USE WriterAssumption DEF WriteToStream, StreamInv, IInv, TypeOK
<1>1. /\ rec[t] = [seq |-> nextSeq - 1, artifact |-> numbered[nextSeq]]
      /\ nextSeq \in Nat /\ nextSeq > 0 /\ mutex = t
      /\ nextSeq \in 1..Len(numbered)
  BY DEF CarriesNewest, NumberedRecord, WriteHoldsMutex
<1>2. \A u \in Threads : pc[u] # "idle" => u = t
  BY DEF WriteHoldsMutex
<1>3. \A i \in 1..Len(stream) : stream[i].seq < nextSeq - 1
  BY <1>1 DEF StreamInOrder
<1>4. /\ mutex' = Nobody /\ nextSeq' = nextSeq /\ numbered' = numbered
      /\ stream \in Seq(Record) /\ Len(stream) \in Nat
      /\ \A i \in 1..Len(stream) : stream[i].seq \in Nat
      /\ rec[t] \in Record
  <2>1. numbered[nextSeq] \in Artifact /\ nextSeq - 1 \in Nat
    BY <1>1
  <2>2. rec[t] \in Record
    BY <1>1, <2>1 DEF Record
  <2>3. \A i \in 1..Len(stream) : stream[i] \in Record
    OBVIOUS
  <2>4. \A i \in 1..Len(stream) : stream[i].seq \in Nat
    BY <2>3 DEF Record
  <2>. QED
    BY <2>2, <2>4
<1>5. CASE HasStream /\ rec[t].artifact \notin Unprintable
  <2>1. /\ Len(stream') = Len(stream) + 1
        /\ \A i \in 1..Len(stream) : stream'[i] = stream[i]
        /\ stream'[Len(stream) + 1] = rec[t]
        /\ \A i \in 1..Len(stream') : i \in 1..Len(stream) \/ i = Len(stream) + 1
    <3>1. stream' = Append(stream, rec[t])
      BY <1>5
    <3>. QED
      BY <1>4, <3>1
  <2>. HIDE DEF WriteToStream
  <2>2. StreamInOrder'
    <3>1. ASSUME NEW i \in 1..Len(stream') PROVE stream'[i].seq < nextSeq
      <4>1. CASE i \in 1..Len(stream)
        <5>1. stream'[i] = stream[i] /\ stream[i].seq < nextSeq - 1 /\ stream[i].seq \in Nat
          BY <1>3, <1>4, <2>1, <4>1
        <5>. QED
          BY <1>1, <5>1
      <4>2. CASE i = Len(stream) + 1
        <5>1. stream'[i].seq = nextSeq - 1
          BY <1>1, <2>1, <4>2
        <5>. QED
          BY <1>1, <5>1
      <4>. QED
        BY <2>1, <4>1, <4>2
    <3>. QED
      BY <1>4, <3>1 DEF StreamInOrder
  <2>3. \A i, j \in 1..Len(stream') : i < j => stream'[i].seq < stream'[j].seq
    <3>1. \A i, j \in 1..Len(stream) : i < j => stream[i].seq < stream[j].seq
      BY <1>5 DEF StreamMissesOnlyUnprintable
    <3>2. \A i \in 1..Len(stream) : stream[i].seq < rec[t].seq
      BY <1>1, <1>3
    <3>. SUFFICES ASSUME NEW i \in 1..Len(stream'), NEW j \in 1..Len(stream'), i < j
                  PROVE  stream'[i].seq < stream'[j].seq
      OBVIOUS
    <3>3. i \in 1..Len(stream)
      BY <1>4, <2>1
    <3>4. CASE j \in 1..Len(stream)
      BY <2>1, <3>1, <3>3, <3>4
    <3>5. CASE j = Len(stream) + 1
      BY <2>1, <3>2, <3>3, <3>5
    <3>. QED
      BY <2>1, <3>4, <3>5
  <2>4. ASSUME NEW n \in 1..nextSeq, numbered[n] \notin Unprintable
        PROVE  \E i \in 1..Len(stream') :
                 stream'[i] = [seq |-> n - 1, artifact |-> numbered[n]]
    <3>1. CASE n = nextSeq
      BY <1>1, <1>4, <2>1, <3>1
    <3>2. CASE n # nextSeq
      <4>1. \A u \in Threads : ~(pc[u] # "idle" /\ rec[u].seq = n - 1)
        <5>1. rec[t].seq # n - 1
          BY <1>1, <3>2
        <5>. QED
          BY <1>2, <5>1
      <4>2. \E i \in 1..Len(stream) : stream[i] = [seq |-> n - 1, artifact |-> numbered[n]]
        BY <1>5, <2>4, <4>1 DEF StreamMissesOnlyUnprintable
      <4>. QED
        BY <1>4, <2>1, <4>2
    <3>. QED
      BY <3>1, <3>2
  <2>. QED
    BY <1>4, <2>2, <2>3, <2>4 DEF StreamMissesOnlyUnprintable
<1>6. CASE ~HasStream \/ rec[t].artifact \in Unprintable
  <2>1. stream' = stream
    BY <1>6
  <2>. HIDE DEF WriteToStream
  <2>2. StreamInOrder'
    <3>1. \A i \in 1..Len(stream) : stream[i].seq < nextSeq
      BY <1>1, <1>3, <1>4
    <3>. QED
      BY <1>4, <2>1, <3>1 DEF StreamInOrder
  <2>3. ASSUME HasStream, NEW n \in 1..nextSeq, numbered[n] \notin Unprintable
        PROVE  \E i \in 1..Len(stream) :
                 stream[i] = [seq |-> n - 1, artifact |-> numbered[n]]
    <3>1. n # nextSeq
      BY <1>1, <1>6, <2>3
    <3>2. rec[t].seq # n - 1
      BY <1>1, <3>1
    <3>. QED
      BY <1>2, <2>3, <3>2 DEF StreamMissesOnlyUnprintable
  <2>. QED
    BY <1>4, <2>1, <2>2, <2>3 DEF StreamMissesOnlyUnprintable
<1>. QED
  BY <1>5, <1>6

(***************************************************************************)
(* Every printable artifact whose Write has returned is on the stream, in  *)
(* the order of the numbers, whatever becomes of the file: WriteToStream   *)
(* runs however WriteToFile ends (artifact_writer.cc).                     *)
(***************************************************************************)
THEOREM StreamIsComplete == Spec => []StreamMissesOnlyUnprintable
<1>1. Init => StreamInOrder /\ StreamMissesOnlyUnprintable
  BY DEF Init, StreamInOrder, StreamMissesOnlyUnprintable
<1>2. ASSUME StreamInv, IInv', [Next]_vars
      PROVE  StreamInOrder' /\ StreamMissesOnlyUnprintable'
  <2>1. ASSUME NEW t \in Threads, NEW a \in Artifact, BeginWrite(t, a)
        PROVE  StreamInOrder' /\ StreamMissesOnlyUnprintable'
    BY <1>2, <2>1, BeginWriteKeepsStream
  <2>2. ASSUME NEW t \in Threads, WriteToFile(t)
        PROVE  StreamInOrder' /\ StreamMissesOnlyUnprintable'
    <3>1. /\ pc'[t] # "idle" /\ pc[t] # "idle"
          /\ \A u \in Threads : (pc'[u] # "idle") <=> (pc[u] # "idle")
          /\ UNCHANGED <<mutex, rec, nextSeq, stream, numbered>>
      BY <1>2, <2>2 DEF WriteToFile, StreamInv, IInv, TypeOK
    <3>. QED
      BY <1>2, <3>1 DEF StreamInv, StreamInOrder, StreamMissesOnlyUnprintable
  <2>3. ASSUME NEW t \in Threads, WriteToStream(t)
        PROVE  StreamInOrder' /\ StreamMissesOnlyUnprintable'
    BY <1>2, <2>3, WriteToStreamKeepsStream
  <2>4. CASE UNCHANGED <<mutex, pc, rec, nextSeq, stream, numbered>>
    BY <1>2, <2>4 DEF StreamInv, StreamInOrder, StreamMissesOnlyUnprintable
  <2>5. ASSUME NEW t \in Threads, Flush(t)
        PROVE  UNCHANGED <<mutex, pc, rec, nextSeq, stream, numbered>>
    BY <2>5 DEF Flush
  <2>6. PeriodicFlush \/ FlusherExit \/ Destroy \/ Join \/ Gone \/ UNCHANGED vars =>
          UNCHANGED <<mutex, pc, rec, nextSeq, stream, numbered>>
    BY DEF PeriodicFlush, FlusherExit, Destroy, Join, Gone, vars
  <2>. QED
    BY <1>2, <2>1, <2>2, <2>3, <2>4, <2>5, <2>6 DEF Next
<1>3. StreamInv => StreamMissesOnlyUnprintable
  BY DEF StreamInv
<1>4. IInv /\ StreamInOrder /\ StreamMissesOnlyUnprintable <=> StreamInv
  BY DEF StreamInv
<1>. QED
  BY <1>1, <1>2, <1>3, <1>4, Invariance, PTL DEF Spec

(***************************************************************************)
(* The writer implements the abstract artifact log: each critical section  *)
(* of artifact_writer.cc is one step of the log or none.                   *)
(***************************************************************************)
THEOREM Refinement == Spec => ImplementsArtifactLog
<1>1. Init => Log!Init
  BY WriterAssumption DEF Init, Log!Init
<1>2. ASSUME IInv, Next \/ UNCHANGED vars
      PROVE  Log!Next \/ UNCHANGED Log!logVars
  <2> USE <1>2, WriterAssumption DEF IInv, TypeOK
  <2>1. ASSUME NEW t \in Threads, NEW a \in Artifact, BeginWrite(t, a)
        PROVE  Log!Next
    <3>1. Log!Put(a)
      BY <2>1 DEF BeginWrite, Log!Put
    <3>2. QED
      BY <2>1, <3>1 DEF BeginWrite, Log!Write, Log!Next
  <2>2. ASSUME NEW t \in Threads, WriteToFile(t)
        PROVE  Log!Next \/ UNCHANGED Log!logVars
    <3>1. CASE UNCHANGED fileOk
      BY <2>2, <3>1 DEF WriteToFile, Log!logVars
    <3>2. CASE HasFile /\ fileOk /\ fileOk' = FALSE
      BY <2>2, <3>2 DEF WriteToFile, Log!Next, Log!Fail
    <3>3. QED
      BY <2>2, <3>1, <3>2 DEF WriteToFile
  <2>3. ASSUME NEW t \in Threads, WriteToStream(t)
        PROVE  UNCHANGED Log!logVars
    BY <2>3 DEF WriteToStream, Log!logVars
  <2>4. ASSUME mutex = Nobody, FlushLocked, UNCHANGED numbered
        PROVE  \/ /\ Len(disk') = IF HasFile /\ fileOk THEN Len(numbered) ELSE Len(disk)
                  /\ fileOk' = fileOk
               \/ /\ HasFile /\ fileOk /\ ~fileOk'
                  /\ disk' = disk
    <3>1. InFlight = {}
      BY <2>4 DEF InFlight, WriteHoldsMutex
    <3>2. CASE HasFile /\ fileOk /\ disk' = disk \o buffer /\ UNCHANGED fileOk
      <4>1. Len(disk') = Len(disk) + Len(buffer)
        BY <3>2
      <4>2. QED
        BY <3>1, <3>2, <4>1 DEF FileComplete
    <3>3. QED
      BY <2>4, <3>2 DEF FlushLocked
  <2>5. ASSUME owner = "live", UNCHANGED owner, mutex = Nobody, FlushLocked,
               UNCHANGED numbered
        PROVE  Log!Next
    BY <2>4, <2>5 DEF Log!Next, Log!Flush, Log!Sync, Log!Fail
  <2>6. ASSUME NEW t \in Threads, Flush(t)
        PROVE  Log!Next
    BY <2>5, <2>6 DEF Flush
  <2>7. CASE PeriodicFlush
    BY <2>5, <2>7 DEF PeriodicFlush, NobodyInsideOnceDestroyed
  <2>8. CASE FlusherExit
    BY <2>8 DEF FlusherExit, Log!logVars
  <2>9. CASE Destroy
    BY <2>4, <2>9 DEF Destroy, Log!Next, Log!Close
  <2>10. CASE Join
    BY <2>10 DEF Join, Log!logVars
  <2>11. CASE UNCHANGED vars
    BY <2>11 DEF vars, Log!logVars
  <2>12. QED
    BY <2>1, <2>2, <2>3, <2>6, <2>7, <2>8, <2>9, <2>10, <2>11 DEF Next, Gone
<1>3. QED
  BY Invariance, <1>1, <1>2, PTL DEF Spec, ImplementsArtifactLog, Log!Spec
=============================================================================
