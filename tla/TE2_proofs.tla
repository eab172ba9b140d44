----------------------------- MODULE TE2_proofs -----------------------------
(***************************************************************************)
(* Proofs about TE2 for every value of its constants: any images, number   *)
(* of attempts, sequence modulus, and any number of faults and runs.       *)
(***************************************************************************)
EXTENDS TE2, FiniteSetTheorems, TLAPS

-----------------------------------------------------------------------------
(* Facts about the operators *)

\* A number reduced modulo SeqMod is a sequence number.
LEMMA ModInSeqs == ASSUME NEW n \in Nat PROVE n % SeqMod \in Seqs
  BY TE2Assumption DEF TE2Assumption, Seqs

\* What the constant Images promises about an image.
LEMMA ImageType ==
  ASSUME NEW i \in Images
  PROVE  i.entry \in Addr /\ i.recs \in Seq(Record)
  BY TE2Assumption DEF TE2Assumption

\* The check sum the host computes over an image is a sequence of folded records.
LEMMA StreamType == ASSUME NEW i \in Images PROVE Stream(i.recs) \in Seq(Folded)
<1>1. i.recs \in Seq(Record) BY ImageType
<1>2. ASSUME NEW k \in DOMAIN i.recs
      PROVE  Fold((k - 1) % SeqMod, i.recs[k], i.recs[k].data) \in Folded
  <2>1. k - 1 \in Nat BY <1>1
  <2>2. (k - 1) % SeqMod \in Seqs BY <2>1, ModInSeqs
  <2>3. i.recs[k] \in Record BY <1>1
  <2> QED BY <2>2, <2>3 DEF Fold, Folded, Record
<1>3. DOMAIN i.recs = 1 .. Len(i.recs) /\ Len(i.recs) \in Nat BY <1>1
<1>4. Stream(i.recs) \in [1 .. Len(i.recs) -> Folded] BY <1>2, <1>3 DEF Stream
<1> QED BY <1>3, <1>4

\* Taking a line off either direction of the serial line keeps its type.
LEMMA HeadTailType ==
  ASSUME NEW S, NEW s \in Seq(S), s # <<>>
  PROVE  Head(s) \in S /\ Tail(s) \in Seq(S)
  OBVIOUS

\* So does sending a line.
LEMMA AppendType ==
  ASSUME NEW S, NEW s \in Seq(S), NEW c \in S
  PROVE  Append(s, c) \in Seq(S)
  OBVIOUS

\* So does garbling one.
LEMMA ExceptType ==
  ASSUME NEW S, NEW s \in Seq(S), NEW i \in DOMAIN s, NEW c \in S
  PROVE  [s EXCEPT ![i] = c] \in Seq(S)
  OBVIOUS

\* The lines up to line i, and the lines from the second one after it.
LEMMA LinesBefore ==
  ASSUME NEW S, NEW s \in Seq(S), NEW i \in 1 .. Len(s)
  PROVE  /\ SubSeq(s, 1, i) \in Seq(S) /\ Len(SubSeq(s, 1, i)) = i
         /\ \A k \in 1 .. i : SubSeq(s, 1, i)[k] = s[k]
<1>1. Len(s) \in Nat /\ i \in Nat OBVIOUS
<1>2. SubSeq(s, 1, i) \in Seq(S) OBVIOUS
<1>3. Len(SubSeq(s, 1, i)) = i BY <1>1
<1>4. \A k \in 1 .. i : SubSeq(s, 1, i)[k] = s[k] BY <1>1
<1> QED BY <1>2, <1>3, <1>4

LEMMA LinesAfter ==
  ASSUME NEW S, NEW s \in Seq(S), NEW i \in 1 .. Len(s), i < Len(s)
  PROVE  LET r == SubSeq(s, i + 2, Len(s)) IN
         /\ r \in Seq(S) /\ Len(r) = Len(s) - i - 1
         /\ \A k \in 1 .. Len(r) : r[k] = s[k + i + 1]
<1> DEFINE r == SubSeq(s, i + 2, Len(s))
<1>1. Len(s) \in Nat /\ i \in Nat OBVIOUS
<1>2. r \in Seq(S) BY <1>1
<1>3. Len(r) = Len(s) - i - 1 BY <1>1
<1>4. ASSUME NEW k \in 1 .. Len(r) PROVE r[k] = s[k + i + 1]
  <2>1. k \in 1 .. Len(s) - i - 1 BY <1>3
  <2>2. r[k] = s[(i + 2) + k - 1] BY <1>1, <2>1
  <2> QED BY <1>1, <2>1, <2>2
<1> QED BY <1>2, <1>3, <1>4

\* An element of a concatenation is one of its two halves'.
LEMMA ConcatElement ==
  ASSUME NEW S, NEW a \in Seq(S), NEW b \in Seq(S), NEW k \in DOMAIN (a \o b)
  PROVE  \/ k \in 1 .. Len(a) /\ (a \o b)[k] = a[k]
         \/ k - Len(a) \in 1 .. Len(b) /\ (a \o b)[k] = b[k - Len(a)]
<1>1. Len(a) \in Nat /\ Len(b) \in Nat /\ k \in 1 .. Len(a) + Len(b) OBVIOUS
<1>2. CASE k <= Len(a) BY <1>1, <1>2
<1>3. CASE k > Len(a) BY <1>1, <1>3
<1> QED BY <1>1, <1>2, <1>3

\* Joining line i with the next one.
LEMMA JoinType ==
  ASSUME NEW S, NEW s \in Seq(S), NEW i \in DOMAIN s, i < Len(s), NEW c \in S
  PROVE  [SubSeq(s, 1, i) \o SubSeq(s, i + 2, Len(s)) EXCEPT ![i] = c] \in Seq(S)
<1> DEFINE a == SubSeq(s, 1, i)
           b == SubSeq(s, i + 2, Len(s))
<1>1. a \in Seq(S) /\ b \in Seq(S) /\ Len(a) = i
  BY LinesBefore, LinesAfter
<1>2. a \o b \in Seq(S) BY <1>1
<1>4. i \in DOMAIN (a \o b) BY <1>1
<1> HIDE DEF a, b
<1> QED BY <1>2, <1>4

\* Every answer of the loader is a response line.
LEMMA ResponseType ==
  /\ \A s \in Seqs : Ack(s) \in Responses /\ Final(s) \in Responses
  /\ \A a \in GoAddr : Jump(a) \in Responses
  /\ ReadyMsg \in Responses /\ Nack \in Responses
  BY DEF Responses, Ack, Final, Jump, ReadyMsg, Nack

\* What a command line carries, by its first character.
LEMMA CommandType ==
  ASSUME NEW c \in Commands
  PROVE  /\ c.cmd = "D" => c.seq \in Seqs /\ c.rec \in Record
         /\ c.cmd = "E" => c.seq \in Seqs /\ c.crc \in Seq(Folded)
         /\ c.cmd = "G" => c.addr \in GoAddr
  BY DEF Commands, DataLine, EndLine, GoLine, Hello, Bad

-----------------------------------------------------------------------------
(* Type correctness *)

\* The initial states are of the right types.
LEMMA TypeInit == Init => TypeOK
<1> SUFFICES ASSUME Init PROVE TypeOK OBVIOUS
<1>1. LoaderBase \in Addr BY TE2Assumption DEF TE2Assumption, Addr
<1>2. launch \in [addr: GoAddr, mem: [Addr -> Byte]] BY <1>1 DEF Init, GoAddr
<1>3. expected_seq \in Seqs BY TE2Assumption DEF Init, Seqs, TE2Assumption
<1>4. tries \in 0 .. Retries /\ run \in 0 .. MaxRuns /\ faults \in 0 .. MaxFaults
        /\ memFaults \in 0 .. MaxMemFaults
  BY TE2Assumption DEF Init, TE2Assumption
<1>5. stream_crc \in Seq(Folded) /\ toBoard \in Seq(Commands) /\ toHost \in Seq(Responses)
  BY DEF Init
<1> QED BY <1>2, <1>3, <1>4, <1>5 DEF Init, TypeOK

\* One attempt of the host, whatever the command, keeps every type.
LEMMA TransmitType ==
  ASSUME TypeOK, NEW c \in Commands, NEW limit \in 0 .. Retries, Transmit(c, limit)
  PROVE  TypeOK'
<1>1. tries' \in 0 .. Retries BY TE2Assumption DEF TypeOK, Transmit, TE2Assumption
<1>2. /\ toBoard \in Seq(Commands) /\ ragged \in BOOLEAN /\ waiting \in BOOLEAN
      /\ faults \in 0 .. MaxFaults
  BY DEF TypeOK
<1>3. (IF ragged THEN Bad ELSE c) \in Commands BY DEF Commands
<1>4. toBoard' \in Seq(Commands)
  <2>1. CASE UNCHANGED toBoard BY <1>2, <2>1
  <2>2. CASE toBoard' = Append(toBoard, IF ragged THEN Bad ELSE c)
    BY <1>2, <1>3, <2>2, AppendType
  <2> QED BY <2>1, <2>2 DEF Transmit
<1>5. ragged' \in BOOLEAN /\ waiting' \in BOOLEAN BY <1>2 DEF Transmit
<1>6. faults' \in 0 .. MaxFaults
  <2>1. faults' = faults \/ (faults < MaxFaults /\ faults' = faults + 1) BY DEF Transmit
  <2> QED BY <1>2, <2>1, TE2Assumption DEF TE2Assumption
<1> QED BY <1>1, <1>4, <1>5, <1>6 DEF TypeOK, Transmit, board, session, hist

\* Every step keeps every type: one step of the proof per action.
LEMMA TypeNext == TypeOK /\ [Next]_vars => TypeOK'
<1> SUFFICES ASSUME TypeOK, [Next]_vars PROVE TypeOK' OBVIOUS
<1> USE DEF hist, session
<1>seq. seq \in Seqs BY ModInSeqs DEF TypeOK, seq
<1>1. ASSUME NEW i \in Images, Bootstrap(i) PROVE TypeOK'
  <2>1. i.recs \in Seq(Record) BY ImageType
  <2>2. run' \in 0 .. MaxRuns BY <1>1, TE2Assumption DEF Bootstrap, StartRun, TypeOK, TE2Assumption
  <2>3. expected_seq' \in Seqs BY <1>1, TE2Assumption DEF Bootstrap, Seqs, TE2Assumption
  <2>4. phase' \in {"data", "end"} /\ (phase' = "data" => sent' < Len(img'.recs))
    BY <1>1 DEF Bootstrap, StartRun, AfterRecords
  <2>5. tries' \in 0 .. Retries BY <1>1, TE2Assumption DEF Bootstrap, StartRun, TE2Assumption
  <2>6. /\ toBoard' \in Seq(Commands) /\ toHost' \in Seq(Responses)
        /\ stream_crc' \in Seq(Folded)
    BY <1>1 DEF Bootstrap
  <2>7. UNCHANGED <<mem, faults, memFaults, launch, launches>>
        /\ img' = i /\ sent' = 0 /\ stage2_only' = FALSE /\ waiting' = FALSE
        /\ ragged' = FALSE /\ pc' = "loader" /\ finalized' = FALSE
    BY <1>1 DEF Bootstrap, StartRun
  <2>8. alone' \in BOOLEAN BY <1>1 DEF Bootstrap, StartRun
  <2> QED BY <2>2, <2>3, <2>4, <2>5, <2>6, <2>7, <2>8 DEF TypeOK, Active
<1>2. ASSUME NEW i \in Images, BootstrapFails(i) \/ Attach(i) PROVE TypeOK'
  <2>1. run' \in 0 .. MaxRuns
    BY <1>2, TE2Assumption DEF BootstrapFails, Attach, StartRun, TypeOK, TE2Assumption
  <2>2. tries' \in 0 .. Retries
    BY <1>2, TE2Assumption DEF BootstrapFails, Attach, StartRun, TE2Assumption
  <2>3. img' = i /\ sent' = 0 /\ stage2_only' \in BOOLEAN /\ waiting' = FALSE
        /\ phase' \in {"dead", "attach"}
    BY <1>2 DEF BootstrapFails, Attach, StartRun
  <2>4. toBoard' \in Seq(Commands) /\ toHost' \in Seq(Responses) /\ ragged' \in BOOLEAN
    <3>1. CASE BootstrapFails(i)
      <4>1. toBoard' = <<>> /\ toHost' = <<>> /\ ragged' = FALSE BY <3>1 DEF BootstrapFails
      <4>2. <<>> \in Seq(Commands) /\ <<>> \in Seq(Responses) OBVIOUS
      <4> QED BY <4>1, <4>2
    <3>2. CASE Attach(i) BY <3>2 DEF Attach, TypeOK
    <3> QED BY <1>2, <3>1, <3>2
  <2>5. pc' \in {"rom", "loader", "program"} /\ UNCHANGED <<mem, expected_seq, stream_crc,
          finalized, faults, memFaults, launch, launches>>
    BY <1>2 DEF BootstrapFails, Attach, TypeOK, board
  <2>6. alone' \in BOOLEAN BY <1>2 DEF BootstrapFails, Attach, StartRun
  <2> QED BY <2>1, <2>2, <2>3, <2>4, <2>5, <2>6 DEF TypeOK, Active
<1>3. ASSUME SendHello \/ send_record \/ SendEnd \/ SendGo PROVE TypeOK'
  <2>1. 1 \in 0 .. Retries /\ Retries \in 0 .. Retries BY TE2Assumption DEF TE2Assumption
  <2>2. CASE SendHello
    <3>1. Hello \in Commands BY DEF Commands
    <3> QED BY <2>1, <2>2, <3>1, TransmitType DEF SendHello
  <2>3. CASE send_record
    <3>1. img.recs \in Seq(Record) /\ sent + 1 \in DOMAIN img.recs
      BY <2>3, ImageType DEF send_record, TypeOK
    <3>2. [cmd |-> "D", seq |-> seq, rec |-> img.recs[sent + 1]] \in Commands
      BY <3>1, <1>seq DEF Commands, DataLine
    <3> QED BY <2>1, <2>3, <3>2, TransmitType DEF send_record
  <2>4. CASE SendEnd
    <3>1. [cmd |-> "E", seq |-> seq, crc |-> Stream(img.recs)] \in Commands
      BY <1>seq, StreamType DEF Commands, EndLine, TypeOK
    <3> QED BY <2>1, <2>4, <3>1, TransmitType DEF SendEnd
  <2>5. CASE SendGo
    <3>1. [cmd |-> "G", addr |-> img.entry] \in Commands
      BY ImageType DEF Commands, GoLine, GoAddr, TypeOK
    <3> QED BY <2>1, <2>5, <3>1, TransmitType DEF SendGo
  <2> QED BY <1>3, <2>2, <2>3, <2>4, <2>5
<1>4. ASSUME RejectImage \/ Timeout \/ GiveUp \/ Interrupt PROVE TypeOK'
  BY <1>4 DEF RejectImage, Timeout, GiveUp, Interrupt, TypeOK, board, line, Active
<1>5. ASSUME Advance PROVE TypeOK'
  <2>1. toHost' \in Seq(Responses) BY <1>5, HeadTailType DEF Advance, TypeOK
  <2>2. tries' \in 0 .. Retries BY <1>5, TE2Assumption DEF Advance, TE2Assumption
  <2>3. sent' \in Nat BY <1>5 DEF Advance, TypeOK
  <2>4. phase' \in {"data", "end", "go", "terminal"}
    BY <1>5 DEF Advance, AfterRecords
  <2>5. phase' = "data" => sent' < Len(img'.recs)
    <3>1. img' = img BY <1>5 DEF Advance
    <3>2. CASE phase \in {"attach", "data"}
      <4>1. phase' = AfterRecords(img.recs, sent') /\ (phase = "attach" => sent' = sent)
        BY <1>5, <3>2 DEF Advance
      <4>2. CASE phase = "data" BY <3>1, <4>1 DEF AfterRecords
      <4>3. CASE phase = "attach" BY <3>1, <4>1 DEF AfterRecords
      <4> QED BY <3>2, <4>2, <4>3
    <3>3. CASE phase \in {"end", "go"} BY <1>5, <3>3 DEF Advance
    <3> QED BY <1>5, <3>2, <3>3 DEF Advance, Active
  <2> QED BY <1>5, <2>1, <2>2, <2>3, <2>4, <2>5 DEF Advance, TypeOK, board, Active
<1>6. ASSUME Ignore PROVE TypeOK'
  <2>1. toHost' \in Seq(Responses) BY <1>6, HeadTailType DEF Ignore, TypeOK
  <2> QED BY <1>6, <2>1 DEF Ignore, TypeOK, host, board
<1>ans. ASSUME NEW r \in Responses, Answer(r) PROVE toHost' \in Seq(Responses)
  BY <1>ans, AppendType DEF Answer, TypeOK
<1>7. ASSUME NEW x, getline(x) PROVE Line \in Commands /\ toBoard' \in Seq(Commands)
  BY <1>7, HeadTailType DEF getline, Line, TypeOK
<1>8. ASSUME data_record PROVE TypeOK'
  <2> USE DEF data_record
  <2>1. Line.seq \in Seqs /\ Line.rec \in Record /\ toBoard' \in Seq(Commands)
    BY <1>7, <1>8, CommandType DEF getline
  <2>2. toHost' \in Seq(Responses)
    <3>1. \E r \in Responses : Answer(r)
      BY <1>8, <2>1, ResponseType DEF Duplicate, Refuse, Store, ReadBackFails
    <3> QED BY <3>1, <1>ans
  <2>3. CASE Duplicate \/ Refuse
    BY <1>8, <2>1, <2>2, <2>3 DEF getline, Duplicate, Refuse, TypeOK, host, board
  <2>4. \A d \in Byte \cup {NoData} : Fold(Line.seq, Line.rec, d) \in Folded
    BY <2>1 DEF Fold, Folded, Record
  <2>5. CASE Store
    <3>1. expected_seq' \in Seqs
      <4>1. expected_seq + 1 \in Nat BY TE2Assumption DEF TypeOK, Seqs, TE2Assumption
      <4> QED BY <2>5, <4>1, ModInSeqs DEF Store
    <3>2. stream_crc' \in Seq(Folded) BY <2>1, <2>4, <2>5 DEF Store, TypeOK, Record
    <3>3. mem' \in [Addr -> Byte] BY <2>1, <2>5 DEF Store, TypeOK, Record
    <3> QED BY <1>8, <2>1, <2>2, <2>5, <3>1, <3>2, <3>3 DEF getline, Store, TypeOK, host
  <2>6. CASE ReadBackFails
    <3>1. memFaults' \in 0 .. MaxMemFaults
      BY <2>6, TE2Assumption DEF ReadBackFails, TypeOK, TE2Assumption
    <3>2. stream_crc' \in Seq(Folded) BY <2>4, <2>6 DEF ReadBackFails, TypeOK
    <3>3. mem' \in [Addr -> Byte] BY <2>1, <2>6 DEF ReadBackFails, TypeOK, Record
    <3> QED BY <1>8, <2>1, <2>2, <2>6, <3>1, <3>2, <3>3 DEF getline, ReadBackFails, TypeOK, host
  <2> QED BY <1>8, <2>3, <2>5, <2>6
<1>9. ASSUME end_record PROVE TypeOK'
  <2>1. Line.seq \in Seqs /\ toBoard' \in Seq(Commands)
    BY <1>7, <1>9, CommandType DEF end_record, getline
  <2>2. toHost' \in Seq(Responses) BY <1>9, <1>ans, <2>1, ResponseType DEF end_record
  <2>3. finalized' \in BOOLEAN BY <1>9 DEF end_record, TypeOK
  <2> QED BY <1>9, <2>1, <2>2, <2>3 DEF end_record, getline, TypeOK, host
<1>10. ASSUME go_record PROVE TypeOK'
  <2>1. Line.addr \in GoAddr /\ toBoard' \in Seq(Commands)
    BY <1>7, <1>10, CommandType DEF go_record, getline
  <2>2. toHost' \in Seq(Responses) BY <1>10, <1>ans, <2>1, ResponseType DEF go_record
  <2>3. launch' \in [addr: GoAddr, mem: [Addr -> Byte]] /\ launches' \in Nat
    BY <1>10, <2>1 DEF go_record, TypeOK
  <2>4. pc' \in {"rom", "loader", "program"} BY <1>10 DEF go_record, TypeOK
  <2> QED BY <1>10, <2>1, <2>2, <2>3, <2>4 DEF go_record, getline, TypeOK, host
<1>11. ASSUME HelloOrBad PROVE TypeOK'
  <2>1. toBoard' \in Seq(Commands) BY <1>7, <1>11 DEF HelloOrBad
  <2>2. toHost' \in Seq(Responses) BY <1>11, <1>ans, ResponseType DEF HelloOrBad
  <2> QED BY <1>11, <2>1, <2>2 DEF HelloOrBad, getline, TypeOK, host, board
<1>12. ASSUME OtherReads PROVE TypeOK'
  <2>1. toBoard' \in Seq(Commands) BY <1>12, HeadTailType DEF OtherReads, TypeOK
  <2>2. toHost' \in Seq(Responses) BY <1>12, ResponseType DEF OtherReads, TypeOK
  <2> QED BY <1>12, <2>1, <2>2 DEF OtherReads, TypeOK, host, board
<1>13. ASSUME ProgramStores PROVE TypeOK'
  <2>1. mem' \in [Addr -> Byte]
    BY <1>13, TE2Assumption DEF ProgramStores, TypeOK, Addr, TE2Assumption
  <2> QED BY <1>13, <2>1 DEF ProgramStores, TypeOK, host, line
<1>14. ASSUME ProgramReturns PROVE TypeOK'
  BY <1>14 DEF ProgramReturns, TypeOK, host, line
<1>15. ASSUME CorruptCommand \/ LoseNewline \/ CorruptReply PROVE TypeOK'
  <2>1. LineFault /\ faults' \in 0 .. MaxFaults
    <3>1. LineFault BY <1>15 DEF CorruptCommand, LoseNewline, CorruptReply
    <3>2. faults \in 0 .. MaxFaults BY DEF TypeOK
    <3> QED BY <3>1, <3>2, TE2Assumption DEF LineFault, TE2Assumption
  <2>2. Bad \in Commands /\ GoLine \subseteq Commands BY DEF Commands
  <2>3. CASE CorruptCommand
    <3>1. toBoard' \in Seq(Commands) BY <2>2, <2>3, ExceptType DEF CorruptCommand, TypeOK
    <3> QED BY <2>1, <2>3, <3>1 DEF CorruptCommand, LineFault, TypeOK, host, board
  <2>4. CASE LoseNewline
    <3>1. toBoard' \in Seq(Commands) /\ ragged' \in BOOLEAN
      <4> PICK i \in DOMAIN toBoard :
            IF i < Len(toBoard)
            THEN /\ toBoard' = [SubSeq(toBoard, 1, i) \o SubSeq(toBoard, i + 2, Len(toBoard))
                                  EXCEPT ![i] = Bad]
                 /\ UNCHANGED ragged
            ELSE toBoard' = SubSeq(toBoard, 1, i - 1) /\ ragged' = TRUE
        BY <2>4 DEF LoseNewline
      <4>1. CASE i < Len(toBoard)
        <5>1. toBoard \in Seq(Commands) /\ ragged \in BOOLEAN BY DEF TypeOK
        <5>2. [SubSeq(toBoard, 1, i) \o SubSeq(toBoard, i + 2, Len(toBoard)) EXCEPT ![i] = Bad]
                \in Seq(Commands)
          BY <2>2, <4>1, <5>1, JoinType
        <5> QED BY <4>1, <5>1, <5>2
      <4>2. CASE ~(i < Len(toBoard))
        <5>1. toBoard \in Seq(Commands) BY DEF TypeOK
        <5>2. SubSeq(toBoard, 1, i - 1) \in Seq(Commands) BY <5>1
        <5> QED BY <4>2, <5>2
      <4> QED BY <4>1, <4>2
    <3> QED BY <2>1, <2>4, <3>1 DEF LoseNewline, LineFault, TypeOK, host, board
  <2>5. CASE CorruptReply
    <3>1. \A i \in DOMAIN toHost :
            {Nack} \cup (IF toHost[i].rsp = "A" THEN {Ack(s) : s \in Seqs} ELSE {})
              \subseteq Responses
      BY ResponseType
    <3>2. toHost' \in Seq(Responses) BY <2>5, <3>1, ExceptType DEF CorruptReply, TypeOK
    <3> QED BY <2>1, <2>5, <3>2 DEF CorruptReply, LineFault, TypeOK, host, board
  <2> QED BY <1>15, <2>3, <2>4, <2>5
<1>16. ASSUME UNCHANGED vars PROVE TypeOK'
  BY <1>16 DEF vars, host, board, line, TypeOK
<1> QED
  BY <1>1, <1>2, <1>3, <1>4, <1>5, <1>6, <1>8, <1>9, <1>10, <1>11, <1>12, <1>13, <1>14, <1>15, <1>16
  DEF Next, HostStep, LoaderStep

\* Every variable stays within its type in every behaviour.
THEOREM TypeCorrect == Spec => []TypeOK
  BY TypeInit, TypeNext, PTL DEF Spec

-----------------------------------------------------------------------------
(* What the loader calls finalized is an image *)

\* E records in flight: any step takes the line as it is, drops some of it,
\* or adds a line; only SendEnd adds an E record, with the image's checksum.
LEMMA EndsNext == TypeOK /\ EndsAreImages /\ [Next]_vars => EndsAreImages'
<1> SUFFICES ASSUME TypeOK, EndsAreImages, [Next]_vars PROVE EndsAreImages' OBVIOUS
<1> DEFINE Fine(c) == c.cmd = "E" => \E i \in Images : c.crc = Stream(i.recs)
<1>t. toBoard \in Seq(Commands) BY DEF TypeOK
<1>0. \A k \in DOMAIN toBoard : Fine(toBoard[k]) BY DEF EndsAreImages
<1>bad. Fine(Bad) BY DEF Bad
<1>f. ASSUME \A k \in DOMAIN toBoard' : Fine(toBoard'[k]) PROVE EndsAreImages'
  BY <1>f DEF EndsAreImages
<1>1. ASSUME UNCHANGED toBoard PROVE EndsAreImages' BY <1>1 DEF EndsAreImages
<1>2. ASSUME toBoard' = <<>> PROVE EndsAreImages' BY <1>2 DEF EndsAreImages
<1>3. ASSUME toBoard # <<>>, toBoard' = Tail(toBoard) PROVE EndsAreImages'
  <2>1. \A k \in DOMAIN toBoard' : k + 1 \in DOMAIN toBoard /\ toBoard'[k] = toBoard[k + 1]
    BY <1>t, <1>3
  <2> HIDE DEF Fine
  <2> QED BY <1>0, <1>f, <2>1
<1>4. ASSUME NEW c, NEW limit, Transmit(c, limit), Fine(c) PROVE EndsAreImages'
  <2> DEFINE d == IF ragged THEN Bad ELSE c
  <2>1. Fine(d) BY <1>4, <1>bad
  <2>2. CASE toBoard' = Append(toBoard, d)
    <3> HIDE DEF Fine, d
    <3>1. \A k \in DOMAIN toBoard' : toBoard'[k] = d \/ (k \in DOMAIN toBoard /\ toBoard'[k] = toBoard[k])
      BY <1>t, <2>2
    <3> QED BY <1>0, <1>f, <2>1, <3>1
  <2> QED BY <1>1, <1>4, <2>2 DEF Transmit
<1>5. ASSUME SendHello \/ send_record \/ SendEnd \/ SendGo PROVE EndsAreImages'
  <2>1. CASE SendHello BY <1>4, <2>1 DEF SendHello, Hello
  <2>2. CASE send_record BY <1>4, <2>2 DEF send_record
  <2>3. CASE SendEnd
    <3>1. img \in Images BY DEF TypeOK
    <3> QED BY <1>4, <2>3, <3>1 DEF SendEnd
  <2>4. CASE SendGo BY <1>4, <2>4 DEF SendGo
  <2> QED BY <1>5, <2>1, <2>2, <2>3, <2>4
<1>6. ASSUME CorruptCommand PROVE EndsAreImages'
  <2>1. PICK i \in DOMAIN toBoard :
          \E c \in {Bad} \cup (IF toBoard[i].cmd = "G" THEN GoLine ELSE {}) :
            toBoard' = [toBoard EXCEPT ![i] = c]
    BY <1>6 DEF CorruptCommand
  <2>2. PICK c \in {Bad} \cup GoLine : toBoard' = [toBoard EXCEPT ![i] = c] BY <2>1
  <2>3. Fine(c) BY <2>2, <1>bad DEF GoLine
  <2> HIDE DEF Fine
  <2>4. \A k \in DOMAIN toBoard' : k \in DOMAIN toBoard /\ toBoard'[k] \in {c, toBoard[k]}
    BY <1>t, <2>2
  <2> QED BY <1>0, <1>f, <2>3, <2>4
<1>7. ASSUME LoseNewline PROVE EndsAreImages'
  <2> PICK i \in DOMAIN toBoard :
        IF i < Len(toBoard)
        THEN toBoard' = [SubSeq(toBoard, 1, i) \o SubSeq(toBoard, i + 2, Len(toBoard))
                           EXCEPT ![i] = Bad]
        ELSE toBoard' = SubSeq(toBoard, 1, i - 1)
    BY <1>7 DEF LoseNewline
  <2> HIDE DEF Fine
  <2>1. CASE i < Len(toBoard)
    <3> DEFINE a == SubSeq(toBoard, 1, i)
               b == SubSeq(toBoard, i + 2, Len(toBoard))
    <3>1. \A k \in DOMAIN (a \o b) : \E l \in DOMAIN toBoard : (a \o b)[k] = toBoard[l]
      <4>1. a \in Seq(Commands) /\ Len(a) = i /\ \A k \in 1 .. i : a[k] = toBoard[k]
        BY <1>t, LinesBefore
      <4>2. b \in Seq(Commands) /\ Len(b) = Len(toBoard) - i - 1
              /\ \A k \in 1 .. Len(b) : b[k] = toBoard[k + i + 1]
        BY <1>t, <2>1, LinesAfter
      <4> HIDE DEF a, b
      <4>3. \A k \in DOMAIN (a \o b) :
              \/ k \in 1 .. i /\ (a \o b)[k] = a[k]
              \/ k - i \in 1 .. Len(b) /\ (a \o b)[k] = b[k - i]
        BY <4>1, <4>2, ConcatElement
      <4>4. ASSUME NEW k \in 1 .. Len(b) PROVE k + i + 1 \in DOMAIN toBoard
        BY <1>t, <4>2
      <4>5. 1 .. i \subseteq DOMAIN toBoard BY <1>t
      <4> QED BY <4>1, <4>2, <4>3, <4>4, <4>5
    <3>2. \A k \in DOMAIN toBoard' : k \in DOMAIN (a \o b) /\ toBoard'[k] \in {Bad, (a \o b)[k]}
      <4>1. toBoard' = [a \o b EXCEPT ![i] = Bad] BY <2>1
      <4> HIDE DEF a, b
      <4> QED BY <4>1
    <3> QED BY <1>0, <1>f, <1>bad, <3>1, <3>2
  <2>2. CASE ~(i < Len(toBoard))
    <3>1. toBoard' = SubSeq(toBoard, 1, i - 1) BY <2>2
    <3>2. \A k \in DOMAIN toBoard' : k \in DOMAIN toBoard /\ toBoard'[k] = toBoard[k]
      BY <1>t, <3>1
    <3> QED BY <1>0, <1>f, <3>2
  <2> QED BY <2>1, <2>2
<1>8. ASSUME data_record \/ end_record \/ go_record \/ HelloOrBad \/ OtherReads
      PROVE  EndsAreImages'
  BY <1>3, <1>8 DEF data_record, end_record, go_record, HelloOrBad, getline, OtherReads
<1>9. ASSUME NEW i \in Images, Bootstrap(i) \/ BootstrapFails(i) \/ Attach(i)
      PROVE  EndsAreImages'
  BY <1>1, <1>2, <1>9 DEF Bootstrap, BootstrapFails, Attach
<1>10. ASSUME \/ RejectImage \/ Advance \/ Ignore \/ Timeout \/ GiveUp \/ Interrupt
              \/ ProgramStores \/ ProgramReturns \/ CorruptReply \/ UNCHANGED vars
       PROVE  EndsAreImages'
  BY <1>1, <1>10 DEF RejectImage, Advance, Ignore, Timeout, GiveUp, Interrupt, ProgramStores,
     ProgramReturns, CorruptReply, vars, line
<1> QED
  BY <1>5, <1>6, <1>7, <1>8, <1>9, <1>10 DEF Next, HostStep, LoaderStep

\* How a step touches what ImageInv speaks about beyond the line.
LoaderQuiet == UNCHANGED <<mem, stream_crc, finalized, memFaults>> /\ (pc' = "loader" => pc = "loader")

\* Of all steps, the ones that can disturb ImageInv.
LEMMA LoaderSteps ==
  ASSUME TypeOK, [Next]_vars
  PROVE  \/ pc' # "loader" /\ UNCHANGED <<stream_crc, finalized, memFaults>>
         \/ stream_crc' = <<>> /\ finalized' = FALSE
         \/ LoaderQuiet
         \/ ProgramReturns
         \/ getline("D") /\ (Store \/ ReadBackFails)
         \/ end_record
<1>1. CASE HostStep \/ Interrupt \/ UNCHANGED vars
  BY <1>1 DEF HostStep, SendHello, send_record, SendEnd, SendGo, Transmit, RejectImage, Advance,
     Ignore, Timeout, GiveUp, Interrupt, LoaderQuiet, vars, board
<1>2. CASE \E i \in Images : Bootstrap(i) \/ BootstrapFails(i) \/ Attach(i)
  BY <1>2 DEF Bootstrap, BootstrapFails, Attach, LoaderQuiet, board
<1>3. CASE data_record
  BY <1>3 DEF data_record, Duplicate, Refuse, LoaderQuiet, board
<1>4. CASE go_record \/ HelloOrBad \/ OtherReads \/ ProgramStores
  BY <1>4 DEF go_record, HelloOrBad, OtherReads, ProgramStores, LoaderQuiet, board
<1>5. CASE CorruptCommand \/ LoseNewline \/ CorruptReply
  BY <1>5 DEF CorruptCommand, LoseNewline, CorruptReply, LineFault, LoaderQuiet, board
<1> QED BY <1>1, <1>2, <1>3, <1>4, <1>5 DEF Next, LoaderStep

\* Both ways of handling a fresh record fold one entry and touch one cell.
LEMMA FoldedCell ==
  ASSUME TypeOK, getline("D"), Store \/ ReadBackFails
  PROVE  \E e \in Folded :
           /\ stream_crc' = Append(stream_crc, e)
           /\ e.data = NoData => ReadBackFails
           /\ \A a \in Addr : a # e.addr => mem'[a] = mem[a]
           /\ e.data \in {NoData, mem'[e.addr]}
<1>1. Line \in Commands BY HeadTailType DEF getline, Line, TypeOK
<1>2. Line.seq \in Seqs /\ Line.rec \in Record BY <1>1, CommandType DEF getline
<1>3. Line.rec.addr \in Addr /\ Line.rec.data \in Byte BY <1>2 DEF Record
<1>4. mem \in [Addr -> Byte] BY DEF TypeOK
<1>5. CASE Store
  <2> DEFINE e == Fold(Line.seq, Line.rec, Line.rec.data)
  <2>1. e \in Folded /\ e.addr = Line.rec.addr /\ e.data = Line.rec.data
    BY <1>2, <1>3 DEF Fold, Folded
  <2>2. e.data # NoData BY <1>3, <2>1, TE2Assumption DEF TE2Assumption
  <2>3. stream_crc' = Append(stream_crc, e) /\ mem' = [mem EXCEPT ![Line.rec.addr] = Line.rec.data]
    BY <1>5 DEF Store
  <2> HIDE DEF e
  <2> QED BY <1>3, <1>4, <2>1, <2>2, <2>3
<1>6. CASE ReadBackFails
  <2> DEFINE e == Fold(Line.seq, Line.rec, NoData)
  <2>1. e \in Folded /\ e.addr = Line.rec.addr /\ e.data = NoData
    BY <1>2, <1>3 DEF Fold, Folded
  <2>2. PICK b \in Byte : mem' = [mem EXCEPT ![Line.rec.addr] = b] BY <1>6 DEF ReadBackFails
  <2>3. stream_crc' = Append(stream_crc, e) BY <1>6 DEF ReadBackFails
  <2> HIDE DEF e
  <2> QED BY <1>3, <1>4, <1>6, <2>1, <2>2, <2>3
<1> QED BY <1>5, <1>6

\* A folded record is in memory until a later one is folded over it.
LEMMA MemoryNext == TypeOK /\ MemoryFollowsStream /\ [Next]_vars => MemoryFollowsStream'
<1> SUFFICES ASSUME TypeOK, MemoryFollowsStream, [Next]_vars, pc' = "loader", ~ProgramsReturn
             PROVE  MemoryFollowsStream'
  BY DEF MemoryFollowsStream
<1>1. CASE stream_crc' = <<>> BY <1>1 DEF MemoryFollowsStream
<1>2. CASE UNCHANGED <<mem, stream_crc>> /\ pc = "loader" BY <1>2 DEF MemoryFollowsStream
<1>3. CASE getline("D") /\ (Store \/ ReadBackFails)
  <2>1. PICK e \in Folded :
           /\ stream_crc' = Append(stream_crc, e)
           /\ \A a \in Addr : a # e.addr => mem'[a] = mem[a]
           /\ e.data \in {NoData, mem'[e.addr]}
    BY <1>3, FoldedCell
  <2>2. pc = "loader" /\ stream_crc \in Seq(Folded) BY <1>3 DEF getline, TypeOK
  <2>3. SUFFICES ASSUME NEW k \in DOMAIN stream_crc',
                        \A j \in DOMAIN stream_crc' : j > k => stream_crc'[j].addr # stream_crc'[k].addr
                 PROVE  stream_crc'[k].data \in {NoData, mem'[stream_crc'[k].addr]}
    BY DEF MemoryFollowsStream
  <2>4. CASE k = Len(stream_crc) + 1
    <3>1. stream_crc'[k] = e BY <2>1, <2>2, <2>4
    <3> QED BY <2>1, <3>1
  <2>5. CASE k # Len(stream_crc) + 1
    <3>1. /\ k \in DOMAIN stream_crc /\ stream_crc'[k] = stream_crc[k]
          /\ Len(stream_crc) + 1 \in DOMAIN stream_crc' /\ Len(stream_crc) + 1 > k
          /\ stream_crc'[Len(stream_crc) + 1] = e
      BY <2>1, <2>2, <2>5
    <3>2. \A j \in DOMAIN stream_crc : j \in DOMAIN stream_crc' /\ stream_crc'[j] = stream_crc[j]
      BY <2>1, <2>2
    <3>3. \A j \in DOMAIN stream_crc : j > k => stream_crc[j].addr # stream_crc[k].addr
      BY <2>3, <3>1, <3>2
    <3>4. stream_crc[k].data \in {NoData, mem[stream_crc[k].addr]}
      BY <2>2, <3>1, <3>3 DEF MemoryFollowsStream
    <3>5. stream_crc[k].addr \in Addr
      <4>1. stream_crc[k] \in Folded BY <2>2, <3>1
      <4> QED BY <4>1 DEF Folded
    <3>6. stream_crc[k].addr # e.addr BY <2>3, <3>1
    <3> QED BY <2>1, <3>1, <3>4, <3>5, <3>6
  <2> QED BY <2>4, <2>5
<1> QED BY <1>1, <1>2, <1>3, LoaderSteps DEF LoaderQuiet, ProgramReturns, end_record, getline

\* Only an E record makes the loader finalized; every folded record undoes it,
\* or, when the read-back fails, spoils the stream.
LEMMA FinalizedNext ==
  TypeOK /\ EndsAreImages /\ FinalizedIsStream /\ [Next]_vars => FinalizedIsStream'
<1> SUFFICES ASSUME TypeOK, EndsAreImages, FinalizedIsStream, [Next]_vars, finalized', Unspoilt'
             PROVE  \E i \in Images : stream_crc' = Stream(i.recs)
  BY DEF FinalizedIsStream
<1>1. CASE UNCHANGED <<stream_crc, finalized>> BY <1>1 DEF FinalizedIsStream, Unspoilt
<1>2. CASE getline("D") /\ (Store \/ ReadBackFails)
  <2>1. PICK e \in Folded : /\ stream_crc' = Append(stream_crc, e)
                            /\ e.data = NoData => ReadBackFails
    BY <1>2, FoldedCell
  <2>2. ReadBackFails BY <1>2 DEF Store
  <2>3. stream_crc' = Append(stream_crc, Fold(Line.seq, Line.rec, NoData))
    BY <2>2 DEF ReadBackFails
  <2>4. stream_crc \in Seq(Folded) BY DEF TypeOK
  <2>5. /\ Len(stream_crc) + 1 \in DOMAIN stream_crc'
        /\ stream_crc'[Len(stream_crc) + 1] = Fold(Line.seq, Line.rec, NoData)
    BY <2>3, <2>4
  <2>6. Fold(Line.seq, Line.rec, NoData).data = NoData BY DEF Fold
  <2> QED BY <2>5, <2>6 DEF Unspoilt
<1>3. CASE end_record
  <2>1. stream_crc' = stream_crc BY <1>3 DEF end_record
  <2>2. CASE UNCHANGED finalized BY <1>1, <2>1, <2>2
  <2>3. CASE Matches(Line)
    <3>1. toBoard \in Seq(Commands) /\ toBoard # <<>> /\ Line.cmd = "E"
      BY <1>3 DEF end_record, getline, TypeOK
    <3>2. 1 \in DOMAIN toBoard /\ Line = toBoard[1] BY <3>1 DEF Line
    <3> QED BY <2>1, <2>3, <3>1, <3>2 DEF EndsAreImages, Matches
  <2> QED BY <1>3, <2>2, <2>3 DEF end_record
<1> QED BY <1>1, <1>2, <1>3, LoaderSteps DEF LoaderQuiet, ProgramReturns

\* Without a failed store no stream is spoilt.
LEMMA UnspoiltNext ==
  TypeOK /\ (memFaults = 0 => Unspoilt) /\ [Next]_vars => (memFaults = 0 => Unspoilt)'
<1> SUFFICES ASSUME TypeOK, memFaults = 0 => Unspoilt, [Next]_vars, memFaults' = 0
             PROVE  Unspoilt'
  OBVIOUS
<1>1. CASE UNCHANGED <<stream_crc, memFaults>> BY <1>1 DEF Unspoilt
<1>2. CASE stream_crc' = <<>> BY <1>2 DEF Unspoilt
<1>3. CASE getline("D") /\ (Store \/ ReadBackFails)
  <2>1. PICK e \in Folded : /\ stream_crc' = Append(stream_crc, e)
                            /\ e.data = NoData => ReadBackFails
    BY <1>3, FoldedCell
  <2>2. memFaults \in Nat BY TE2Assumption DEF TypeOK, TE2Assumption
  <2>3. Store /\ memFaults = 0 /\ ~ReadBackFails
    BY <1>3, <2>2 DEF ReadBackFails, Store
  <2>4. stream_crc \in Seq(Folded) BY DEF TypeOK
  <2>5. \A k \in DOMAIN stream_crc' :
          stream_crc'[k] = e \/ (k \in DOMAIN stream_crc /\ stream_crc'[k] = stream_crc[k])
    BY <2>1, <2>4
  <2> QED BY <2>1, <2>3, <2>5 DEF Unspoilt
<1> QED BY <1>1, <1>2, <1>3, LoaderSteps DEF LoaderQuiet, ProgramReturns, end_record

\* The invariant holds before the first run.
LEMMA ImageInvInit == Init => ImageInv
  BY DEF Init, ImageInv, EndsAreImages, MemoryFollowsStream, FinalizedIsStream, Unspoilt

\* Every step preserves the invariant.
LEMMA ImageInvNext == TypeOK /\ ImageInv /\ [Next]_vars => ImageInv'
  BY EndsNext, MemoryNext, FinalizedNext, UnspoiltNext DEF ImageInv

\* Check sum, memory and finalized flag of the loader agree in every behaviour:
\* the inductive invariant from which the two theorems below follow.
THEOREM ImageInvariant == Spec => []ImageInv
  BY TypeCorrect, ImageInvInit, ImageInvNext, PTL DEF Spec

\* The checksum of an image determines the memory it leaves behind.
LEMMA StreamHolds ==
  ASSUME TypeOK, ImageInv, pc = "loader", ~ProgramsReturn,
         NEW i \in Images, stream_crc = Stream(i.recs)
  PROVE  Holds(mem, i.recs)
<1>1. i.recs \in Seq(Record) BY ImageType
<1>2. DOMAIN stream_crc = DOMAIN i.recs BY DEF Stream
<1>3. \A k \in DOMAIN i.recs : /\ stream_crc[k].addr = i.recs[k].addr
                              /\ stream_crc[k].data = i.recs[k].data
  BY DEF Stream, Fold
<1>4. \A k \in DOMAIN i.recs : i.recs[k].data # NoData
  <2>1. \A k \in DOMAIN i.recs : i.recs[k] \in Record BY <1>1
  <2> QED BY <2>1, TE2Assumption DEF TE2Assumption, Record
<1> QED BY <1>2, <1>3, <1>4 DEF Holds, ImageInv, MemoryFollowsStream

\* A finalized loader holds all of an image in memory, for any images, any
\* line faults, any number of runs that attach to it, any late answers.
THEOREM FinalizedCorrect == Spec => []FinalizedIsImage
<1>1. TypeOK /\ ImageInv => FinalizedIsImage
  BY StreamHolds DEF FinalizedIsImage, ImageInv, FinalizedIsStream
<1> QED BY <1>1, TypeCorrect, ImageInvariant, PTL

\* Only a G line that a final loader reads starts a program.
LEMMA LaunchIsGo ==
  ASSUME [Next]_vars, launches' # launches
  PROVE  /\ finalized /\ pc = "loader" /\ launch'.mem = mem
         /\ toBoard # <<>> /\ Line.cmd = "G"
<1>1. go_record
  BY DEF Next, HostStep, LoaderStep, Bootstrap, BootstrapFails, Attach, SendHello, send_record,
     SendEnd, SendGo, Transmit, RejectImage, Advance, Ignore, Timeout, GiveUp, Interrupt,
     data_record, Duplicate, Refuse, Store, ReadBackFails, end_record, HelloOrBad, OtherReads,
     ProgramStores, ProgramReturns, CorruptCommand, LoseNewline, CorruptReply, LineFault,
     vars, hist
<1> QED BY <1>1 DEF go_record, getline, MayJump, hist

\* With memory that takes every store, every jump lands on a whole image.
THEOREM JumpCorrect ==
  ASSUME MaxMemFaults = 0, ~ProgramsReturn
  PROVE  Spec => JumpOntoImage
<1>1. TypeOK /\ ImageInv /\ [Next]_vars
        => (launches' # launches => \E i \in Images : Holds(launch'.mem, i.recs))
  <2> SUFFICES ASSUME TypeOK, ImageInv, [Next]_vars, launches' # launches
               PROVE  \E i \in Images : Holds(launch'.mem, i.recs)
    OBVIOUS
  <2>2. finalized /\ pc = "loader" /\ launch'.mem = mem BY LaunchIsGo
  <2>3. Unspoilt BY DEF TypeOK, ImageInv
  <2>4. PICK i \in Images : stream_crc = Stream(i.recs)
    BY <2>2, <2>3 DEF ImageInv, FinalizedIsStream
  <2> QED BY <2>2, <2>4, StreamHolds
<1>2. [](TypeOK /\ ImageInv) /\ [][Next]_vars
        => [][launches' # launches => \E i \in Images : Holds(launch'.mem, i.recs)]_vars
  BY <1>1, PTL
<1> QED BY <1>2, TypeCorrect, ImageInvariant, PTL DEF Spec, JumpOntoImage

-----------------------------------------------------------------------------
(***************************************************************************)
(* What one run of te2 may conclude from the answers it gets.  The         *)
(* argument is about order: on a line that delivers in order, an answer    *)
(* that te2 waits for tells it what the loader has done with every command *)
(* sent before.                                                            *)
(***************************************************************************)

(* Lines of this run, under way to the board *)

Live == Active \cup {"terminal"}

NoRecord == \A k \in DOMAIN toBoard : toBoard[k].cmd # "D"

\* A D line carries a record of this run's image, in its place.
OfImage(c) ==
  \E n \in DOMAIN img.recs : c.seq = (n - 1) % SeqMod /\ c.rec = img.recs[n]

Records == \A k \in DOMAIN toBoard : toBoard[k].cmd = "D" => OfImage(toBoard[k])

Early == \A k \in DOMAIN toBoard : toBoard[k].cmd = "D" => phase \in {"data", "end"}

\* No record follows the final checksum.
Ends ==
  \A k \in DOMAIN toBoard : toBoard[k].cmd = "E" =>
    /\ phase \in {"end", "go", "terminal"} /\ toBoard[k].crc = Stream(img.recs)
    /\ \A j \in DOMAIN toBoard : j > k => toBoard[j].cmd # "D"

Gos == \A k \in DOMAIN toBoard : toBoard[k].cmd = "G" => phase \in {"go", "terminal"}

-----------------------------------------------------------------------------
(* Answers of this run, under way to the host *)

\* The loader has found the image whole, and nothing that is on its way changes it.
Settled == finalized /\ stream_crc = Stream(img.recs) /\ NoRecord

\* The board has jumped, with the image in memory.
Launched == pc = "program" /\ Holds(launch.mem, img.recs)

Replies ==
  \A k \in DOMAIN toHost :
    /\ toHost[k].rsp = "F" => Settled /\ phase \in {"end", "go", "terminal"}
    /\ toHost[k].rsp = "J" => Launched /\ launch.addr = toHost[k].addr

Believed ==
  /\ phase \in {"go", "terminal"} => Settled
  /\ phase = "terminal" => Launched /\ launch.addr = img.entry

\* The inductive invariant of a run that no earlier run's lines disturb.
SessionInv == alone /\ phase \in Live => Early /\ Ends /\ Gos /\ Replies /\ Believed

-----------------------------------------------------------------------------
(* What a step does to the commands under way *)

\* Commands keep their order; some are gone, some garbled.
Thinned ==
  \E f \in [DOMAIN toBoard' -> DOMAIN toBoard] :
    /\ \A j, k \in DOMAIN toBoard' : j < k => f[j] < f[k]
    /\ \A k \in DOMAIN toBoard' :
         \/ toBoard'[k] = toBoard[f[k]]
         \/ toBoard'[k].cmd = "bad"
         \/ toBoard'[k].cmd = "G" /\ toBoard[f[k]].cmd = "G"

\* The lines of both directions are numbered from 1.
LEMMA TypeSeqs ==
  ASSUME TypeOK, TypeOK'
  PROVE  /\ DOMAIN toBoard = 1 .. Len(toBoard) /\ Len(toBoard) \in Nat
         /\ DOMAIN toBoard' = 1 .. Len(toBoard') /\ Len(toBoard') \in Nat
         /\ DOMAIN toHost = 1 .. Len(toHost) /\ Len(toHost) \in Nat
<1>1. toBoard \in Seq(Commands) /\ toHost \in Seq(Responses) BY DEF TypeOK
<1>2. toBoard' \in Seq(Commands) BY DEF TypeOK
<1> QED BY <1>1, <1>2

LEMMA SameThinned == ASSUME TypeOK, UNCHANGED toBoard PROVE Thinned
<1> DEFINE f == [k \in DOMAIN toBoard |-> k]
<1>1. toBoard \in Seq(Commands) BY DEF TypeOK
<1>2. f \in [DOMAIN toBoard' -> DOMAIN toBoard] OBVIOUS
<1>3. \A j, k \in DOMAIN toBoard' : j < k => f[j] < f[k] OBVIOUS
<1>4. \A k \in DOMAIN toBoard' : toBoard'[k] = toBoard[f[k]] OBVIOUS
<1> QED BY <1>2, <1>3, <1>4 DEF Thinned

\* The board takes a command.
LEMMA TailThinned ==
  ASSUME TypeOK, toBoard # <<>>, toBoard' = Tail(toBoard)
  PROVE  Thinned
<1>1. toBoard \in Seq(Commands) BY DEF TypeOK
<1> DEFINE f == [k \in DOMAIN toBoard' |-> k + 1]
<1>2. \A k \in DOMAIN toBoard' :
        k \in Nat /\ k + 1 \in DOMAIN toBoard /\ toBoard'[k] = toBoard[k + 1]
  BY <1>1
<1>3. f \in [DOMAIN toBoard' -> DOMAIN toBoard] BY <1>2
<1>4. \A j, k \in DOMAIN toBoard' : j < k => f[j] < f[k] BY <1>2
<1>5. \A k \in DOMAIN toBoard' : toBoard'[k] = toBoard[f[k]] BY <1>2
<1> HIDE DEF f
<1> QED BY <1>3, <1>4, <1>5 DEF Thinned

\* A command is garbled.
LEMMA CorruptThinned == ASSUME TypeOK, CorruptCommand PROVE Thinned
<1>1. toBoard \in Seq(Commands) BY DEF TypeOK
<1>2. PICK i \in DOMAIN toBoard :
        \E c \in {Bad} \cup (IF toBoard[i].cmd = "G" THEN GoLine ELSE {}) :
          toBoard' = [toBoard EXCEPT ![i] = c]
  BY DEF CorruptCommand
<1>3. PICK c \in {Bad} \cup (IF toBoard[i].cmd = "G" THEN GoLine ELSE {}) :
        toBoard' = [toBoard EXCEPT ![i] = c]
  BY <1>2
<1>4. c.cmd = "bad" \/ (c.cmd = "G" /\ toBoard[i].cmd = "G")
  BY <1>3 DEF Bad, GoLine
<1>5. DOMAIN toBoard' = DOMAIN toBoard BY <1>1, <1>3
<1>6. \A k \in DOMAIN toBoard' : toBoard'[k] = toBoard[k] \/ (k = i /\ toBoard'[k] = c)
  BY <1>1, <1>3
<1> DEFINE f == [k \in DOMAIN toBoard |-> k]
<1>7. f \in [DOMAIN toBoard' -> DOMAIN toBoard] BY <1>5
<1>8. \A j, k \in DOMAIN toBoard' : j < k => f[j] < f[k] BY <1>5
<1>9. \A k \in DOMAIN toBoard' :
         \/ toBoard'[k] = toBoard[f[k]]
         \/ toBoard'[k].cmd = "bad"
         \/ toBoard'[k].cmd = "G" /\ toBoard[f[k]].cmd = "G"
  BY <1>4, <1>5, <1>6
<1> HIDE DEF f
<1> QED BY <1>7, <1>8, <1>9 DEF Thinned

\* A lost newline joins two commands, or takes the last one off the line.
LEMMA LoseThinned == ASSUME TypeOK, LoseNewline PROVE Thinned
<1>t. toBoard \in Seq(Commands) BY DEF TypeOK
<1> PICK i \in DOMAIN toBoard :
      IF i < Len(toBoard)
      THEN toBoard' = [SubSeq(toBoard, 1, i) \o SubSeq(toBoard, i + 2, Len(toBoard))
                         EXCEPT ![i] = Bad]
      ELSE toBoard' = SubSeq(toBoard, 1, i - 1)
  BY DEF LoseNewline
<1>1. CASE i < Len(toBoard)
  <2> DEFINE a == SubSeq(toBoard, 1, i)
             b == SubSeq(toBoard, i + 2, Len(toBoard))
             s == a \o b
  <2>1. a \in Seq(Commands) /\ Len(a) = i /\ \A k \in 1 .. i : a[k] = toBoard[k]
    BY <1>t, LinesBefore
  <2>2. b \in Seq(Commands) /\ Len(b) = Len(toBoard) - i - 1
          /\ \A k \in 1 .. Len(b) : b[k] = toBoard[k + i + 1]
    BY <1>t, <1>1, LinesAfter
  <2>3. toBoard' = [s EXCEPT ![i] = Bad] BY <1>1
  <2> HIDE DEF a, b
  <2>4. i \in Nat /\ Len(toBoard) \in Nat /\ s \in Seq(Commands) /\ Len(s) = Len(toBoard) - 1
    BY <1>t, <2>1, <2>2
  <2>5. ASSUME NEW k \in DOMAIN s
        PROVE  IF k <= i THEN s[k] = toBoard[k] ELSE s[k] = toBoard[k + 1]
    <3>1. \/ k \in 1 .. i /\ s[k] = a[k]
          \/ k - i \in 1 .. Len(b) /\ s[k] = b[k - i]
      BY <2>1, <2>2, ConcatElement
    <3>2. CASE k \in 1 .. i /\ s[k] = a[k] BY <2>1, <3>2
    <3>3. CASE k - i \in 1 .. Len(b) /\ s[k] = b[k - i]
      <4>1. k \in Nat /\ k > i
        <5>1. k \in 1 .. Len(s) /\ Len(s) \in Nat BY <2>4
        <5>2. k - i >= 1 BY <2>2, <3>3
        <5> HIDE DEF s
        <5> QED BY <2>4, <5>1, <5>2
      <4>2. b[k - i] = toBoard[(k - i) + i + 1] BY <2>2, <3>3
      <4> QED BY <2>4, <3>3, <4>1, <4>2
    <3> QED BY <3>1, <3>2, <3>3
  <2> DEFINE f == [k \in DOMAIN toBoard' |-> IF k <= i THEN k ELSE k + 1]
  <2> HIDE DEF s
  <2>6. DOMAIN toBoard' = 1 .. Len(toBoard) - 1 /\ DOMAIN toBoard = 1 .. Len(toBoard)
          /\ DOMAIN s = DOMAIN toBoard'
    BY <1>t, <2>3, <2>4
  <2>7. f \in [DOMAIN toBoard' -> DOMAIN toBoard] BY <1>1, <2>4, <2>6
  <2>8. \A j, k \in DOMAIN toBoard' : j < k => f[j] < f[k] BY <2>4, <2>6
  <2>9. \A k \in DOMAIN toBoard' : toBoard'[k] = toBoard[f[k]] \/ toBoard'[k].cmd = "bad"
    <3>1. \A k \in DOMAIN toBoard' : toBoard'[k] \in {s[k], Bad} BY <2>3, <2>4, <2>6
    <3>2. \A k \in DOMAIN toBoard' : s[k] = toBoard[f[k]] BY <2>4, <2>5, <2>6
    <3>3. Bad.cmd = "bad" BY DEF Bad
    <3> HIDE DEF f
    <3> QED BY <3>1, <3>2, <3>3
  <2> HIDE DEF f
  <2> QED BY <2>7, <2>8, <2>9 DEF Thinned
<1>2. CASE ~(i < Len(toBoard))
  <2>1. toBoard' = SubSeq(toBoard, 1, i - 1) BY <1>2
  <2>2. \A k \in DOMAIN toBoard' : k \in DOMAIN toBoard /\ toBoard'[k] = toBoard[k]
    BY <1>t, <2>1
  <2> DEFINE f == [k \in DOMAIN toBoard' |-> k]
  <2>3. f \in [DOMAIN toBoard' -> DOMAIN toBoard] BY <2>2
  <2>4. \A j, k \in DOMAIN toBoard' : j < k => f[j] < f[k] OBVIOUS
  <2>5. \A k \in DOMAIN toBoard' : toBoard'[k] = toBoard[f[k]] BY <2>2
  <2> HIDE DEF f
  <2> QED BY <2>3, <2>4, <2>5 DEF Thinned
<1> QED BY <1>1, <1>2

-----------------------------------------------------------------------------
(* What the host may conclude from F and J *)

\* The answers the invariant speaks about are all old ones.
NoNews ==
  \A k \in DOMAIN toHost' :
    toHost'[k].rsp \in {"F", "J"} => \E j \in DOMAIN toHost : toHost[j] = toHost'[k]

LEMMA SameNoNews == ASSUME UNCHANGED toHost PROVE NoNews
  BY DEF NoNews

LEMMA TailNoNews ==
  ASSUME TypeOK, toHost # <<>>, toHost' = Tail(toHost)
  PROVE  NoNews
<1>1. toHost \in Seq(Responses) BY DEF TypeOK
<1>2. \A k \in DOMAIN toHost' : k + 1 \in DOMAIN toHost /\ toHost'[k] = toHost[k + 1] BY <1>1
<1> QED BY <1>2 DEF NoNews

LEMMA AppendNoNews ==
  ASSUME TypeOK, NEW r \in Responses, r.rsp \notin {"F", "J"}, toHost' = Append(toHost, r)
  PROVE  NoNews
<1>1. toHost \in Seq(Responses) BY DEF TypeOK
<1>2. \A k \in DOMAIN toHost' :
        toHost'[k] = r \/ (k \in DOMAIN toHost /\ toHost'[k] = toHost[k])
  BY <1>1
<1> QED BY <1>2 DEF NoNews

LEMMA CorruptNoNews == ASSUME TypeOK, CorruptReply PROVE NoNews
<1>1. toHost \in Seq(Responses) BY DEF TypeOK
<1>2. PICK i \in DOMAIN toHost, r \in {Nack} \cup {Ack(s) : s \in Seqs} :
        toHost' = [toHost EXCEPT ![i] = r]
  BY DEF CorruptReply
<1>3. r.rsp \notin {"F", "J"} BY <1>2 DEF Nack, Ack
<1>4. \A k \in DOMAIN toHost' :
        toHost'[k] = r \/ (k \in DOMAIN toHost /\ toHost'[k] = toHost[k])
  BY <1>1, <1>2
<1> QED BY <1>3, <1>4 DEF NoNews

\* No answer worth believing is an acknowledgement, a refusal or a greeting.
LEMMA QuietAnswers ==
  /\ \A s \in Seqs : Ack(s) \in Responses /\ Ack(s).rsp = "A"
  /\ Nack \in Responses /\ Nack.rsp = "N"
  /\ ReadyMsg \in Responses /\ ReadyMsg.rsp = "READY"
  BY DEF Responses, Ack, Nack, ReadyMsg

\* A step that sends nothing new and leaves the loader's verdict alone.
LEMMA SessionKept ==
  ASSUME TypeOK, TypeOK', SessionInv, Thinned, NoNews,
         UNCHANGED <<phase, alone, img, pc, launch, stream_crc, finalized>>
  PROVE  SessionInv'
<1> SUFFICES ASSUME alone, phase \in Live
             PROVE  Early' /\ Ends' /\ Gos' /\ Replies' /\ Believed'
  BY DEF SessionInv, Live
<1>0. Early /\ Ends /\ Gos /\ Replies /\ Believed BY DEF SessionInv
<1>1. PICK f \in [DOMAIN toBoard' -> DOMAIN toBoard] :
         /\ \A j, k \in DOMAIN toBoard' : j < k => f[j] < f[k]
         /\ \A k \in DOMAIN toBoard' :
              \/ toBoard'[k] = toBoard[f[k]]
              \/ toBoard'[k].cmd = "bad"
              \/ toBoard'[k].cmd = "G" /\ toBoard[f[k]].cmd = "G"
  BY DEF Thinned
<1>2. \A k \in DOMAIN toBoard' : f[k] \in DOMAIN toBoard OBVIOUS
<1>3. \A k \in DOMAIN toBoard' :
        toBoard'[k].cmd \in {"D", "E"} => toBoard'[k] = toBoard[f[k]]
  BY <1>1
<1>4. Early' BY <1>0, <1>2, <1>3 DEF Early
<1>5. Ends'
  <2> SUFFICES ASSUME NEW k \in DOMAIN toBoard', toBoard'[k].cmd = "E"
               PROVE  /\ phase \in {"end", "go", "terminal"}
                      /\ toBoard'[k].crc = Stream(img.recs)
                      /\ \A j \in DOMAIN toBoard' : j > k => toBoard'[j].cmd # "D"
    BY DEF Ends
  <2>1. toBoard'[k] = toBoard[f[k]] /\ f[k] \in DOMAIN toBoard BY <1>2, <1>3
  <2>2. ASSUME NEW j \in DOMAIN toBoard', j > k, toBoard'[j].cmd = "D" PROVE FALSE
    <3>1. toBoard'[j] = toBoard[f[j]] /\ f[j] \in DOMAIN toBoard BY <1>2, <1>3, <2>2
    <3>2. f[j] > f[k]
      <4>1. j \in Nat /\ k \in Nat /\ f[j] \in Nat /\ f[k] \in Nat
        BY <2>1, <3>1, TypeSeqs
      <4>2. k < j BY <2>2, <4>1
      <4> QED BY <1>1, <4>1, <4>2
    <3> QED BY <1>0, <2>1, <2>2, <3>1, <3>2 DEF Ends
  <2> QED BY <1>0, <2>1, <2>2 DEF Ends
<1>6. Gos' BY <1>0, <1>1, <1>2 DEF Gos
<1>7. NoRecord => NoRecord' BY <1>2, <1>3 DEF NoRecord
<1>8. Settled => Settled' BY <1>7 DEF Settled
<1>9. Launched => Launched' BY DEF Launched
<1>10. Replies'
  <2> SUFFICES ASSUME NEW k \in DOMAIN toHost', toHost'[k].rsp \in {"F", "J"}
               PROVE  /\ toHost'[k].rsp = "F" => Settled' /\ phase \in {"end", "go", "terminal"}
                      /\ toHost'[k].rsp = "J" => Launched' /\ launch.addr = toHost'[k].addr
    BY DEF Replies
  <2>1. PICK j \in DOMAIN toHost : toHost[j] = toHost'[k] BY DEF NoNews
  <2> QED BY <1>0, <1>8, <1>9, <2>1 DEF Replies
<1>11. Believed' BY <1>0, <1>8, <1>9 DEF Believed
<1> QED BY <1>4, <1>5, <1>6, <1>10, <1>11

\* Before anything is on its way, a run has nothing to be wrong about.
LEMMA SessionFresh ==
  ASSUME toHost' = <<>>, alone' => toBoard' = <<>>, phase' \notin {"go", "terminal"}
  PROVE  SessionInv'
  BY DEF SessionInv, Early, Ends, Gos, Replies, Believed

\* A run that has ended concludes nothing more.
LEMMA SessionOver == ASSUME phase' \in {"off", "dead", "killed"} PROVE SessionInv'
  BY DEF SessionInv, Live, Active

\* The host sends a command that its phase allows.
LEMMA SessionTransmit ==
  ASSUME TypeOK, TypeOK', SessionInv, NEW c \in Commands, NEW limit, Transmit(c, limit),
         c.cmd = "D" => phase = "data",
         c.cmd = "E" => phase = "end" /\ c.crc = Stream(img.recs),
         c.cmd = "G" => phase = "go"
  PROVE  SessionInv'
<1>1. UNCHANGED <<phase, alone, img, pc, launch, stream_crc, finalized, toHost>>
  BY DEF Transmit, session, board, hist
<1>2. CASE UNCHANGED toBoard
  BY <1>1, <1>2, SameThinned, SameNoNews, SessionKept
<1>3. CASE toBoard' = Append(toBoard, IF ragged THEN Bad ELSE c)
  <2> DEFINE b == IF ragged THEN Bad ELSE c
             n == Len(toBoard) + 1
  <2>1. toBoard \in Seq(Commands) BY DEF TypeOK
  <2>2. /\ b.cmd = "D" => phase = "data"
        /\ b.cmd = "E" => phase = "end" /\ b.crc = Stream(img.recs)
        /\ b.cmd = "G" => phase = "go"
    BY DEF Bad
  <2>3. toBoard' = Append(toBoard, b) BY <1>3
  <2> HIDE DEF b
  <2>4. \A k \in DOMAIN toBoard' :
          \/ k = n /\ toBoard'[k] = b
          \/ k \in DOMAIN toBoard /\ toBoard'[k] = toBoard[k] /\ k < n
    BY <2>1, <2>3
  <2> SUFFICES ASSUME alone, phase \in Live
               PROVE  Early' /\ Ends' /\ Gos' /\ Replies' /\ Believed'
    BY <1>1 DEF SessionInv, Live
  <2>5. Early /\ Ends /\ Gos /\ Replies /\ Believed BY DEF SessionInv
  <2>6. n \in Nat BY <2>1
  <2> HIDE DEF n
  <2>7. Early' BY <1>1, <2>2, <2>4, <2>5 DEF Early
  <2>8. Ends'
    <3> SUFFICES ASSUME NEW k \in DOMAIN toBoard', toBoard'[k].cmd = "E"
                 PROVE  /\ phase \in {"end", "go", "terminal"}
                        /\ toBoard'[k].crc = Stream(img.recs)
                        /\ \A j \in DOMAIN toBoard' : j > k => toBoard'[j].cmd # "D"
      BY <1>1 DEF Ends
    <3>1. \/ k = n /\ toBoard'[k] = b
          \/ k \in DOMAIN toBoard /\ toBoard'[k] = toBoard[k]
      BY <2>4
    <3>2. CASE k = n /\ toBoard'[k] = b
      <4>1. \A j \in DOMAIN toBoard' : ~(j > k)
        <5>1. \A j \in DOMAIN toBoard' : j = n \/ j < n BY <2>4
        <5>2. DOMAIN toBoard' = 1 .. Len(toBoard') BY TypeSeqs
        <5> QED BY <2>6, <3>2, <5>1, <5>2
      <4> QED BY <2>2, <3>2, <4>1
    <3>3. CASE k \in DOMAIN toBoard /\ toBoard'[k] = toBoard[k]
      <4>1. phase \in {"end", "go", "terminal"} /\ toBoard[k].crc = Stream(img.recs)
              /\ \A j \in DOMAIN toBoard : j > k => toBoard[j].cmd # "D"
        BY <2>5, <3>3 DEF Ends
      <4>2. b.cmd # "D" BY <2>2, <4>1
      <4> QED BY <2>4, <3>3, <4>1, <4>2
    <3> QED BY <3>1, <3>2, <3>3
  <2>9. Gos' BY <1>1, <2>2, <2>4, <2>5 DEF Gos
  <2>10. phase \in {"end", "go", "terminal"} /\ NoRecord => NoRecord'
    BY <2>2, <2>4 DEF NoRecord
  <2>11. phase \in {"end", "go", "terminal"} /\ Settled => Settled'
    BY <1>1, <2>10 DEF Settled
  <2>12. Launched => Launched' BY <1>1 DEF Launched
  <2>13. Replies' BY <1>1, <2>5, <2>11, <2>12 DEF Replies
  <2>14. Believed' BY <1>1, <2>5, <2>11, <2>12 DEF Believed
  <2> QED BY <2>7, <2>8, <2>9, <2>13, <2>14
<1> QED BY <1>2, <1>3 DEF Transmit

\* The host reads the answer it waits for.
LEMMA SessionAdvance == ASSUME TypeOK, SessionInv, Advance PROVE SessionInv'
<1>1. /\ UNCHANGED <<alone, img, pc, launch, stream_crc, finalized, toBoard>>
      /\ toHost # <<>> /\ toHost' = Tail(toHost) /\ Head(toHost) = Expected
  BY DEF Advance, session, board, hist
<1>2. NoNews BY <1>1, TailNoNews
<1> SUFFICES ASSUME alone PROVE Early' /\ Ends' /\ Gos' /\ Replies' /\ Believed'
  BY <1>1 DEF SessionInv
<1>3. phase \in Live BY DEF Advance, Live
<1>4. Early /\ Ends /\ Gos /\ Replies /\ Believed BY <1>3 DEF SessionInv
<1>5. \/ phase \in {"attach", "data"} /\ phase' \in {"data", "end"}
      \/ phase = "end" /\ phase' = "go"
      \/ phase = "go" /\ phase' = "terminal"
  BY DEF Advance, AfterRecords
<1>6. toHost \in Seq(Responses) BY DEF TypeOK
<1>7. 1 \in DOMAIN toHost /\ toHost[1] = Expected BY <1>1, <1>6
<1>8. Settled' = Settled /\ Launched' = Launched BY <1>1 DEF Settled, Launched, NoRecord
<1>9. phase = "end" => Settled
  <2>1. phase = "end" => Expected.rsp = "F" BY DEF Expected, Final
  <2> QED BY <1>4, <1>7, <2>1 DEF Replies
<1>10. phase = "go" => Settled /\ Launched /\ launch.addr = img.entry
  <2>1. phase = "go" => Expected.rsp = "J" /\ Expected.addr = img.entry BY DEF Expected, Jump
  <2> QED BY <1>4, <1>7, <2>1 DEF Replies, Believed
<1>11. Early' BY <1>1, <1>4, <1>5, <1>9, <1>10 DEF Early, Settled, NoRecord
<1>12. Ends' BY <1>1, <1>4, <1>5 DEF Ends
<1>13. Gos' BY <1>1, <1>4, <1>5 DEF Gos
<1>14. Replies'
  <2> SUFFICES ASSUME NEW k \in DOMAIN toHost', toHost'[k].rsp \in {"F", "J"}
               PROVE  /\ toHost'[k].rsp = "F" => Settled /\ phase' \in {"end", "go", "terminal"}
                      /\ toHost'[k].rsp = "J" => Launched /\ launch.addr = toHost'[k].addr
    BY <1>1, <1>8 DEF Replies
  <2>1. PICK j \in DOMAIN toHost : toHost[j] = toHost'[k] BY <1>2 DEF NoNews
  <2> QED BY <1>4, <1>5, <2>1 DEF Replies
<1>15. Believed' BY <1>1, <1>5, <1>8, <1>9, <1>10 DEF Believed
<1> QED BY <1>11, <1>12, <1>13, <1>14, <1>15

\* The command the board takes is the first on the line.
LEMMA FirstLine ==
  ASSUME TypeOK, NEW cmd, getline(cmd)
  PROVE  /\ 1 \in DOMAIN toBoard /\ Line = toBoard[1] /\ Line.cmd = cmd /\ Line \in Commands
         /\ pc = "loader" /\ toBoard # <<>> /\ toBoard' = Tail(toBoard)
         /\ \A k \in DOMAIN toBoard' :
              k + 1 \in DOMAIN toBoard /\ k + 1 > 1 /\ toBoard'[k] = toBoard[k + 1]
         /\ UNCHANGED host
<1>1. toBoard \in Seq(Commands) BY DEF TypeOK
<1>2. toBoard # <<>> /\ toBoard' = Tail(toBoard) BY DEF getline
<1>3. 1 \in DOMAIN toBoard /\ Line = toBoard[1] /\ Line \in Commands BY <1>1, <1>2 DEF Line
<1>4. \A k \in DOMAIN toBoard' :
        k + 1 \in DOMAIN toBoard /\ k + 1 > 1 /\ toBoard'[k] = toBoard[k + 1]
  BY <1>1, <1>2
<1> QED BY <1>2, <1>3, <1>4 DEF getline

\* A record is taken: the loader's verdict can change, but none was given yet.
LEMMA SessionRecord ==
  ASSUME TypeOK, TypeOK', SessionInv, getline("D"), Store \/ ReadBackFails
  PROVE  SessionInv'
<1>1. /\ UNCHANGED <<phase, alone, img, pc, launch>> /\ pc = "loader"
      /\ 1 \in DOMAIN toBoard /\ toBoard[1].cmd = "D" /\ toBoard' = Tail(toBoard) /\ toBoard # <<>>
  BY FirstLine DEF Store, ReadBackFails, host, session, hist
<1> SUFFICES ASSUME alone, phase \in Live
             PROVE  Early' /\ Ends' /\ Gos' /\ Replies' /\ Believed'
  BY <1>1 DEF SessionInv, Live
<1>2. Early /\ Ends /\ Gos /\ Replies /\ Believed BY DEF SessionInv
<1>3. phase \in {"data", "end"} BY <1>1, <1>2 DEF Early
<1>4. ~Settled /\ ~Launched BY <1>1 DEF Settled, NoRecord, Launched
<1>5. \A k \in DOMAIN toBoard' :
        k + 1 \in DOMAIN toBoard /\ toBoard'[k] = toBoard[k + 1]
  BY FirstLine
<1>6. Early' BY <1>1, <1>2, <1>5 DEF Early
<1>7. Ends'
  <2> SUFFICES ASSUME NEW k \in DOMAIN toBoard', toBoard'[k].cmd = "E"
               PROVE  /\ phase \in {"end", "go", "terminal"}
                      /\ toBoard'[k].crc = Stream(img.recs)
                      /\ \A j \in DOMAIN toBoard' : j > k => toBoard'[j].cmd # "D"
    BY <1>1 DEF Ends
  <2>1. /\ phase \in {"end", "go", "terminal"} /\ toBoard[k + 1].crc = Stream(img.recs)
        /\ \A j \in DOMAIN toBoard : j > k + 1 => toBoard[j].cmd # "D"
    BY <1>2, <1>5 DEF Ends
  <2>2. \A j \in DOMAIN toBoard' : j > k => j + 1 > k + 1
    BY TypeSeqs
  <2> QED BY <1>5, <2>1, <2>2
<1>8. Gos' BY <1>1, <1>2, <1>5 DEF Gos
<1>9. \A k \in DOMAIN toHost : toHost[k].rsp \notin {"F", "J"} BY <1>2, <1>4 DEF Replies
<1>10. \E r \in Responses : r.rsp \notin {"F", "J"} /\ toHost' = Append(toHost, r)
  <2>1. Line.seq \in Seqs BY FirstLine, CommandType
  <2> QED BY <2>1, QuietAnswers DEF Store, ReadBackFails, Answer
<1>11. NoNews BY <1>10, AppendNoNews
<1>12. Replies'
  <2>1. \A k \in DOMAIN toHost' : toHost'[k].rsp \notin {"F", "J"} BY <1>9, <1>11 DEF NoNews
  <2> QED BY <2>1 DEF Replies
<1>13. Believed' BY <1>1, <1>3 DEF Believed
<1> QED BY <1>6, <1>7, <1>8, <1>12, <1>13

\* The final checksum matches: from here on the loader's verdict is this image's.
LEMMA SessionEnd ==
  ASSUME TypeOK, TypeOK', SessionInv, end_record
  PROVE  SessionInv'
<1>1. /\ getline("E") /\ UNCHANGED <<phase, alone, img, pc, launch, stream_crc>>
      /\ 1 \in DOMAIN toBoard /\ Line = toBoard[1] /\ toBoard[1].cmd = "E"
      /\ toBoard' = Tail(toBoard) /\ toBoard # <<>>
  BY FirstLine DEF end_record, host, session, hist
<1>2. \A k \in DOMAIN toBoard' :
        k + 1 \in DOMAIN toBoard /\ k + 1 > 1 /\ toBoard'[k] = toBoard[k + 1]
  BY <1>1, FirstLine
<1>3. CASE ~Matches(Line)
  <2>1. UNCHANGED finalized /\ toHost' = Append(toHost, Nack)
    BY <1>3 DEF end_record, Answer
  <2>2. NoNews BY <2>1, QuietAnswers, AppendNoNews
  <2> QED BY <1>1, <2>1, <2>2, TailThinned, SessionKept
<1>4. CASE Matches(Line) /\ finalized' = TRUE /\ Answer(Final(Line.seq))
  <2> SUFFICES ASSUME alone, phase \in Live
               PROVE  Early' /\ Ends' /\ Gos' /\ Replies' /\ Believed'
    BY <1>1 DEF SessionInv, Live
  <2>1. Early /\ Ends /\ Gos /\ Replies /\ Believed BY DEF SessionInv
  <2>2. /\ phase \in {"end", "go", "terminal"} /\ Line.crc = Stream(img.recs)
        /\ \A j \in DOMAIN toBoard : j > 1 => toBoard[j].cmd # "D"
    BY <1>1, <2>1 DEF Ends
  <2>3. Settled' BY <1>1, <1>2, <1>4, <2>2 DEF Settled, NoRecord, Matches
  <2>4. Early' BY <1>2, <2>2 DEF Early
  <2>5. Ends'
    <3>1. \A k \in DOMAIN toBoard' : toBoard'[k].cmd = "E" => toBoard'[k].crc = Stream(img.recs)
      BY <1>2, <2>1 DEF Ends
    <3> QED BY <1>1, <1>2, <2>2, <3>1 DEF Ends
  <2>6. Gos' BY <1>1, <1>2, <2>1 DEF Gos
  <2>7. Launched' = Launched BY <1>1 DEF Launched
  <2>8. Replies'
    <3>1. toHost \in Seq(Responses) BY DEF TypeOK
    <3>2. \A k \in DOMAIN toHost' :
            \/ toHost'[k] = Final(Line.seq)
            \/ k \in DOMAIN toHost /\ toHost'[k] = toHost[k]
      BY <1>4, <3>1 DEF Answer
    <3>3. Final(Line.seq).rsp = "F" BY DEF Final
    <3> QED BY <1>1, <2>1, <2>2, <2>3, <2>7, <3>2, <3>3 DEF Replies
  <2>9. Believed' BY <1>1, <2>1, <2>3, <2>7 DEF Believed
  <2> QED BY <2>4, <2>5, <2>6, <2>8, <2>9
<1> QED BY <1>3, <1>4 DEF end_record

\* The board jumps: G was sent only after this run believed the verdict, so the
\* image is in memory.
LEMMA SessionGo ==
  ASSUME TypeOK, TypeOK', ImageInv, SessionInv, ~ProgramsReturn, go_record
  PROVE  SessionInv'
<1>1. /\ getline("G") /\ UNCHANGED <<phase, alone, img, stream_crc, finalized>>
      /\ 1 \in DOMAIN toBoard /\ Line = toBoard[1] /\ toBoard[1].cmd = "G" /\ pc = "loader"
      /\ toBoard' = Tail(toBoard) /\ toBoard # <<>>
  BY FirstLine DEF go_record, host, session
<1>2. CASE ~MayJump(Line)
  <2>1. UNCHANGED <<pc, launch>> /\ toHost' = Append(toHost, Nack)
    BY <1>2 DEF go_record, Answer, hist
  <2>2. NoNews BY <2>1, QuietAnswers, AppendNoNews
  <2> QED BY <1>1, <2>1, <2>2, TailThinned, SessionKept
<1>3. CASE MayJump(Line)
  <2>1. /\ toHost' = Append(toHost, Jump(Line.addr)) /\ pc' = "program"
        /\ launch' = [addr |-> Line.addr, mem |-> mem]
    BY <1>3 DEF go_record, Answer
  <2> SUFFICES ASSUME alone, phase \in Live
               PROVE  Early' /\ Ends' /\ Gos' /\ Replies' /\ Believed'
    BY <1>1 DEF SessionInv, Live
  <2>2. Early /\ Ends /\ Gos /\ Replies /\ Believed BY DEF SessionInv
  <2>3. phase \in {"go", "terminal"} /\ ~Launched BY <1>1, <2>2 DEF Gos, Launched
  <2>4. phase = "go" /\ Settled BY <2>2, <2>3 DEF Believed
  <2>5. Holds(mem, img.recs)
    <3>1. img \in Images BY DEF TypeOK
    <3> QED BY <1>1, <2>4, <3>1, StreamHolds DEF Settled
  <2>6. Launched' BY <1>1, <2>1, <2>5 DEF Launched
  <2>7. \A k \in DOMAIN toBoard' : k + 1 \in DOMAIN toBoard /\ toBoard'[k] = toBoard[k + 1]
    BY <1>1, FirstLine
  <2>8. NoRecord' BY <2>4, <2>7 DEF Settled, NoRecord
  <2>9. Settled' BY <1>1, <2>4, <2>8 DEF Settled
  <2>10. Early' BY <2>8 DEF Early, NoRecord
  <2>11. Ends' BY <1>1, <2>2, <2>4, <2>7, <2>8 DEF Ends, NoRecord
  <2>12. Gos' BY <1>1, <2>4 DEF Gos
  <2>13. Replies'
    <3>1. toHost \in Seq(Responses) BY DEF TypeOK
    <3>2. \A k \in DOMAIN toHost' :
            \/ toHost'[k] = Jump(Line.addr)
            \/ k \in DOMAIN toHost /\ toHost'[k] = toHost[k]
      BY <2>1, <3>1
    <3>3. Jump(Line.addr).rsp = "J" /\ Jump(Line.addr).addr = Line.addr BY DEF Jump
    <3>4. launch'.addr = Line.addr BY <2>1
    <3> QED BY <1>1, <2>2, <2>3, <2>4, <2>6, <2>9, <3>2, <3>3, <3>4 DEF Replies
  <2>14. Believed' BY <1>1, <2>4, <2>9 DEF Believed
  <2> QED BY <2>10, <2>11, <2>12, <2>13, <2>14
<1> QED BY <1>2, <1>3

\* The invariant holds before the first run.
LEMMA SessionInit == Init => SessionInv
  BY DEF Init, SessionInv, Live, Active

\* Every step preserves it: one step of the proof per action.
LEMMA SessionNext ==
  ASSUME ~ProgramsReturn
  PROVE  TypeOK /\ TypeOK' /\ ImageInv /\ SessionInv /\ [Next]_vars => SessionInv'
<1> SUFFICES ASSUME TypeOK, TypeOK', ImageInv, SessionInv, [Next]_vars PROVE SessionInv'
  OBVIOUS
<1>1. CASE \E i \in Images : Bootstrap(i) \/ BootstrapFails(i) \/ Attach(i)
  <2> PICK i \in Images : Bootstrap(i) \/ BootstrapFails(i) \/ Attach(i) BY <1>1
  <2>1. CASE Bootstrap(i) BY <2>1, SessionFresh DEF Bootstrap, AfterRecords
  <2>2. CASE BootstrapFails(i) BY <2>2, SessionOver DEF BootstrapFails
  <2>3. CASE Attach(i) BY <2>3, SessionFresh DEF Attach, StartRun
  <2> QED BY <2>1, <2>2, <2>3
<1>seq. seq \in Seqs BY ModInSeqs DEF TypeOK, seq
<1>img. img \in Images BY DEF TypeOK
<1>2. CASE SendHello
  BY <1>2, SessionTransmit DEF SendHello, Hello, Commands
<1>3. CASE send_record
  <2>1. img.recs[sent + 1] \in Record
    <3>1. sent \in Nat /\ sent < Len(img.recs) BY <1>3 DEF send_record, TypeOK
    <3>2. img.recs \in Seq(Record) BY <1>img, ImageType
    <3> QED BY <3>1, <3>2
  <2>2. [cmd |-> "D", seq |-> seq, rec |-> img.recs[sent + 1]] \in Commands
    BY <1>seq, <2>1 DEF Commands, DataLine
  <2> QED BY <1>3, <2>2, SessionTransmit DEF send_record
<1>4. CASE SendEnd
  <2>1. [cmd |-> "E", seq |-> seq, crc |-> Stream(img.recs)] \in Commands
    BY <1>seq, <1>img, StreamType DEF Commands, EndLine
  <2> QED BY <1>4, <2>1, SessionTransmit DEF SendEnd
<1>5. CASE SendGo
  <2>1. [cmd |-> "G", addr |-> img.entry] \in Commands
    BY <1>img, ImageType DEF Commands, GoLine, GoAddr
  <2> QED BY <1>5, <2>1, SessionTransmit DEF SendGo
<1>6. CASE RejectImage \/ GiveUp \/ Interrupt
  BY <1>6, SessionOver DEF RejectImage, GiveUp, Interrupt
<1>7. CASE Advance BY <1>7, SessionAdvance
<1>8. CASE Ignore
  BY <1>8, SameThinned, TailNoNews, SessionKept DEF Ignore, host, session, board, hist
<1>9. CASE Timeout
  BY <1>9, SameThinned, SameNoNews, SessionKept DEF Timeout, session, board, line, hist
<1>10. CASE data_record
  <2>1. CASE Duplicate \/ Refuse
    <3>1. Line.seq \in Seqs BY <1>10, FirstLine, CommandType DEF data_record
    <3>2. NoNews BY <2>1, <3>1, QuietAnswers, AppendNoNews DEF Duplicate, Refuse, Answer
    <3>3. Thinned BY <1>10, FirstLine, TailThinned DEF data_record
    <3> QED BY <1>10, <2>1, <3>2, <3>3, SessionKept
         DEF data_record, getline, Duplicate, Refuse, host, session, board, hist
  <2> QED BY <1>10, <2>1, SessionRecord DEF data_record
<1>11. CASE end_record BY <1>11, SessionEnd
<1>12. CASE go_record BY <1>12, SessionGo
<1>13. CASE HelloOrBad
  <2>1. NoNews BY <1>13, QuietAnswers, AppendNoNews DEF HelloOrBad, Answer
  <2>2. Thinned BY <1>13, TailThinned DEF HelloOrBad, getline
  <2> QED BY <1>13, <2>1, <2>2, SessionKept DEF HelloOrBad, getline, host, session, board, hist
<1>14. CASE OtherReads
  <2>1. NoNews BY <1>14, QuietAnswers, AppendNoNews DEF OtherReads
  <2>2. Thinned BY <1>14, TailThinned DEF OtherReads
  <2> QED BY <1>14, <2>1, <2>2, SessionKept DEF OtherReads, host, session, board, hist
<1>15. CASE ProgramStores
  BY <1>15, SameThinned, SameNoNews, SessionKept DEF ProgramStores, host, session, line, hist
<1>16. CASE CorruptCommand
  BY <1>16, CorruptThinned, SameNoNews, SessionKept
  DEF CorruptCommand, LineFault, host, session, board, hist
<1>17. CASE LoseNewline
  BY <1>17, LoseThinned, SameNoNews, SessionKept
  DEF LoseNewline, LineFault, host, session, board, hist
<1>18. CASE CorruptReply
  BY <1>18, SameThinned, CorruptNoNews, SessionKept
  DEF CorruptReply, LineFault, host, session, board, hist
<1>19. CASE UNCHANGED vars
  BY <1>19, SameThinned, SameNoNews, SessionKept DEF vars, host, session, board, line, hist
<1> QED
  BY <1>1, <1>2, <1>3, <1>4, <1>5, <1>6, <1>7, <1>8, <1>9, <1>10, <1>11, <1>12, <1>13, <1>14,
     <1>15, <1>16, <1>17, <1>18, <1>19 DEF Next, HostStep, LoaderStep, ProgramReturns

\* Unless the uploaded program gives the loader back the board: whatever the line
\* does, an answer this run believes says what it seems to say.
THEOREM SessionInvariant ==
  ASSUME ~ProgramsReturn
  PROVE  Spec => []SessionInv
<1>1. Init => SessionInv BY SessionInit
<1>2. TypeOK /\ TypeOK' /\ ImageInv /\ SessionInv /\ [Next]_vars => SessionInv' BY SessionNext
<1> QED BY <1>1, <1>2, TypeCorrect, ImageInvariant, PTL DEF Spec

\* A run that believes the final checksum has exactly its image behind a
\* finalized loader, for any number of faults, retries, and earlier runs.
THEOREM BelievedCorrect ==
  ASSUME ~ProgramsReturn
  PROVE  Spec => []BelievedIsFinalized
<1>1. TypeOK /\ ImageInv /\ SessionInv => BelievedIsFinalized
  <2> SUFFICES ASSUME TypeOK, ImageInv, SessionInv, alone, phase = "go", pc = "loader"
               PROVE  finalized /\ stream_crc = Stream(img.recs) /\ Holds(mem, img.recs)
    BY DEF BelievedIsFinalized
  <2>1. Settled BY DEF SessionInv, Live, Active, Believed
  <2>2. img \in Images BY DEF TypeOK
  <2> QED BY <2>1, <2>2, StreamHolds DEF Settled
<1> QED BY <1>1, TypeCorrect, ImageInvariant, SessionInvariant, PTL

\* A terminal is only ever opened on a board that runs this run's image from
\* this image's entry.
THEOREM TerminalCorrect ==
  ASSUME ~ProgramsReturn
  PROVE  Spec => []TerminalMeansImage
<1>1. SessionInv => TerminalMeansImage
  BY DEF SessionInv, Live, Believed, Launched, TerminalMeansImage
<1> QED BY <1>1, SessionInvariant, PTL

\* A jump during a run of te2 that no earlier run's lines disturb finds the image
\* of that run in memory, however many stores have failed: a spoilt checksum was
\* refused before G was sent.
OwnJumpOntoImage ==
  [][alone /\ phase \in Live /\ launches' # launches => Holds(launch'.mem, img.recs)]_vars

\* The loader's G starts this run's image, also on memory that failed stores.
THEOREM OwnJumpCorrect ==
  ASSUME ~ProgramsReturn
  PROVE  Spec => OwnJumpOntoImage
<1>1. TypeOK /\ ImageInv /\ SessionInv /\ [Next]_vars
        => (alone /\ phase \in Live /\ launches' # launches => Holds(launch'.mem, img.recs))
  <2> SUFFICES ASSUME TypeOK, ImageInv, SessionInv, [Next]_vars, alone, phase \in Live,
                      launches' # launches
               PROVE  Holds(launch'.mem, img.recs)
    OBVIOUS
  <2>1. /\ finalized /\ pc = "loader" /\ launch'.mem = mem
        /\ toBoard # <<>> /\ Line.cmd = "G"
    BY LaunchIsGo
  <2>2. 1 \in DOMAIN toBoard /\ toBoard[1].cmd = "G" BY <2>1 DEF TypeOK, Line
  <2>3. Settled BY <2>2 DEF SessionInv, Gos, Believed
  <2>4. img \in Images BY DEF TypeOK
  <2> QED BY <2>1, <2>3, <2>4, StreamHolds DEF Settled
<1>2. [](TypeOK /\ ImageInv /\ SessionInv) /\ [][Next]_vars
        => [][alone /\ phase \in Live /\ launches' # launches => Holds(launch'.mem, img.recs)]_vars
  BY <1>1, PTL
<1> QED BY <1>2, TypeCorrect, ImageInvariant, SessionInvariant, PTL DEF Spec, OwnJumpOntoImage

-----------------------------------------------------------------------------
(* After a bootstrap the loader's checksum follows the image *)

RecordInv == alone /\ phase \in Live => Records

\* What the loader has folded is the image up to where it stands.
Prefix ==
  /\ Len(stream_crc) <= Len(img.recs) /\ expected_seq = Len(stream_crc)
  /\ \A k \in DOMAIN stream_crc : stream_crc[k] = Stream(img.recs)[k]

BootInv ==
  ~stage2_only =>
    /\ alone /\ phase # "attach"
    /\ phase = "end" => sent = Len(img.recs)
    /\ phase \in {"data", "end"} /\ Unspoilt /\ Len(img.recs) < SeqMod => Prefix

\* A number below SeqMod is its own residue.
LEMMA ModSmall == ASSUME NEW n \in Nat, n < SeqMod PROVE n % SeqMod = n
  BY TE2Assumption DEF TE2Assumption

\* Which D lines a step adds.
LEMMA RecordTransmit ==
  ASSUME TypeOK, RecordInv, NEW c \in Commands, NEW limit, Transmit(c, limit),
         c.cmd = "D" => OfImage(c)
  PROVE  RecordInv'
<1>1. UNCHANGED <<phase, alone, img>> BY DEF Transmit, session
<1>2. toBoard \in Seq(Commands) BY DEF TypeOK
<1>3. \A k \in DOMAIN toBoard' :
        toBoard'[k] \in {Bad, c} \/ (k \in DOMAIN toBoard /\ toBoard'[k] = toBoard[k])
  <2> DEFINE b == IF ragged THEN Bad ELSE c
  <2>1. CASE UNCHANGED toBoard BY <2>1
  <2>2. CASE toBoard' = Append(toBoard, b)
    <3>1. b \in {Bad, c} OBVIOUS
    <3> HIDE DEF b
    <3> QED BY <1>2, <2>2, <3>1
  <2> QED BY <2>1, <2>2 DEF Transmit
<1>4. Bad.cmd = "bad" BY DEF Bad
<1> QED BY <1>1, <1>3, <1>4 DEF RecordInv, Records, OfImage

\* And every other way the line changes adds none.
LEMMA RecordKept ==
  ASSUME RecordInv, Thinned, UNCHANGED <<alone, img>>, phase' \in Live => phase \in Live
  PROVE  RecordInv'
<1>1. PICK f \in [DOMAIN toBoard' -> DOMAIN toBoard] :
         \A k \in DOMAIN toBoard' :
              \/ toBoard'[k] = toBoard[f[k]]
              \/ toBoard'[k].cmd = "bad"
              \/ toBoard'[k].cmd = "G" /\ toBoard[f[k]].cmd = "G"
  BY DEF Thinned
<1>2. \A k \in DOMAIN toBoard' : f[k] \in DOMAIN toBoard OBVIOUS
<1> QED BY <1>1, <1>2 DEF RecordInv, Records, OfImage

\* Every step that starts no run and sends nothing only thins the line.
LEMMA OnlyThinned ==
  ASSUME TypeOK, [Next]_vars
  PROVE  \/ \E i \in Images : Bootstrap(i) \/ BootstrapFails(i) \/ Attach(i)
         \/ SendHello \/ send_record \/ SendEnd \/ SendGo
         \/ Thinned /\ UNCHANGED session
<1> USE DEF host, hist
<1>1. CASE RejectImage \/ Advance \/ Ignore \/ Timeout \/ GiveUp \/ Interrupt
  BY <1>1, SameThinned DEF RejectImage, Advance, Ignore, Timeout, GiveUp, Interrupt, line
<1>2. CASE data_record \/ end_record \/ go_record \/ HelloOrBad \/ OtherReads
  BY <1>2, TailThinned DEF data_record, end_record, go_record, HelloOrBad, getline, OtherReads
<1>3. CASE ProgramStores \/ ProgramReturns \/ CorruptReply \/ UNCHANGED vars
  BY <1>3, SameThinned DEF ProgramStores, ProgramReturns, CorruptReply, LineFault, vars, line
<1>4. CASE CorruptCommand BY <1>4, CorruptThinned DEF CorruptCommand, LineFault
<1>5. CASE LoseNewline BY <1>5, LoseThinned DEF LoseNewline, LineFault
<1> QED BY <1>1, <1>2, <1>3, <1>4, <1>5 DEF Next, HostStep, LoaderStep

\* What such a step does to the phase of the host.
LEMMA PhaseSteps ==
  ASSUME [Next]_vars
  PROVE  \/ \E i \in Images : Bootstrap(i) \/ BootstrapFails(i) \/ Attach(i)
         \/ Advance
         \/ UNCHANGED <<phase, session, sent>>
         \/ UNCHANGED <<session, sent>> /\ phase' \in {"dead", "killed"}
<1> USE DEF host
<1>1. CASE HostStep \/ Interrupt
  BY <1>1 DEF HostStep, SendHello, send_record, SendEnd, SendGo, Transmit, RejectImage, Ignore,
     Timeout, GiveUp, Interrupt
<1>2. CASE LoaderStep \/ OtherReads \/ ProgramStores \/ ProgramReturns
  BY <1>2 DEF LoaderStep, data_record, end_record, go_record, HelloOrBad, getline, OtherReads,
     ProgramStores, ProgramReturns
<1>3. CASE CorruptCommand \/ LoseNewline \/ CorruptReply \/ UNCHANGED vars
  BY <1>3 DEF CorruptCommand, LoseNewline, CorruptReply, LineFault, vars
<1> QED BY <1>1, <1>2, <1>3 DEF Next

\* A D line on its way is a record of this run's image.
LEMMA RecordNext == TypeOK /\ RecordInv /\ [Next]_vars => RecordInv'
<1> SUFFICES ASSUME TypeOK, RecordInv, [Next]_vars PROVE RecordInv' OBVIOUS
<1>seq. seq \in Seqs BY ModInSeqs DEF TypeOK, seq
<1>img. img \in Images BY DEF TypeOK
<1>1. CASE \E i \in Images : Bootstrap(i) \/ BootstrapFails(i) \/ Attach(i)
  <2>1. alone' => toBoard' = <<>> \/ phase' = "dead"
    BY <1>1 DEF Bootstrap, BootstrapFails, Attach, StartRun
  <2> QED BY <2>1 DEF RecordInv, Records, Live, Active
<1>2. CASE SendHello BY <1>2, RecordTransmit DEF SendHello, Hello, Commands
<1>3. CASE send_record
  <2> DEFINE c == [cmd |-> "D", seq |-> seq, rec |-> img.recs[sent + 1]]
  <2>1. img.recs \in Seq(Record) /\ sent \in Nat /\ sent < Len(img.recs)
    BY <1>3, <1>img, ImageType DEF send_record, TypeOK
  <2>2. sent + 1 \in DOMAIN img.recs /\ (sent + 1) - 1 = sent BY <2>1
  <2>3. c \in Commands BY <1>seq, <2>1, <2>2 DEF Commands, DataLine
  <2>4. OfImage(c) BY <2>2 DEF OfImage, seq
  <2> QED BY <1>3, <2>3, <2>4, RecordTransmit DEF send_record
<1>4. CASE SendEnd
  <2>1. [cmd |-> "E", seq |-> seq, crc |-> Stream(img.recs)] \in Commands
    BY <1>seq, <1>img, StreamType DEF Commands, EndLine
  <2> QED BY <1>4, <2>1, RecordTransmit DEF SendEnd
<1>5. CASE SendGo
  <2>1. [cmd |-> "G", addr |-> img.entry] \in Commands
    BY <1>img, ImageType DEF Commands, GoLine, GoAddr
  <2> QED BY <1>5, <2>1, RecordTransmit DEF SendGo
<1>6. CASE Thinned /\ UNCHANGED session /\ ~\E i \in Images : Bootstrap(i) \/ BootstrapFails(i) \/ Attach(i)
  <2>1. phase' \in Live => phase \in Live
    BY <1>6, PhaseSteps DEF Live, Active, Advance
  <2> QED BY <1>6, <2>1, RecordKept DEF session
<1> QED BY <1>1, <1>2, <1>3, <1>4, <1>5, <1>6, OnlyThinned

\* A fresh record extends the prefix by the image's next record.
LEMMA PrefixStore ==
  ASSUME TypeOK, Records, Prefix, Len(img.recs) < SeqMod, getline("D"), Store
  PROVE  Prefix'
<1>1. /\ img' = img /\ Line.seq = expected_seq
      /\ stream_crc' = Append(stream_crc, Fold(Line.seq, Line.rec, Line.rec.data))
      /\ expected_seq' = (expected_seq + 1) % SeqMod
  BY DEF getline, Store, Acceptable, host, session
<1>2. PICK n \in DOMAIN img.recs : Line.seq = (n - 1) % SeqMod /\ Line.rec = img.recs[n]
  BY FirstLine DEF Records, OfImage
<1> DEFINE l == Len(stream_crc)
           m == Len(img.recs)
<1>3. img.recs \in Seq(Record) /\ stream_crc \in Seq(Folded)
  BY ImageType DEF TypeOK
<1>4. l \in Nat /\ m \in Nat /\ SeqMod \in Nat /\ n \in 1 .. m
  BY <1>3, TE2Assumption DEF TE2Assumption
<1>5. n - 1 \in Nat /\ n - 1 < SeqMod BY <1>4
<1>6. n - 1 = l BY <1>1, <1>2, <1>5, ModSmall DEF Prefix
<1>7. l + 1 = n /\ l + 1 \in Nat /\ l + 1 <= m /\ l + 1 < SeqMod BY <1>4, <1>6
<1>8. Len(stream_crc') = l + 1 BY <1>1, <1>3
<1>9. expected_seq' = l + 1 BY <1>1, <1>7, ModSmall DEF Prefix
<1>10. Stream(img.recs)[n] = Fold((n - 1) % SeqMod, img.recs[n], img.recs[n].data) BY DEF Stream
<1>11. \A k \in DOMAIN stream_crc' : stream_crc'[k] = Stream(img.recs)[k]
  <2>1. \A k \in DOMAIN stream_crc' :
          \/ k \in DOMAIN stream_crc /\ stream_crc'[k] = stream_crc[k]
          \/ k = l + 1 /\ stream_crc'[k] = Fold(Line.seq, Line.rec, Line.rec.data)
    BY <1>1, <1>3
  <2> QED BY <1>2, <1>7, <1>10, <2>1 DEF Prefix
<1> QED BY <1>1, <1>7, <1>8, <1>9, <1>11 DEF Prefix

\* Every step keeps a bootstrapped run on its image.
LEMMA BootNext == TypeOK /\ TypeOK' /\ RecordInv /\ BootInv /\ [Next]_vars => BootInv'
<1> SUFFICES ASSUME TypeOK, TypeOK', RecordInv, BootInv, [Next]_vars, ~stage2_only'
             PROVE  /\ alone' /\ phase' # "attach"
                    /\ phase' = "end" => sent' = Len(img'.recs)
                    /\ phase' \in {"data", "end"} /\ Unspoilt' /\ Len(img'.recs) < SeqMod => Prefix'
  BY DEF BootInv
<1>1. ASSUME NEW i \in Images, Bootstrap(i) \/ BootstrapFails(i) \/ Attach(i)
      PROVE  /\ alone' /\ phase' # "attach"
             /\ phase' = "end" => sent' = Len(img'.recs)
             /\ phase' \in {"data", "end"} => Prefix'
  <2>1. alone' /\ ~Attach(i)
    BY <1>1 DEF Bootstrap, BootstrapFails, Attach, StartRun
  <2>2. CASE Bootstrap(i)
    <3>1. Len(i.recs) \in Nat BY ImageType
    <3> QED BY <2>1, <2>2, <3>1 DEF Bootstrap, StartRun, AfterRecords, Prefix
  <2>3. CASE BootstrapFails(i) BY <2>1, <2>3 DEF BootstrapFails
  <2> QED BY <1>1, <2>1, <2>2, <2>3
<1>2. CASE UNCHANGED session /\ ~\E i \in Images : Bootstrap(i) \/ BootstrapFails(i) \/ Attach(i)
  <2>0. /\ ~stage2_only /\ alone /\ phase # "attach" /\ alone' /\ img' = img
        /\ phase = "end" => sent = Len(img.recs)
        /\ phase \in {"data", "end"} /\ Unspoilt /\ Len(img.recs) < SeqMod => Prefix
    BY <1>2 DEF BootInv, session
  <2>1. phase' # "attach" /\ (phase' = "end" => sent' = Len(img'.recs))
          /\ (phase' \in {"data", "end"} => phase \in {"data", "end"})
    <3>1. CASE Advance
      <4>1. sent \in Nat /\ Len(img.recs) \in Nat /\ (phase = "data" => sent < Len(img.recs))
        BY ImageType DEF TypeOK
      <4> QED BY <1>2, <2>0, <3>1, <4>1 DEF Advance, AfterRecords
    <3> QED BY <1>2, <2>0, <3>1, PhaseSteps
  <2>2. ASSUME phase' \in {"data", "end"}, Unspoilt', Len(img'.recs) < SeqMod PROVE Prefix'
    <3>1. phase \in {"data", "end"} /\ Len(img.recs) < SeqMod BY <2>0, <2>1, <2>2
    <3>2. CASE UNCHANGED <<stream_crc, expected_seq>>
      BY <2>0, <2>2, <3>1, <3>2 DEF Prefix, Unspoilt
    <3>3. CASE data_record /\ Store
      <4>1. Unspoilt
        <5>1. stream_crc \in Seq(Folded) BY DEF TypeOK
        <5>2. \A k \in DOMAIN stream_crc : k \in DOMAIN stream_crc' /\ stream_crc'[k] = stream_crc[k]
          BY <3>3, <5>1 DEF Store
        <5> QED BY <2>2, <5>2 DEF Unspoilt
      <4>2. Records BY <2>0, <3>1 DEF RecordInv, Live, Active
      <4> QED BY <2>0, <3>1, <3>3, <4>1, <4>2, PrefixStore DEF data_record
    <3>4. CASE data_record /\ ReadBackFails
      <4>1. stream_crc \in Seq(Folded) BY DEF TypeOK
      <4>2. /\ Len(stream_crc) + 1 \in DOMAIN stream_crc'
            /\ stream_crc'[Len(stream_crc) + 1] = Fold(Line.seq, Line.rec, NoData)
        BY <3>4, <4>1 DEF ReadBackFails
      <4> QED BY <2>2, <4>2 DEF Unspoilt, Fold
    <3>5. CASE HostStep \/ Interrupt \/ UNCHANGED vars
      BY <3>2, <3>5 DEF HostStep, SendHello, send_record, SendEnd, SendGo, Transmit, RejectImage,
         Advance, Ignore, Timeout, GiveUp, Interrupt, vars, board
    <3>6. CASE (data_record /\ (Duplicate \/ Refuse)) \/ end_record \/ go_record \/ HelloOrBad
      BY <3>2, <3>6 DEF Duplicate, Refuse, end_record, go_record, HelloOrBad, board
    <3>7. CASE OtherReads \/ ProgramStores \/ ProgramReturns \/ CorruptCommand \/ LoseNewline \/ CorruptReply
      BY <3>2, <3>7 DEF OtherReads, ProgramStores, ProgramReturns, CorruptCommand, LoseNewline,
         CorruptReply, LineFault, board
    <3> QED BY <1>2, <3>3, <3>4, <3>5, <3>6, <3>7 DEF Next, LoaderStep, data_record
  <2> QED BY <2>0, <2>1, <2>2
<1>3. UNCHANGED session \/ \E i \in Images : Bootstrap(i) \/ BootstrapFails(i) \/ Attach(i)
  BY PhaseSteps DEF Advance
<1> QED BY <1>1, <1>2, <1>3

\* A bootstrapped run whose loader stands where the host stands passes the final
\* comparison, whatever was lost, repeated or forged on the way there.
THEOREM IntactCorrect == Spec => []IntactUploadVerifies
<1>1. Init => RecordInv /\ BootInv
  BY DEF Init, RecordInv, BootInv, Live, Active
<1>2. TypeOK /\ TypeOK' /\ RecordInv /\ BootInv /\ [Next]_vars => (RecordInv /\ BootInv)'
  BY RecordNext, BootNext
<1>3. TypeOK /\ BootInv => IntactUploadVerifies
  <2> SUFFICES ASSUME TypeOK, BootInv, phase = "end", ~stage2_only, expected_seq = seq, Unspoilt,
                      Len(img.recs) < SeqMod
               PROVE  stream_crc = Stream(img.recs)
    BY DEF IntactUploadVerifies
  <2>1. Prefix /\ sent = Len(img.recs) BY DEF BootInv
  <2>2. stream_crc \in Seq(Folded) /\ img.recs \in Seq(Record) BY ImageType DEF TypeOK
  <2>3. Len(img.recs) \in Nat BY <2>2
  <2>4. Len(stream_crc) = Len(img.recs) BY <2>1, <2>3, ModSmall DEF Prefix, seq
  <2>5. stream_crc = [k \in 1 .. Len(stream_crc) |-> stream_crc[k]] BY <2>2
  <2>6. Stream(img.recs) = [k \in 1 .. Len(img.recs) |-> Stream(img.recs)[k]]
    BY <2>2 DEF Stream
  <2>7. \A k \in 1 .. Len(stream_crc) : stream_crc[k] = Stream(img.recs)[k]
    BY <2>1, <2>2 DEF Prefix
  <2> QED BY <2>4, <2>5, <2>6, <2>7
<1> QED BY <1>1, <1>2, <1>3, TypeCorrect, PTL DEF Spec

-----------------------------------------------------------------------------
(* One jump per run *)

Jumps == {k \in DOMAIN toBoard : toBoard[k].cmd = "G"}

\* The host has its one G record of this run still to send.
MayStillJump == phase \in {"attach", "data", "end"} \/ (phase = "go" /\ tries = 0)

\* A jump, a G record under way and a G record yet to be sent all draw on the
\* same account, which every run of te2 credits with one.
JumpInv == launches + Cardinality(Jumps) <= IF MayStillJump THEN run - 1 ELSE run

LEMMA JumpsFinite ==
  ASSUME NEW s \in Seq(Commands)
  PROVE  LET G == {k \in DOMAIN s : s[k].cmd = "G"}
         IN  IsFiniteSet(G) /\ Cardinality(G) \in Nat
<1> DEFINE G == {k \in DOMAIN s : s[k].cmd = "G"}
<1>1. Len(s) \in Nat /\ DOMAIN s = 1 .. Len(s) OBVIOUS
<1>2. IsFiniteSet(1 .. Len(s)) BY <1>1, FS_Interval
<1>3. G \in SUBSET (1 .. Len(s)) BY <1>1
<1> HIDE DEF G
<1>4. IsFiniteSet(G) BY <1>2, <1>3, FS_Subset
<1> QED BY <1>4, FS_CardinalityType DEF G

\* The counters, before and after a step.
LEMMA JumpTypes ==
  ASSUME TypeOK
  PROVE  /\ IsFiniteSet(Jumps) /\ Cardinality(Jumps) \in Nat /\ launches \in Nat
         /\ run \in Int /\ tries \in Nat
<1>1. toBoard \in Seq(Commands) BY DEF TypeOK
<1>2. IsFiniteSet(Jumps) /\ Cardinality(Jumps) \in Nat BY <1>1, JumpsFinite DEF Jumps
<1>3. launches \in Nat /\ run \in Int /\ tries \in Nat
  BY TE2Assumption DEF TypeOK, TE2Assumption
<1> QED BY <1>2, <1>3

LEMMA JumpTypesNext ==
  ASSUME TypeOK'
  PROVE  Cardinality(Jumps') \in Nat /\ launches' \in Nat /\ run' \in Int
<1>1. toBoard' \in Seq(Commands) BY DEF TypeOK
<1>2. Cardinality(Jumps') \in Nat BY <1>1, JumpsFinite DEF Jumps
<1>3. launches' \in Nat /\ run' \in Int BY TE2Assumption DEF TypeOK, TE2Assumption
<1> QED BY <1>2, <1>3

\* No fault of the line makes two G records of one.
LEMMA JumpsThinned ==
  ASSUME TypeOK, TypeOK', Thinned
  PROVE  Cardinality(Jumps') <= Cardinality(Jumps)
<1>1. PICK f \in [DOMAIN toBoard' -> DOMAIN toBoard] :
         /\ \A j, k \in DOMAIN toBoard' : j < k => f[j] < f[k]
         /\ \A k \in DOMAIN toBoard' :
              \/ toBoard'[k] = toBoard[f[k]]
              \/ toBoard'[k].cmd = "bad"
              \/ toBoard'[k].cmd = "G" /\ toBoard[f[k]].cmd = "G"
  BY DEF Thinned
<1> DEFINE g == [k \in Jumps' |-> f[k]]
<1>2. \A k \in Jumps' : k \in DOMAIN toBoard' /\ f[k] \in Jumps BY <1>1 DEF Jumps
<1>3. g \in [Jumps' -> Jumps] BY <1>2
<1>4. ASSUME NEW j \in Jumps', NEW k \in Jumps', g[j] = g[k] PROVE j = k
  <2>1. f[j] = f[k] /\ j \in DOMAIN toBoard' /\ k \in DOMAIN toBoard' BY <1>2, <1>4
  <2>2. f[j] \in Int BY <2>1, TypeSeqs
  <2>3. j \in Int /\ k \in Int BY <2>1, TypeSeqs
  <2> QED BY <1>1, <2>1, <2>2, <2>3
<1>5. g \in Injection(Jumps', Jumps) BY <1>3, <1>4 DEF Injection, IsInjective
<1>6. IsFiniteSet(Jumps) BY JumpTypes
<1> QED BY <1>5, <1>6, FS_Injection

\* Taking the G record off the line leaves one less.
LEMMA JumpsTaken ==
  ASSUME TypeOK, TypeOK', getline("G")
  PROVE  Cardinality(Jumps') + 1 <= Cardinality(Jumps)
<1>1. /\ 1 \in DOMAIN toBoard /\ toBoard[1].cmd = "G"
      /\ \A k \in DOMAIN toBoard' :
           k + 1 \in DOMAIN toBoard /\ k + 1 > 1 /\ toBoard'[k] = toBoard[k + 1]
  BY FirstLine
<1>2. IsFiniteSet(Jumps) /\ Cardinality(Jumps) \in Nat BY JumpTypes
<1>3. 1 \in Jumps BY <1>1 DEF Jumps
<1> DEFINE R == Jumps \ {1}
           g == [k \in Jumps' |-> k + 1]
<1>4. IsFiniteSet(R) /\ Cardinality(R) = Cardinality(Jumps) - 1
  BY <1>2, <1>3, FS_RemoveElement
<1>5. \A k \in Jumps' : k \in Int /\ k + 1 \in R
  <2>1. \A k \in DOMAIN toBoard' : k \in Int BY TypeSeqs
  <2> QED BY <1>1, <2>1 DEF Jumps
<1>6. g \in [Jumps' -> R] BY <1>5
<1>7. \A j, k \in Jumps' : g[j] = g[k] => j = k BY <1>5
<1>8. g \in Injection(Jumps', R) BY <1>6, <1>7 DEF Injection, IsInjective
<1> HIDE DEF R, g
<1>9. Cardinality(Jumps') <= Cardinality(R) BY <1>4, <1>8, FS_Injection
<1>10. Cardinality(Jumps') \in Nat BY JumpTypesNext
<1> QED BY <1>2, <1>4, <1>9, <1>10

\* Sending a command adds one at most, and only when it is a G record.
LEMMA JumpsSent ==
  ASSUME TypeOK, TypeOK', NEW b \in Commands, toBoard' = Append(toBoard, b)
  PROVE  Cardinality(Jumps') <= Cardinality(Jumps) + (IF b.cmd = "G" THEN 1 ELSE 0)
<1>1. toBoard \in Seq(Commands) BY DEF TypeOK
<1> DEFINE n == Len(toBoard) + 1
<1>2. /\ n \notin DOMAIN toBoard /\ DOMAIN toBoard' = DOMAIN toBoard \cup {n}
      /\ toBoard'[n] = b /\ \A k \in DOMAIN toBoard : toBoard'[k] = toBoard[k]
  BY <1>1
<1> HIDE DEF n
<1>3. IsFiniteSet(Jumps) /\ Cardinality(Jumps) \in Nat BY JumpTypes
<1>4. CASE b.cmd = "G"
  <2>1. Jumps' = Jumps \cup {n} /\ n \notin Jumps BY <1>2, <1>4 DEF Jumps
  <2>2. Cardinality(Jumps') = Cardinality(Jumps) + 1 BY <1>3, <2>1, FS_AddElement
  <2> QED BY <1>3, <1>4, <2>2
<1>5. CASE b.cmd # "G"
  <2>1. Jumps' = Jumps BY <1>2, <1>5 DEF Jumps
  <2> QED BY <1>3, <1>5, <2>1
<1> QED BY <1>4, <1>5

\* Commands other than G leave the account alone; a G record is paid for by the
\* attempt that sends it.
LEMMA JumpTransmit ==
  ASSUME TypeOK, TypeOK', JumpInv, NEW c \in Commands, NEW limit \in {1, Retries},
         Transmit(c, limit), c.cmd = "G" <=> phase = "go", phase = "go" => limit = 1
  PROVE  JumpInv'
<1>1. UNCHANGED <<phase, run, launches>> /\ tries' = tries + 1 /\ tries < limit
  BY DEF Transmit, session, hist
<1>2. /\ Cardinality(Jumps) \in Nat /\ Cardinality(Jumps') \in Nat /\ launches \in Nat
      /\ run \in Int /\ tries \in Nat
  BY JumpTypes, JumpTypesNext
<1>3. Cardinality(Jumps') <= Cardinality(Jumps) + (IF phase = "go" THEN 1 ELSE 0)
  <2>1. CASE UNCHANGED toBoard
    <3>1. Jumps' = Jumps BY <2>1 DEF Jumps
    <3> QED BY <1>2, <3>1
  <2>2. CASE toBoard' = Append(toBoard, IF ragged THEN Bad ELSE c)
    <3> DEFINE b == IF ragged THEN Bad ELSE c
    <3>1. b \in Commands /\ (b.cmd = "G" => phase = "go") BY DEF Bad, Commands
    <3>2. toBoard' = Append(toBoard, b) BY <2>2
    <3> HIDE DEF b
    <3> QED BY <1>2, <3>1, <3>2, JumpsSent
  <2> QED BY <2>1, <2>2 DEF Transmit
<1>4. phase = "go" => MayStillJump /\ ~MayStillJump' BY <1>1, <1>2 DEF MayStillJump
<1>5. phase # "go" => MayStillJump' = MayStillJump BY <1>1 DEF MayStillJump
<1> QED BY <1>1, <1>2, <1>3, <1>4, <1>5 DEF JumpInv

\* What the phase of the host may do to the account: nothing gives a second credit.
LEMMA JumpKept ==
  ASSUME TypeOK, TypeOK', JumpInv, Thinned, UNCHANGED <<run, launches>>,
         MayStillJump' => MayStillJump
  PROVE  JumpInv'
<1>1. /\ Cardinality(Jumps) \in Nat /\ Cardinality(Jumps') \in Nat /\ launches \in Nat
      /\ run \in Int
  BY JumpTypes, JumpTypesNext
<1>2. Cardinality(Jumps') <= Cardinality(Jumps) BY JumpsThinned
<1> QED BY <1>1, <1>2 DEF JumpInv

\* Every step keeps the account.
LEMMA JumpNext == TypeOK /\ TypeOK' /\ JumpInv /\ [Next]_vars => JumpInv'
<1> SUFFICES ASSUME TypeOK, TypeOK', JumpInv, [Next]_vars PROVE JumpInv' OBVIOUS
<1>t. /\ Cardinality(Jumps) \in Nat /\ Cardinality(Jumps') \in Nat /\ launches \in Nat
      /\ launches' \in Nat /\ run \in Int /\ run' \in Int /\ tries \in Nat
  BY JumpTypes, JumpTypesNext
<1>seq. seq \in Seqs BY ModInSeqs DEF TypeOK, seq
<1>img. img \in Images BY DEF TypeOK
<1>1. ASSUME NEW i \in Images, Bootstrap(i) \/ BootstrapFails(i) \/ Attach(i) PROVE JumpInv'
  <2>1. run' = run + 1 /\ UNCHANGED launches /\ launches + Cardinality(Jumps) <= run
    BY <1>1, <1>t DEF Bootstrap, BootstrapFails, Attach, StartRun, JumpInv, hist
  <2>2. Jumps' = Jumps \/ Jumps' = {}
    <3>1. toBoard' = toBoard \/ toBoard' = <<>> BY <1>1 DEF Bootstrap, BootstrapFails, Attach
    <3>2. toBoard' = <<>> => DOMAIN toBoard' = {} OBVIOUS
    <3> QED BY <3>1, <3>2 DEF Jumps
  <2>3. Cardinality(Jumps') <= Cardinality(Jumps) BY <1>t, <2>2, FS_EmptySet
  <2> QED BY <1>t, <2>1, <2>3 DEF JumpInv
<1>2. CASE SendHello
  BY <1>2, JumpTransmit DEF SendHello, Hello, Commands
<1>3. CASE send_record
  <2>1. img.recs[sent + 1] \in Record
    <3>1. sent \in Nat /\ sent < Len(img.recs) BY <1>3 DEF send_record, TypeOK
    <3>2. img.recs \in Seq(Record) BY <1>img, ImageType
    <3> QED BY <3>1, <3>2
  <2>2. [cmd |-> "D", seq |-> seq, rec |-> img.recs[sent + 1]] \in Commands
    BY <1>seq, <2>1 DEF Commands, DataLine
  <2> QED BY <1>3, <2>2, JumpTransmit DEF send_record
<1>4. CASE SendEnd
  <2>1. [cmd |-> "E", seq |-> seq, crc |-> Stream(img.recs)] \in Commands
    BY <1>seq, <1>img, StreamType DEF Commands, EndLine
  <2> QED BY <1>4, <2>1, JumpTransmit DEF SendEnd
<1>5. CASE SendGo
  <2>1. [cmd |-> "G", addr |-> img.entry] \in Commands
    BY <1>img, ImageType DEF Commands, GoLine, GoAddr
  <2> QED BY <1>5, <2>1, JumpTransmit DEF SendGo
<1>6. CASE go_record /\ launches' = launches + 1
  <2>1. getline("G") /\ UNCHANGED <<run, phase, tries>>
    BY <1>6 DEF go_record, getline, host, session
  <2>2. Cardinality(Jumps') + 1 <= Cardinality(Jumps) BY <2>1, JumpsTaken
  <2>3. MayStillJump' = MayStillJump BY <2>1 DEF MayStillJump
  <2> QED BY <1>6, <1>t, <2>1, <2>2, <2>3 DEF JumpInv
<1>7. CASE /\ Thinned /\ UNCHANGED session /\ UNCHANGED launches
           /\ ~\E i \in Images : Bootstrap(i) \/ BootstrapFails(i) \/ Attach(i)
           /\ ~(SendHello \/ send_record \/ SendEnd \/ SendGo)
  <2>1. MayStillJump' => MayStillJump
    <3>1. CASE Advance
      BY <3>1 DEF Advance, AfterRecords, MayStillJump
    <3>2. CASE RejectImage \/ GiveUp \/ Interrupt
      BY <3>2 DEF RejectImage, GiveUp, Interrupt, MayStillJump
    <3>3. CASE UNCHANGED <<phase, tries>> BY <3>3 DEF MayStillJump
    <3>4. CASE Ignore \/ Timeout \/ LoaderStep \/ OtherReads \/ ProgramStores
      BY <3>3, <3>4 DEF Ignore, Timeout, LoaderStep, data_record, end_record, go_record, HelloOrBad,
         getline, OtherReads, ProgramStores, host
    <3>5. CASE ProgramReturns \/ CorruptCommand \/ LoseNewline \/ CorruptReply \/ UNCHANGED vars
      BY <3>3, <3>5 DEF ProgramReturns, CorruptCommand, LoseNewline, CorruptReply,
         LineFault, host, vars
    <3>6. \/ Advance \/ RejectImage \/ GiveUp \/ Interrupt \/ Ignore \/ Timeout \/ LoaderStep
          \/ OtherReads \/ ProgramStores \/ ProgramReturns
          \/ CorruptCommand \/ LoseNewline \/ CorruptReply \/ UNCHANGED vars
      BY <1>7 DEF Next, HostStep
    <3> QED BY <3>1, <3>2, <3>4, <3>5, <3>6
  <2> QED BY <1>7, <2>1, JumpKept DEF session
<1>8. UNCHANGED launches \/ (go_record /\ launches' = launches + 1)
  <2>1. CASE HostStep \/ Interrupt \/ UNCHANGED vars
    BY <2>1 DEF HostStep, SendHello, send_record, SendEnd, SendGo, Transmit, RejectImage, Advance,
       Ignore, Timeout, GiveUp, Interrupt, vars, hist
  <2>2. CASE LoaderStep \/ OtherReads \/ ProgramStores \/ ProgramReturns
    BY <2>2 DEF LoaderStep, data_record, Duplicate, Refuse, Store, ReadBackFails, end_record,
       go_record, HelloOrBad, OtherReads, ProgramStores, ProgramReturns, hist
  <2>3. CASE CorruptCommand \/ LoseNewline \/ CorruptReply
    BY <2>3 DEF CorruptCommand, LoseNewline, CorruptReply, LineFault, hist
  <2>4. CASE \E i \in Images : Bootstrap(i) \/ BootstrapFails(i) \/ Attach(i)
    BY <2>4 DEF Bootstrap, BootstrapFails, Attach, hist
  <2> QED BY <2>1, <2>2, <2>3, <2>4 DEF Next
<1> QED BY <1>1, <1>2, <1>3, <1>4, <1>5, <1>6, <1>7, <1>8, OnlyThinned

\* Whatever is retried, garbled, delayed or left over from another run, and even
\* if the program gives the board back: there are no more jumps than runs.
THEOREM OneJumpCorrect == Spec => []OneJumpPerRun
<1>1. Init => JumpInv
  <2> SUFFICES ASSUME Init PROVE JumpInv OBVIOUS
  <2>1. Jumps = {} BY DEF Init, Jumps
  <2>2. Cardinality(Jumps) = 0 BY <2>1, FS_EmptySet
  <2> QED BY <2>2 DEF Init, JumpInv, MayStillJump
<1>2. TypeOK /\ TypeOK' /\ JumpInv /\ [Next]_vars => JumpInv' BY JumpNext
<1>3. TypeOK /\ JumpInv => OneJumpPerRun
  <2>1. TypeOK => Cardinality(Jumps) \in Nat /\ launches \in Nat /\ run \in Int
    BY JumpTypes
  <2> QED BY <2>1 DEF JumpInv, OneJumpPerRun
<1> QED BY <1>1, <1>2, <1>3, TypeCorrect, PTL DEF Spec
=============================================================================
