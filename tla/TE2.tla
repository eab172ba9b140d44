-------------------------------- MODULE TE2 --------------------------------
(***************************************************************************)
(* The verified two-stage uploader: the host program te2 (te/te2/te2.c),   *)
(* the second-stage loader resident on the board (te/te2/te2-loader.c) and *)
(* the serial line between them.                                           *)
(*                                                                         *)
(* The host is stop-and-wait with a bounded number of attempts per         *)
(* command; the loader acknowledges, refuses, or recognises a duplicate.   *)
(* Text is abstracted to complete command and response lines:              *)
(*  - "bad" is any line the loader answers with some N.... line;           *)
(*  - ragged holds when bytes of an unterminated line sit in front of the  *)
(*    next command, which the loader will then read as one garbled line;   *)
(*  - a CRC is the data it was computed over, so no two streams collide.   *)
(* One record carries one cell, and one cell stands for the up to 32 bytes *)
(* of a D record.                                                          *)
(***************************************************************************)
EXTENDS Integers, Sequences

CONSTANTS
  Byte,            \* contents of a memory cell
  NoData,          \* marks a stream entry whose data was never folded
  LoaderBase,      \* first cell reserved for the loader (0x0fc000)
  Images,          \* the images a run of te2 may be asked to upload
  SeqMod,          \* sequence numbers wrap here (65536 in the code)
  Retries,         \* attempts per command, option -r
  MaxFaults,       \* bound: faults of the serial line
  MaxMemFaults,    \* bound: stores that do not take
  MaxRuns,         \* bound: runs of the host program
  Timely,          \* a response timeout only expires on a silent line
  ProgramsReturn   \* uploaded programs may return to the loader

Addr    == 0 .. LoaderBase
GoAddr  == Addr \cup {-1}   \* -1: 0x800000 and above, negative to the loader
Record  == [addr: Addr, data: Byte]

ASSUME TE2Assumption ==
  /\ LoaderBase \in Nat /\ SeqMod \in Nat /\ SeqMod > 1
  /\ Retries \in Nat /\ Retries > 0
  /\ MaxFaults \in Nat /\ MaxMemFaults \in Nat /\ MaxRuns \in Nat
  /\ Timely \in BOOLEAN /\ ProgramsReturn \in BOOLEAN
  /\ NoData \notin Byte
  /\ Images \subseteq [entry: Addr, recs: Seq(Record)]

VARIABLES
  phase,         \* where main() of the host is
  stage2_only,   \* option -2: this run attached to a running loader
  alone,         \* history: no line of an earlier run was still on its way then
  img,           \* the image of this run
  sent,          \* records acknowledged in this run; seq is sent % SeqMod
  tries,         \* attempts made of the current command
  waiting,       \* the host is in wait_line()
  run,           \* runs of the host program so far
  pc,            \* what the board executes: ROM, loader or uploaded program
  mem,           \* board memory
  expected_seq, stream_crc, finalized,     \* the loader's state
  toBoard, ragged, toHost,                 \* the line, both directions
  faults, memFaults,                       \* faults so far
  launch,        \* history: entry address and memory at the last jump
  launches       \* history: number of jumps

session == <<stage2_only, alone, img, run>>
host  == <<phase, session, sent, tries, waiting>>
board == <<pc, mem, expected_seq, stream_crc, finalized>>
line  == <<toBoard, ragged, toHost>>
hist  == <<launch, launches>>
vars  == <<host, board, line, faults, memFaults, hist>>

-----------------------------------------------------------------------------
(* Lines and checksums *)

Seqs     == 0 .. SeqMod - 1
Folded   == [seq: Seqs, addr: Addr, data: Byte \cup {NoData}]
DataLine == [cmd: {"D"}, seq: Seqs, rec: Record]
EndLine  == [cmd: {"E"}, seq: Seqs, crc: Seq(Folded)]
GoLine   == [cmd: {"G"}, addr: GoAddr]
Hello    == [cmd |-> "H"]
Bad      == [cmd |-> "bad"]
Commands == DataLine \cup EndLine \cup GoLine \cup {Hello, Bad}

Ack(s)    == [rsp |-> "A", seq |-> s]
Final(s)  == [rsp |-> "F", seq |-> s]
Jump(a)   == [rsp |-> "J", addr |-> a]
ReadyMsg  == [rsp |-> "READY"]
Nack      == [rsp |-> "N"]          \* any line no wait_line() looks for
Responses == [rsp: {"A", "F"}, seq: Seqs] \cup [rsp: {"J"}, addr: GoAddr]
               \cup {ReadyMsg, Nack}

Fold(s, r, d) == [seq |-> s, addr |-> r.addr, data |-> d]

\* The host's stream checksum over a list of records.
Stream(recs) == [i \in DOMAIN recs |-> Fold((i - 1) % SeqMod, recs[i], recs[i].data)]

\* Memory m holds the image: every cell has the last record written to it.
Holds(m, recs) ==
  \A i \in DOMAIN recs :
    (\A j \in DOMAIN recs : j > i => recs[j].addr # recs[i].addr)
      => m[recs[i].addr] = recs[i].data

seq == sent % SeqMod

Active == {"attach", "data", "end", "go"}

-----------------------------------------------------------------------------
Init ==
  /\ phase = "off" /\ stage2_only = FALSE /\ alone = TRUE /\ img \in Images
  /\ sent = 0 /\ tries = 0 /\ waiting = FALSE /\ run = 0
  /\ pc = "rom" /\ mem \in [Addr -> Byte]
  /\ expected_seq = 0 /\ stream_crc = <<>> /\ finalized = FALSE
  /\ toBoard = <<>> /\ ragged = FALSE /\ toHost = <<>>
  /\ faults = 0 /\ memFaults = 0
  /\ launch = [addr |-> LoaderBase, mem |-> mem] /\ launches = 0

-----------------------------------------------------------------------------
(* Host *)

AfterRecords(recs, n) == IF n < Len(recs) THEN "data" ELSE "end"

StartRun(only, i) ==
  /\ phase \notin Active /\ run < MaxRuns
  /\ run' = run + 1 /\ stage2_only' = only /\ alone' = (only => toBoard = <<>>) /\ img' = i
  /\ sent' = 0 /\ tries' = 0 /\ waiting' = FALSE

\* Reset the board, load te2.lgo through the ROM monitor, see it start: a
\* successful bootstrap() ends with the loader's own initialisation.
Bootstrap(i) ==
  /\ StartRun(FALSE, i)
  /\ phase' = AfterRecords(i.recs, 0)
  /\ pc' = "loader" /\ expected_seq' = 0 /\ stream_crc' = <<>> /\ finalized' = FALSE
  /\ toBoard' = <<>> /\ ragged' = FALSE /\ toHost' = <<>>
  /\ UNCHANGED <<mem, faults, memFaults, hist>>

\* An echo that stays wrong, the 25-second deadline or a missing READY: die().
BootstrapFails(i) ==
  /\ StartRun(FALSE, i)
  /\ phase' = "dead"
  /\ pc' = "rom" /\ UNCHANGED <<mem, expected_seq, stream_crc, finalized>>
  /\ toBoard' = <<>> /\ ragged' = FALSE /\ toHost' = <<>>
  /\ UNCHANGED <<faults, memFaults, hist>>

\* te2 -2: drain what the receiver process has collected so far.
Attach(i) ==
  /\ StartRun(TRUE, i)
  /\ phase' = "attach"
  /\ toHost' = <<>>
  /\ UNCHANGED <<board, toBoard, ragged, faults, memFaults, hist>>

\* One attempt: the line goes out whole, or send_flow_text() gives up on CTS
\* or on a write, perhaps leaving a part of the line on the wire.
Transmit(c, limit) ==
  /\ ~waiting /\ tries < limit
  /\ tries' = tries + 1
  /\ \/ /\ waiting' = TRUE
        /\ toBoard' = Append(toBoard, IF ragged THEN Bad ELSE c)
        /\ ragged' = FALSE
        /\ UNCHANGED faults
     \/ /\ faults < MaxFaults /\ faults' = faults + 1
        /\ ragged' \in {ragged, TRUE}
        /\ UNCHANGED <<waiting, toBoard>>
  /\ UNCHANGED <<phase, session, sent, board, toHost, memFaults, hist>>

BelowLoader(a) == a < LoaderBase

SendHello == phase = "attach" /\ Transmit(Hello, 1)

send_record ==
  /\ phase = "data" /\ BelowLoader(img.recs[sent + 1].addr)
  /\ Transmit([cmd |-> "D", seq |-> seq, rec |-> img.recs[sent + 1]], Retries)

SendEnd ==
  /\ phase = "end" /\ BelowLoader(img.entry)
  /\ Transmit([cmd |-> "E", seq |-> seq, crc |-> Stream(img.recs)], Retries)

\* Seeded bug: the jump is retried like any other command.
SendGoRetried == phase = "go" /\ Transmit([cmd |-> "G", addr |-> img.entry], Retries)

SendGo == phase = "go" /\ Transmit([cmd |-> "G", addr |-> img.entry], 1)

\* send_verified_image() dies on a record over the loader and on an entry
\* address that is missing or reserved.
RejectImage ==
  /\ ~waiting /\ tries = 0
  /\ \/ phase = "data" /\ ~BelowLoader(img.recs[sent + 1].addr)
     \/ phase = "end" /\ ~BelowLoader(img.entry)
  /\ phase' = "dead"
  /\ UNCHANGED <<session, sent, tries, waiting, board, line, faults, memFaults, hist>>

Expected ==
  CASE phase = "attach" -> ReadyMsg
    [] phase = "data"   -> Ack(seq)
    [] phase = "end"    -> Final(seq)
    [] phase = "go"     -> Jump(img.entry)
    [] OTHER            -> Nack

\* wait_line() reads the expected line: on to the next command.
Advance ==
  /\ phase \in Active /\ waiting /\ toHost # <<>> /\ Head(toHost) = Expected
  /\ toHost' = Tail(toHost)
  /\ waiting' = FALSE /\ tries' = 0
  /\ \/ phase = "attach" /\ phase' = AfterRecords(img.recs, sent) /\ UNCHANGED sent
     \/ phase = "data" /\ sent' = sent + 1 /\ phase' = AfterRecords(img.recs, sent + 1)
     \/ phase = "end" /\ phase' = "go" /\ UNCHANGED sent
     \/ phase = "go" /\ phase' = "terminal" /\ UNCHANGED sent
  /\ UNCHANGED <<session, board, toBoard, ragged, faults, memFaults, hist>>

\* wait_line() reports any other line and keeps waiting.
Ignore ==
  /\ phase \in Active /\ waiting /\ toHost # <<>> /\ Head(toHost) # Expected
  /\ toHost' = Tail(toHost)
  /\ UNCHANGED <<host, board, toBoard, ragged, faults, memFaults, hist>>

Timeout ==
  /\ phase \in Active /\ waiting
  /\ Timely => toBoard = <<>> /\ toHost = <<>>
  /\ waiting' = FALSE
  /\ UNCHANGED <<phase, session, sent, tries, board, line, faults, memFaults, hist>>

\* Seeded bugs: nothing gives up on H and G; one attempt too few.
GiveUpRetriedOnly ==
  /\ ~waiting /\ phase \in {"data", "end"} /\ tries = Retries
  /\ phase' = "dead"
  /\ UNCHANGED <<session, sent, tries, waiting, board, line, faults, memFaults, hist>>

GiveUpEarly ==
  /\ ~waiting /\ phase \in {"data", "end"} /\ tries = Retries - 1
  /\ phase' = "dead"
  /\ UNCHANGED <<session, sent, tries, waiting, board, line, faults, memFaults, hist>>

\* Only data and end records are retried; H and G are sent once.
GiveUp ==
  /\ ~waiting
  /\ \/ phase \in {"data", "end"} /\ tries = Retries
     \/ phase \in {"attach", "go"} /\ tries = 1
  /\ phase' = "dead"
  /\ UNCHANGED <<session, sent, tries, waiting, board, line, faults, memFaults, hist>>

\* SIGINT or SIGTERM ends the run wherever it is, while it sends in the middle
\* of a line; so does leaving the terminal.
Interrupt ==
  /\ phase \in Active \cup {"terminal"}
  /\ phase' = "killed" /\ waiting' = FALSE
  /\ ragged' \in IF waiting THEN {ragged} ELSE {ragged, TRUE}
  /\ UNCHANGED <<session, sent, tries, board, toBoard, toHost, faults, memFaults, hist>>

-----------------------------------------------------------------------------
(* Loader: main() takes one line and answers it *)

Line == Head(toBoard)

getline(cmd) ==
  /\ pc = "loader" /\ toBoard # <<>> /\ Line.cmd = cmd
  /\ toBoard' = Tail(toBoard)
  /\ UNCHANGED <<host, ragged, faults>>

Answer(r) == toHost' = Append(toHost, r)

last_seq == (expected_seq + SeqMod - 1) % SeqMod

\* Seeded bug: a duplicate is folded into the stream again.
DuplicateFolds ==
  /\ Line.seq = last_seq
  /\ stream_crc' = Append(stream_crc, Fold(Line.seq, Line.rec, Line.rec.data))
  /\ Answer(Ack(Line.seq))
  /\ UNCHANGED <<pc, mem, expected_seq, finalized, memFaults, hist>>

\* A retry of the record just accepted: acknowledged, not written again.
Duplicate ==
  /\ Line.seq = last_seq
  /\ Answer(Ack(Line.seq))
  /\ UNCHANGED <<board, memFaults, hist>>

Acceptable == Line.seq = expected_seq /\ BelowLoader(Line.rec.addr)

Refuse ==
  /\ Line.seq # last_seq /\ ~Acceptable
  /\ Answer(Nack)
  /\ UNCHANGED <<board, memFaults, hist>>

Store ==
  /\ Acceptable
  /\ mem' = [mem EXCEPT ![Line.rec.addr] = Line.rec.data]
  /\ stream_crc' = Append(stream_crc, Fold(Line.seq, Line.rec, Line.rec.data))
  /\ expected_seq' = (expected_seq + 1) % SeqMod
  /\ finalized' = FALSE
  /\ Answer(Ack(Line.seq))
  /\ UNCHANGED <<pc, memFaults, hist>>

\* Seeded bug: the checksum folds what arrived instead of what was read back.
ReadBackIgnored ==
  /\ Acceptable
  /\ memFaults < MaxMemFaults /\ memFaults' = memFaults + 1
  /\ \E b \in Byte \ {Line.rec.data} : mem' = [mem EXCEPT ![Line.rec.addr] = b]
  /\ stream_crc' = Append(stream_crc, Fold(Line.seq, Line.rec, Line.rec.data))
  /\ expected_seq' = (expected_seq + 1) % SeqMod
  /\ finalized' = FALSE
  /\ Answer(Ack(Line.seq))
  /\ UNCHANGED <<pc, hist>>

\* The store does not take: the header is already in stream_crc when the
\* read-back differs, and it stays there.
ReadBackFails ==
  /\ Acceptable
  /\ memFaults < MaxMemFaults /\ memFaults' = memFaults + 1
  /\ \E b \in Byte \ {Line.rec.data} : mem' = [mem EXCEPT ![Line.rec.addr] = b]
  /\ stream_crc' = Append(stream_crc, Fold(Line.seq, Line.rec, NoData))
  /\ Answer(Nack)
  /\ UNCHANGED <<pc, expected_seq, finalized, hist>>

data_record == getline("D") /\ (Duplicate \/ Refuse \/ Store \/ ReadBackFails)

\* Seeded bug: the final checksum is not compared.
MatchesSeqOnly(c) == c.seq = expected_seq

Matches(c) == c.seq = expected_seq /\ c.crc = stream_crc

end_record ==
  /\ getline("E")
  /\ \/ Matches(Line) /\ finalized' = TRUE /\ Answer(Final(Line.seq))
     \/ ~Matches(Line) /\ UNCHANGED finalized /\ Answer(Nack)
  /\ UNCHANGED <<pc, mem, expected_seq, stream_crc, memFaults, hist>>

\* The comparison is signed: a negative address is below the loader too.
MayJump(c) == finalized /\ BelowLoader(c.addr)

go_record ==
  /\ getline("G")
  /\ \/ /\ MayJump(Line)
        /\ Answer(Jump(Line.addr))
        /\ pc' = "program"
        /\ launch' = [addr |-> Line.addr, mem |-> mem] /\ launches' = launches + 1
     \/ /\ ~MayJump(Line)
        /\ Answer(Nack)
        /\ UNCHANGED <<pc, hist>>
  /\ UNCHANGED <<mem, expected_seq, stream_crc, finalized, memFaults>>

HelloOrBad ==
  /\ \/ getline("H") /\ Answer(ReadyMsg)
     \/ getline("bad") /\ Answer(Nack)
  /\ UNCHANGED <<board, memFaults, hist>>

-----------------------------------------------------------------------------
(* Board: the ROM monitor and the uploaded program *)

\* Neither of them answers a te2 command with a line te2 waits for.
OtherReads ==
  /\ pc # "loader" /\ toBoard # <<>>
  /\ toBoard' = Tail(toBoard)
  /\ toHost' = Append(toHost, Nack)
  /\ UNCHANGED <<host, board, ragged, faults, memFaults, hist>>

ProgramStores ==
  /\ pc = "program"
  /\ \E a \in 0 .. LoaderBase - 1, b \in Byte : mem' = [mem EXCEPT ![a] = b]
  /\ UNCHANGED <<host, pc, expected_seq, stream_crc, finalized, line, faults, memFaults, hist>>

\* go_record() calls the program; when it returns, main() takes the next line.
ProgramReturns ==
  /\ pc = "program" /\ ProgramsReturn
  /\ pc' = "loader"
  /\ UNCHANGED <<host, mem, expected_seq, stream_crc, finalized, line, faults, memFaults, hist>>

-----------------------------------------------------------------------------
(* Serial line *)

LineFault ==
  /\ faults < MaxFaults /\ faults' = faults + 1
  /\ UNCHANGED <<host, board, memFaults, hist>>

\* A garbled command is refused; a G record has no checksum, so its address
\* may change unnoticed, to a negative one as well.
CorruptCommand ==
  /\ LineFault
  /\ \E i \in DOMAIN toBoard :
       \E c \in {Bad} \cup (IF toBoard[i].cmd = "G" THEN GoLine ELSE {}) :
         toBoard' = [toBoard EXCEPT ![i] = c]
  /\ UNCHANGED <<ragged, toHost>>

\* A lost newline makes one garbled line of two, or of one and what follows.
LoseNewline ==
  /\ LineFault
  /\ \E i \in DOMAIN toBoard :
       IF i < Len(toBoard)
       THEN /\ toBoard' = [SubSeq(toBoard, 1, i) \o SubSeq(toBoard, i + 2, Len(toBoard))
                             EXCEPT ![i] = Bad]
            /\ UNCHANGED ragged
       ELSE toBoard' = SubSeq(toBoard, 1, i - 1) /\ ragged' = TRUE
  /\ UNCHANGED toHost

\* Replies have no checksum: an acknowledgement may turn into another.
CorruptReply ==
  /\ LineFault
  /\ \E i \in DOMAIN toHost :
       \E r \in {Nack} \cup (IF toHost[i].rsp = "A" THEN {Ack(s) : s \in Seqs} ELSE {}) :
         toHost' = [toHost EXCEPT ![i] = r]
  /\ UNCHANGED <<toBoard, ragged>>

-----------------------------------------------------------------------------
HostStep ==
  \/ SendHello \/ send_record \/ SendEnd \/ SendGo
  \/ RejectImage \/ Advance \/ Ignore \/ Timeout \/ GiveUp

LoaderStep == data_record \/ end_record \/ go_record \/ HelloOrBad

Next ==
  \/ \E i \in Images : Bootstrap(i) \/ BootstrapFails(i) \/ Attach(i)
  \/ HostStep \/ Interrupt
  \/ LoaderStep
  \/ OtherReads \/ ProgramStores \/ ProgramReturns
  \/ CorruptCommand \/ LoseNewline \/ CorruptReply

Spec == Init /\ [][Next]_vars

\* The host never stops on its own between two lines of main(), and the
\* board's CPU keeps running whatever it runs.
FairSpec == Spec /\ WF_vars(HostStep) /\ WF_vars(LoaderStep \/ OtherReads)

-----------------------------------------------------------------------------
(* Properties *)

\* Every variable stays within the values the C variables can take.
TypeOK ==
  /\ phase \in Active \cup {"off", "terminal", "dead", "killed"}
  /\ stage2_only \in BOOLEAN /\ alone \in BOOLEAN /\ img \in Images /\ waiting \in BOOLEAN
  /\ sent \in Nat /\ (phase = "data" => sent < Len(img.recs))
  /\ tries \in 0 .. Retries /\ run \in 0 .. MaxRuns
  /\ pc \in {"rom", "loader", "program"} /\ mem \in [Addr -> Byte]
  /\ expected_seq \in Seqs /\ stream_crc \in Seq(Folded) /\ finalized \in BOOLEAN
  /\ toBoard \in Seq(Commands) /\ ragged \in BOOLEAN /\ toHost \in Seq(Responses)
  /\ faults \in 0 .. MaxFaults /\ memFaults \in 0 .. MaxMemFaults
  /\ launch \in [addr: GoAddr, mem: [Addr -> Byte]] /\ launches \in Nat

Unspoilt == \A i \in DOMAIN stream_crc : stream_crc[i].data # NoData

\* What the loader calls finalized is a whole image: its running checksum is
\* that of an image some run asked for, and memory holds that image, whatever
\* the line did to commands and replies and however many runs were mixed.
FinalizedIsImage ==
  pc = "loader" /\ finalized /\ Unspoilt /\ ~ProgramsReturn =>
    \E i \in Images : stream_crc = Stream(i.recs) /\ Holds(mem, i.recs)

\* The inductive invariant behind it: E records carry checksums of requested
\* images, memory follows the running checksum, and finalized means the
\* checksum is an image's.
EndsAreImages ==
  \A k \in DOMAIN toBoard :
    toBoard[k].cmd = "E" => \E i \in Images : toBoard[k].crc = Stream(i.recs)

MemoryFollowsStream ==
  pc = "loader" /\ ~ProgramsReturn =>
    \A k \in DOMAIN stream_crc :
      (\A j \in DOMAIN stream_crc : j > k => stream_crc[j].addr # stream_crc[k].addr)
        => stream_crc[k].data \in {NoData, mem[stream_crc[k].addr]}

FinalizedIsStream ==
  finalized /\ Unspoilt => \E i \in Images : stream_crc = Stream(i.recs)

\* The four parts together: what the loader computed over lines agrees with
\* the memory it wrote, and no stream is spoilt unless a store has failed.
ImageInv ==
  EndsAreImages /\ MemoryFollowsStream /\ FinalizedIsStream /\ (memFaults = 0 => Unspoilt)

\* The board only ever starts a program while memory holds all of an image
\* that some run was asked to upload.
JumpOntoImage ==
  [][launches' # launches => \E i \in Images : Holds(launch'.mem, i.recs)]_vars

\* te2 opens its terminal only on a board that jumped to this image's entry
\* while memory held this image, also when G was garbled, when answers come
\* late, and when the run attached to a loader another run left behind, but for
\* one that did so while lines of that other run were on their way.
TerminalMeansImage ==
  alone /\ phase = "terminal" =>
    launch.addr = img.entry /\ Holds(launch.mem, img.recs)

\* Once such a run believes the final checksum, the loader stands ready to jump
\* with exactly this image in memory.
BelievedIsFinalized ==
  alone /\ phase = "go" /\ pc = "loader" =>
    finalized /\ stream_crc = Stream(img.recs) /\ Holds(mem, img.recs)

\* The jump is never resent blindly: no run makes the board jump twice.
OneJumpPerRun == launches <= run

\* After a bootstrap, retries, duplicates and forged acknowledgements leave no
\* trace in the stream checksum: when the loader stands at the record the host
\* stands at and every store took, the final comparison succeeds.
IntactUploadVerifies ==
  phase = "end" /\ ~stage2_only /\ expected_seq = seq /\ Unspoilt
    /\ Len(img.recs) < SeqMod
      => stream_crc = Stream(img.recs)

\* No run waits forever: every upload ends in a terminal, a die() or a signal.
RunsEnd == (phase \in Active) ~> (phase \notin Active)

Loadable(i) ==
  BelowLoader(i.entry) /\ \A k \in DOMAIN i.recs : BelowLoader(i.recs[k].addr)

\* With prompt answers, Retries > 2 * MaxFaults attempts outlast the faults of
\* the line: a bootstrapped upload always gets its image verified.  A fault may
\* cost two attempts, the failing one and the one its leftover bytes garble.
FewFaultsVerify ==
  (phase = "data" /\ ~stage2_only /\ Loadable(img)) ~> (phase \in {"go", "terminal", "killed"})
=============================================================================
