----------------------------- MODULE Terminals -----------------------------
(***************************************************************************)
(* The terminals te (te.c) and te-rs (main.rs), uploading one file to the  *)
(* load-and-go monitor over a serial line with RTS/CTS: a full buffer      *)
(* holds its sender back.  te is two processes, one per direction; te-rs   *)
(* is one, which does not read while it writes and with --sync awaits the  *)
(* echo of each line.  The line may lose or change characters.             *)
(***************************************************************************)
EXTENDS LoadNGo, FiniteSets

CONSTANTS
  Files,               \* texts the user may upload
  BOARDBUF, HOSTBUF,   \* characters under way before a sender must wait
  Typed, Noise,        \* characters that are typed; that others change into
  MaxKeys,             \* bound: keys typed before the upload
  MaxFaults            \* bound: faults in each direction

ASSUME TerminalsAssumption ==
  /\ Files \subseteq Seq(Char) /\ Typed \subseteq Char /\ Noise \subseteq Char
  /\ BOARDBUF \in Nat \ {0} /\ HOSTBUF \in Nat \ {0}
  /\ MaxKeys \in Nat /\ MaxFaults \in Nat

\* A line, and what was typed before it, fits the buffers of host and board; the
\* host's alone have thousands of characters.
ASSUME LinesFit ==
  \A f \in Files : \A k \in DOMAIN f : \E j \in k .. k + BOARDBUF - MaxKeys - 1 :
    j = Len(f) \/ (j \in DOMAIN f /\ f[j] = NL)

VARIABLES
  kind,     \* "te", "te-rs" or "sync" (te-rs --sync)
  host,     \* "terminal", "prompt", "upload", "echo", "response", "exit"
  file,     \* file to upload
  pos,      \* its characters written
  got,      \* sync: characters of it that were echoed
  verdict,  \* of the upload: "none", "completed", "failed"
  keys,     \* keys typed
  clean,    \* history: the monitor was idle at a line's start, and heard, at ^R
  toBoard, toHost,
  faults    \* of each direction

hostvars == <<kind, file>>
wire     == <<toBoard, toHost, faults>>
vars     == <<monitor, hostvars, host, pos, got, verdict, keys, clean, wire>>

Idle == mode = "getline" /\ linbuf = <<>> /\ out = <<>> /\ toBoard = <<>>

-----------------------------------------------------------------------------
(* The line.  Each character arrives, is lost, or arrives as another. *)

Carry(queue, c, way) ==
  \/ queue' = Append(queue, c) /\ UNCHANGED faults
  \/ /\ faults[way] < MaxFaults /\ faults' = [faults EXCEPT ![way] = @ + 1]
     /\ \/ UNCHANGED queue
        \/ \E d \in Noise \ {c} : queue' = Append(queue, d)

PutCom(c) == Len(toBoard) < BOARDBUF /\ Carry(toBoard, c, "down") /\ UNCHANGED toHost

\* putchr, on the board.
Putchr ==
  /\ out # <<>> /\ out' = Tail(out) /\ Len(toHost) < HOSTBUF
  /\ Carry(toHost, Head(out), "up") /\ UNCHANGED toBoard

Received == toBoard' = Tail(toBoard) /\ UNCHANGED <<toHost, faults>>

Board ==
  /\ UNCHANGED <<hostvars, host, pos, got, verdict, keys, clean>>
  /\ \/ Putchr /\ UNCHANGED <<mode, linbuf, mem>>
     \/ toBoard # <<>> /\ Getline(Head(toBoard)) /\ Received
     \/ Obey /\ UNCHANGED wire

\* Whether it does either is up to the program.
Program ==
  /\ (ProgramReturns /\ UNCHANGED wire) \/ (toBoard # <<>> /\ ProgramReads /\ Received)
  /\ UNCHANGED <<hostvars, host, pos, got, verdict, keys, clean>>

-----------------------------------------------------------------------------
(* The terminal *)

Heard == toHost # <<>> /\ toHost' = Tail(toHost) /\ UNCHANGED <<toBoard, faults>>

\* What arrives is shown: by te's child at any time, by te-rs in its loop.
Show ==
  /\ Heard /\ host # "exit" /\ (kind = "te" \/ host = "terminal")
  /\ UNCHANGED <<monitor, hostvars, host, pos, got, verdict, keys, clean>>

\* One upload is modelled, so typing precedes it.
Type(c) ==
  /\ host = "terminal" /\ verdict = "none" /\ keys < MaxKeys /\ keys' = keys + 1 /\ PutCom(c)
  /\ UNCHANGED <<monitor, hostvars, host, pos, got, verdict, clean>>

\* ^R
AskFile ==
  /\ host = "terminal" /\ verdict = "none" /\ host' = "prompt"
  /\ UNCHANGED <<monitor, hostvars, pos, got, verdict, keys, clean, wire>>

\* rfopen, prompt_for_file: a file, no name at all, or a name that opens none,
\* which ends a session of te-rs --sync.
Open ==
  /\ host = "prompt" /\ host' = "upload" /\ clean' = (Idle /\ toHost = <<>>)
  /\ UNCHANGED <<monitor, hostvars, pos, got, verdict, keys, wire>>

OpenNone ==
  /\ host = "prompt"
  /\ \/ kind # "te" /\ host' = "terminal" /\ UNCHANGED verdict
     \/ verdict' = "failed" /\ host' = IF kind = "sync" THEN "exit" ELSE "terminal"
  /\ UNCHANGED <<monitor, hostvars, pos, got, keys, clean, wire>>

\* ^C: a signal for te; for te-rs a byte, which it does not read in an upload.
Break ==
  /\ host # "exit" /\ (kind = "te" \/ host \in {"terminal", "prompt"}) /\ host' = "exit"
  /\ UNCHANGED <<monitor, hostvars, pos, got, verdict, keys, clean, wire>>

\* Seeded bug: te-rs --sync awaits the echo of the whole file at its end.
FileEnds(p) == p = Len(file)

LineEnds(p) == p = Len(file) \/ file[p] = NL

\* te and te-rs write on; with --sync, te-rs writes a line and awaits its echo.
Write ==
  /\ host = "upload" /\ pos < Len(file) /\ PutCom(file[pos + 1]) /\ pos' = pos + 1
  /\ host' = IF kind = "sync" /\ LineEnds(pos + 1) THEN "echo" ELSE "upload"
  /\ UNCHANGED <<monitor, hostvars, got, verdict, keys, clean>>

Complete ==
  /\ host = "upload" /\ pos = Len(file) /\ host' = "terminal" /\ verdict' = "completed"
  /\ UNCHANGED <<monitor, hostvars, pos, got, keys, clean, wire>>

\* run ends with the error of a synchronised upload.
Fail == host' = "exit" /\ verdict' = "failed"

\* read_monitor_response_line: the rest of a message is read for its wording, to
\* the end of its line or to a wording that is known ("too long").
Respond(c) ==
  \/ c \in {NL, Report} /\ Fail
  \/ c # NL /\ host' = "response" /\ UNCHANGED verdict

Accepted ==
  got' = got + 1 /\ host' = (IF got' = pos THEN "upload" ELSE "echo") /\ UNCHANGED verdict

\* Seeded bugs: characters that differ are skipped until the right one comes;
\* the echo's characters are only counted.
EchoSkips(c)   == IF c = file[got + 1] THEN Accepted ELSE UNCHANGED <<got, host, verdict>>
EchoCounted(c) == Accepted

\* wait_for_echo, one character.
Echoed(c) == IF c = file[got + 1] THEN Accepted ELSE Respond(c) /\ UNCHANGED got

AwaitEcho ==
  /\ host = "echo" /\ Heard /\ Echoed(Head(toHost))
  /\ UNCHANGED <<monitor, hostvars, pos, keys, clean>>

ReadResponse ==
  /\ host = "response" /\ Heard /\ Respond(Head(toHost))
  /\ UNCHANGED <<monitor, hostvars, pos, got, keys, clean>>

\* SYNC_TIMEOUT outlasts what the board and the line have under way.
Quiet ==
  /\ toHost = <<>> /\ out = <<>>
  /\ mode = "running" \/ (mode = "getline" /\ toBoard = <<>>)

\* Seeded bug: the deadline is only looked at once a wrong character came.
TimeoutOfResponse ==
  /\ host = "response" /\ Quiet /\ Fail
  /\ UNCHANGED <<monitor, hostvars, pos, got, keys, clean, wire>>

Timeout ==
  /\ host \in {"echo", "response"} /\ Quiet /\ Fail
  /\ UNCHANGED <<monitor, hostvars, pos, got, keys, clean, wire>>

-----------------------------------------------------------------------------
Init ==
  /\ MonitorInit /\ kind \in {"te", "te-rs", "sync"} /\ file \in Files
  /\ host = "terminal" /\ pos = 0 /\ got = 0 /\ verdict = "none" /\ keys = 0
  /\ clean = FALSE /\ toBoard = <<>> /\ toHost = <<>> /\ faults = [down |-> 0, up |-> 0]

Upload == Write \/ Complete \/ AwaitEcho \/ ReadResponse \/ Timeout

Next ==
  \/ Board \/ Program \/ Show \/ AskFile \/ Open \/ OpenNone \/ Break \/ Upload
  \/ \E c \in Typed : Type(c)

Spec == Init /\ [][Next]_vars

\* The board and the terminals run; the user and the program owe nothing.
FairSpec == Spec /\ WF_vars(Board) /\ WF_vars(Show) /\ WF_vars(Upload)

-----------------------------------------------------------------------------
(* Properties *)

\* Buffers and counters stay in their bounds.
TypeOK ==
  /\ MonitorTypeOK
  /\ kind \in {"te", "te-rs", "sync"} /\ file \in Files
  /\ host \in {"terminal", "prompt", "upload", "echo", "response", "exit"}
  /\ pos \in 0 .. Len(file) /\ got \in 0 .. pos
  /\ verdict \in {"none", "completed", "failed"} /\ clean \in BOOLEAN /\ keys \in 0 .. MaxKeys
  /\ toBoard \in Seq(Char) /\ Len(toBoard) <= BOARDBUF
  /\ toHost \in Seq(Char \cup {Report, Jump}) /\ Len(toHost) <= HOSTBUF
  /\ faults \in [{"down", "up"} -> 0 .. MaxFaults]

\* The lines of the file, by the places where they start.
Starts == {k \in DOMAIN file : k = 1 \/ file[k - 1] = NL}
Line(k) ==
  LET end == CHOOSE e \in k .. Len(file) :
               /\ e = Len(file) \/ file[e] = NL
               /\ \A j \in k .. e - 1 : file[j] # NL
  IN SubSeq(file, k, end)
IsLast(k) == \A j \in Starts : j <= k

AllHex(text) == \A j \in DOMAIN text : text[j] \in Hex

\* What a line of a file that the tools write looks like.
Whole(line)   == Last(line) = NL /\ Len(line) < LINSIZ /\ ~Contains(line, CR)
Digits(line)  == SubSeq(line, 2, Len(line) - 1)
LoadLine(line) ==
  /\ Whole(line) /\ line[1] = "L" /\ AllHex(Digits(line))
  /\ \E n \in 1 .. LINSIZ : Len(Digits(line)) = ADDR + 2 * n
GoLine(line) == Whole(line) /\ line[1] = "G" /\ AllHex(Digits(line)) /\ Len(Digits(line)) \in 1 .. ADDR

Quietly(line) == LoadLine(line) \/ (Whole(line) /\ line[1] = ";")
IsLoadFile == \A k \in Starts : Quietly(Line(k)) \/ (IsLast(k) /\ GoLine(Line(k)))

\* The bytes a line gives: of each, all digits up to its own are there.
Given(line) ==
  {i \in 0 .. LINSIZ : \A n \in 2 .. ADDR + 2 * i + 3 : n \in DOMAIN line /\ line[n] \in Hex}
AddressOf(line, i) == (Value(SubSeq(line, 2, ADDR + 1)) + i) % Power[ADDR]
ByteOf(line, i)    == Value(SubSeq(line, ADDR + 2 + 2 * i, ADDR + 3 + 2 * i))

\* The bytes of the file's load lines, in the order of their places.
BytesOf(line, k) ==
  {[at |-> k + i, adr |-> AddressOf(line, i), byte |-> ByteOf(line, i)] : i \in Given(line)}
Image == UNION {BytesOf(Line(k), k) : k \in {j \in Starts : file[j] = "L"}}

Intact == faults = [down |-> 0, up |-> 0]
OneWay == faults.down = 0 \/ faults.up = 0

\* All has been written and obeyed; or all but the last line has been echoed,
\* and that line starts the program.
Finished == verdict = "completed" /\ (Idle \/ mode = "running")
OnlyGoAwaited ==
  mode = "running" /\ \E k \in Starts : IsLast(k) /\ GoLine(Line(k)) /\ k <= got + 1

\* te-rs --sync: when an upload has completed, or the file's last line has
\* started the program, memory holds what the file says, although the serial
\* line lost or changed characters in one direction.  te and te-rs without --sync
\* promise that when what they write arrives.  The upload must begin at a line's
\* start.
UploadIsStored ==
  /\ clean /\ IsLoadFile
  /\ \/ faults.down = 0 /\ (Finished \/ mode = "running")
     \/ kind = "sync" /\ faults.up = 0 /\ (Finished \/ OnlyGoAwaited)
  => \A b \in Image : (\A d \in Image : d.adr = b.adr => d.at <= b.at) => mem[b.adr] = b.byte

\* A line that the monitor rejects, or that starts a program, is not followed by
\* another in a completed upload of te-rs --sync: the message comes in place of
\* the next line's echo.  Only after the last line does nothing await it.
RejectedIsLast ==
  kind = "sync" /\ clean /\ Intact /\ verdict = "completed"
    => \A k \in Starts : IsLast(k) \/ Quietly(Line(k))

\* An upload of a proper file over an intact line is not reported as failed.
IntactCompletes == clean /\ IsLoadFile /\ Intact => verdict # "failed"

\* Neither te, whose second process keeps reading, nor te-rs --sync can come to
\* wait for a board that waits for it; te-rs alone does so, when it uploads a file
\* that, with the messages it brings about, is longer than all buffers between.
Stuck ==
  /\ host = "upload" /\ kind # "te" /\ Len(toBoard) = BOARDBUF
  /\ out # <<>> /\ Len(toHost) = HOSTBUF
OnlyUnsyncedSticks ==
  clean /\ IsLoadFile /\ OneWay /\ Stuck
    => kind = "te-rs" /\ (Intact => pos > BOARDBUF + HOSTBUF)

\* Flow control keeps every buffer in its bound, and blocks nothing but that.
FlowOK == TypeOK /\ OnlyUnsyncedSticks

\* loadngo.c: whatever reaches the monitor, a byte of memory changes only to one
\* that the line gives for it; but of a line that ends in an odd nybble, or whose
\* next digit is bad, the high nybble is left with a low one of zero.
ChangesAreOfLine ==
  \A a \in Address : mem'[a] # mem[a] =>
    \E i \in 0 .. LINSIZ :
      /\ a = AddressOf(linbuf, i)
      /\ \/ i \in Given(linbuf) /\ mem'[a] = ByteOf(linbuf, i)
         \/ /\ i \notin Given(linbuf) /\ (i = 0 \/ i - 1 \in Given(linbuf))
            /\ out' = <<Report, NL>> /\ mem'[a] = hexnum(linbuf[ADDR + 2 + 2 * i]) * RADIX
OnlyLineIsStored == [][mem' # mem => ChangesAreOfLine]_vars

\* An upload of te-rs --sync ends, completed or failed, even when characters were
\* lost or a program has the board; one of te ends unless a program does.
UploadEnds ==
  /\ (kind = "sync" /\ host = "upload") ~> (host \in {"terminal", "exit"})
  /\ (kind = "te" /\ host = "upload") ~> (host # "upload" \/ mode = "running")
=============================================================================
