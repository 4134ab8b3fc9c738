------------------------------ MODULE Commands ------------------------------
(***************************************************************************)
(* The tools that start a program (internal/tools/repo_exec.go,             *)
(* coder_exec.go): the process, the goroutines that copy what it prints     *)
(* into the result and, line by line, into the journal of the run           *)
(* (toolInvocationLogSink), the deadline that kills it and the file in      *)
(* which codex leaves its answer. One call after the other.                 *)
(*                                                                         *)
(* A text is a sequence of "c" (something visible) and "n" (a newline); a    *)
(* place in it is a number. Bounds: Texts, MaxCommands, MaxOutput.          *)
(***************************************************************************)
EXTENDS Naturals, Sequences, FiniteSets, Sorted

CONSTANTS Texts, MaxCommands, MaxOutput

ASSUME CommandsAssumption ==
  /\ Texts \subseteq Seq({"c", "n"}) /\ MaxCommands \in Nat /\ MaxOutput \in Nat

VARIABLES
  command,   \* the request of the call, and how far the call is
  process,   \* the program: its state, and whether a child of it has its pipes
  printed,   \* per stream: what the program prints, and how much it has
  copier,    \* per stream: the goroutine that reads it
  logged,    \* per stream: the tool_log_recorded events of the call
  expired,   \* the deadline of the call has passed
  capture,   \* the file for codex's answer
  reported,  \* the result of the call
  commandsRun

commandsVars == <<command, process, printed, copier, logged, expired, capture, reported, commandsRun>>

PipedStreams == {"stdout", "stderr"}
StreamsOf(pty) == IF pty THEN {"terminal"} ELSE PipedStreams

NoCommand == [at |-> "idle", pty |-> FALSE, captures |-> FALSE]
NotStarted == [state |-> "none", held |-> FALSE]
NoReport == [ok |-> FALSE, late |-> FALSE, kept |-> [s \in {} |-> 0], cut |-> FALSE]
NoneCopied == [state |-> "reading", taken |-> 0, sent |-> 0]

CommandsInit ==
  /\ command = NoCommand /\ process = NotStarted
  /\ printed = [s \in {} |-> 0] /\ copier = [s \in {} |-> NoneCopied]
  /\ logged = [s \in {} |-> <<>>] /\ expired = FALSE /\ capture = "none" /\ reported = NoReport
  /\ commandsRun = 0

-----------------------------------------------------------------------------
(* The requests.                                                           *)

commandRequest(pty, captures) == [at |-> "start", pty |-> pty, captures |-> captures]

\* The patch comes on the standard input.
ApplyPatch == commandRequest(FALSE, FALSE)
ShellExec == commandRequest(FALSE, FALSE)
RunTests == commandRequest(FALSE, FALSE)
RunBuild == commandRequest(FALSE, FALSE)
GitStatus == commandRequest(FALSE, FALSE)
GitDiff == commandRequest(FALSE, FALSE)
GitShow == commandRequest(FALSE, FALSE)
GitLog == commandRequest(FALSE, FALSE)
claudeCode == commandRequest(TRUE, FALSE)
codex == commandRequest(TRUE, TRUE)

Requests ==
  {ApplyPatch, ShellExec, RunTests, RunBuild, GitStatus, GitDiff, GitShow, GitLog, claudeCode, codex}

\* Everything that can be wrong with the input is found before: no such
\* directory, no test command, arguments that need an approval. The capture
\* file is created with the request.
Ask ==
  /\ command.at = "idle" /\ commandsRun < MaxCommands
  /\ commandsRun' = commandsRun + 1
  /\ \E r \in Requests :
       /\ command' = r
       /\ capture' = IF r.captures THEN "empty" ELSE "none"
       /\ \E t \in [StreamsOf(r.pty) -> Texts] :
            printed' = [s \in DOMAIN t |-> [text |-> t[s], out |-> 0]]
       /\ copier' = [s \in StreamsOf(r.pty) |-> NoneCopied]
       /\ logged' = [s \in StreamsOf(r.pty) |-> <<>>]
  /\ expired' = FALSE /\ reported' = NoReport /\ process' = NotStarted

-----------------------------------------------------------------------------
(* The process.                                                            *)

StartProcess ==
  /\ command.at = "start" /\ ~expired
  /\ command' = [command EXCEPT !.at = "run"]
  /\ process' = [state |-> "running", held |-> FALSE]
  /\ UNCHANGED <<printed, copier, logged, expired, capture, reported, commandsRun>>

\* Nobody reads a stream whose copier gave up: the pipe is closed, the terminal
\* still takes what is printed.
PrintMore(s) ==
  /\ process.state = "running" /\ printed[s].out < Len(printed[s].text)
  /\ command.pty \/ copier[s].state # "failed"
  /\ \E n \in (printed[s].out + 1)..Len(printed[s].text) : printed' = [printed EXCEPT ![s].out = n]
  /\ UNCHANGED <<command, process, copier, logged, expired, capture, reported, commandsRun>>

\* What it started may outlive it, and keep its pipes open.
Exit ==
  /\ process.state = "running"
  /\ \E how \in {"done", "failed"}, held \in BOOLEAN :
       /\ how = "done" => \A s \in DOMAIN printed : printed[s].out = Len(printed[s].text)
       /\ process' = [state |-> how, held |-> held]
       /\ capture' \in IF how = "done" /\ command.captures THEN {"empty", "answer"} ELSE {capture}
  /\ UNCHANGED <<command, printed, copier, logged, expired, reported, commandsRun>>

ChildrenEnd ==
  /\ process.held /\ process.state # "running"
  /\ process' = [process EXCEPT !.held = FALSE]
  /\ UNCHANGED <<command, printed, copier, logged, expired, capture, reported, commandsRun>>

Deadline ==
  /\ command.at \in {"start", "run", "closed"} /\ ~expired
  /\ expired' = TRUE
  /\ UNCHANGED <<command, process, printed, copier, logged, capture, reported, commandsRun>>

\* Only the process itself is killed.
Kill ==
  /\ expired /\ process.state = "running"
  /\ \E held \in BOOLEAN : process' = [state |-> "killed", held |-> held]
  /\ UNCHANGED <<command, printed, copier, logged, expired, capture, reported, commandsRun>>

-----------------------------------------------------------------------------
(* The copiers.                                                            *)

\* The line, or the rest, that begins at place i of a text that ends at n.
EndOfLine(text, i, n) ==
  LET ends == {j \in (i + 1)..n : text[j] = "n"}
  IN  IF ends = {} THEN 0 ELSE CHOOSE j \in ends : \A k \in ends : j <= k

Visible(text, i, n) == \E j \in (i + 1)..n : text[j] = "c"

\* The records of whole lines between two places.
LineRecords(s, from, n) ==
  LET text == printed[s].text
      begins == {i \in from..n : (i = from \/ text[i] = "n") /\ EndOfLine(text, i, n) > 0}
  IN  {[from |-> i, to |-> EndOfLine(text, i, n)] : i \in begins}

\* A record that is not blank is an event to be stored.
Stored(s, records) == {r \in records : Visible(printed[s].text, r.from, r.to)}

ByPlace(records) == SortedBy(records, {d \in records \X records : d[1].from < d[2].from})

Logged(s) == {logged[s][i] : i \in DOMAIN logged[s]}

\* The events of a stream's records are added to the journal.
Log(s, records) == logged' = [logged EXCEPT ![s] = @ \o ByPlace(Stored(s, records))]

\* Mutant: what was sent stays in the buffer of what is to be sent.
SendAgain(s, n) ==
  LET lines == LineRecords(s, copier[s].sent, n)
  IN  /\ Log(s, lines)
      /\ copier' = [copier EXCEPT ![s].taken = n]

\* Write and flushLines: all is captured, and what ends with a newline is sent.
flushLines(s, n) ==
  LET lines == LineRecords(s, copier[s].sent, n)
      sent == IF lines = {} THEN copier[s].sent
              ELSE CHOOSE p \in {r.to : r \in lines} : \A r \in lines : r.to <= p
  IN  /\ Log(s, lines)
      /\ copier' = [copier EXCEPT ![s].taken = n, ![s].sent = sent]

\* A terminal's chunk is one record.
SendChunk(s, n) ==
  /\ Log(s, {[from |-> copier[s].taken, to |-> n]})
  /\ copier' = [copier EXCEPT ![s].taken = n, ![s].sent = n]

\* The event could not be stored, after the lines up to p were: because the
\* deadline has passed, whose context it is, or for a reason of the store.
SinkFails(s, n) ==
  \E r \in Stored(s, LineRecords(s, copier[s].sent, n)) :
    LET before == LineRecords(s, copier[s].sent, r.from)
    IN  /\ expired => Stored(s, before) = {}
        /\ Log(s, before)
        /\ copier' = [copier EXCEPT ![s].taken = n, ![s].sent = r.from, ![s].state = "failed"]

\* A terminal's chunk is captured, but not sent a second time.
ChunkFails(s, n) ==
  /\ Visible(printed[s].text, copier[s].taken, n)
  /\ copier' = [copier EXCEPT ![s].taken = n, ![s].state = "failed"]
  /\ UNCHANGED logged

\* With the deadline the context of the events has ended.
Copy(s) ==
  /\ command.at \in {"run", "closed"} /\ copier[s].state = "reading"
  /\ \E n \in (copier[s].taken + 1)..printed[s].out :
       IF command.pty
       THEN \/ SendChunk(s, n) /\ (expired => logged' = logged)
            \/ ChunkFails(s, n)
       ELSE \/ flushLines(s, n) /\ (expired => logged' = logged)
            \/ SinkFails(s, n)
  /\ UNCHANGED <<command, process, printed, expired, capture, reported, commandsRun>>

\* The end of the stream: nobody has it open any more. The terminal is closed
\* under its reader, whatever it has not read yet.
EndOfStream(s) ==
  /\ process.state \notin {"none", "running"} /\ copier[s].state = "reading"
  /\ IF command.pty THEN \/ command.at = "closed"
                         \/ copier[s].taken = printed[s].out /\ ~process.held
                    ELSE copier[s].taken = printed[s].out /\ ~process.held
  /\ copier' = [copier EXCEPT ![s].state = "ended"]
  /\ UNCHANGED <<command, process, printed, logged, expired, capture, reported, commandsRun>>

-----------------------------------------------------------------------------
(* The result.                                                             *)

Cut(n) == IF n > MaxOutput THEN MaxOutput ELSE n

\* How the call ends: an exit status, an error that the copying or the last
\* flush ended with, or the deadline that a finished process was too late for.
Outcomes(copied, flushed) ==
  CASE process.state \in {"failed", "killed"} -> {"exit"}
    [] process.state = "done" /\ copied /\ flushed -> {"ok"} \cup (IF expired THEN {"other"} ELSE {})
    [] OTHER -> {"other"}

Report(how) ==
  reported' = [ok |-> how = "ok", late |-> how = "other" /\ expired,
               kept |-> [s \in DOMAIN copier |-> Cut(copier'[s].taken)],
               cut |-> \E s \in DOMAIN copier : copier'[s].taken > MaxOutput]

\* Mutant: the file is left when there is no answer in it.
LeaveCapture == capture' = IF capture = "empty" THEN "empty" ELSE "none"

\* The answer, if there is one, takes the place of what was printed.
RemoveCapture == capture' = "none"

\* The program could not be started, or the deadline had passed before.
StartFails ==
  /\ command.at = "start"
  /\ command' = NoCommand
  /\ reported' = [ok |-> FALSE, late |-> ~command.pty /\ expired, kept |-> [s \in {} |-> 0], cut |-> FALSE]
  /\ IF command.pty THEN UNCHANGED capture ELSE RemoveCapture
  /\ UNCHANGED <<process, printed, copier, logged, expired, commandsRun>>

\* What is left of a stream, whole lines and what follows the last of them.
Rest(s) ==
  LET c == copier[s]
      last == {i \in c.sent..(c.taken - 1) :
                 (i = c.sent \/ printed[s].text[i] = "n") /\ EndOfLine(printed[s].text, i, c.taken) = 0}
  IN  Stored(s, LineRecords(s, c.sent, c.taken) \cup {[from |-> i, to |-> c.taken] : i \in last})

\* It is sent up to a record that cannot be stored; a copier that gave up left
\* the record that it could not send.
runPiped ==
  /\ command.at = "run" /\ ~command.pty
  /\ process.state \notin {"none", "running"}
  /\ \A s \in DOMAIN copier : copier[s].state # "reading"
  /\ \E upto \in [DOMAIN copier -> 0..Len(printed["stdout"].text) + Len(printed["stderr"].text)] :
       /\ \A s \in DOMAIN copier :
            /\ upto[s] \in {copier[s].taken} \cup {r.from : r \in Rest(s)}
            /\ expired => \A r \in Rest(s) : upto[s] <= r.from
       /\ logged' = [s \in DOMAIN copier |-> logged[s] \o ByPlace({r \in Rest(s) : r.to <= upto[s]})]
       /\ copier' = [s \in DOMAIN copier |-> [copier[s] EXCEPT !.sent = upto[s]]]
       /\ \E how \in Outcomes(\A s \in DOMAIN copier : copier[s].state = "ended",
                               \A s \in DOMAIN copier : upto[s] = copier[s].taken) :
            Report(how)
  /\ command' = NoCommand /\ RemoveCapture
  /\ UNCHANGED <<process, printed, expired, commandsRun>>

\* The process is gone: its terminal is closed,
CloseTerminal ==
  /\ command.at = "run" /\ command.pty /\ process.state \notin {"none", "running"}
  /\ command' = [command EXCEPT !.at = "closed"]
  /\ UNCHANGED <<process, printed, copier, logged, expired, capture, reported, commandsRun>>

\* and when its reader has noticed, the call returns.
runPTY ==
  /\ command.at = "closed" /\ copier["terminal"].state # "reading"
  /\ \E how \in Outcomes(copier["terminal"].state = "ended", TRUE) : copier' = copier /\ Report(how)
  /\ command' = NoCommand /\ RemoveCapture
  /\ UNCHANGED <<process, printed, logged, expired, commandsRun>>

CommandsNext ==
  \/ Ask \/ StartProcess \/ StartFails \/ Exit \/ ChildrenEnd \/ Deadline \/ Kill
  \/ \E s \in DOMAIN printed : PrintMore(s) \/ Copy(s) \/ EndOfStream(s)
  \/ runPiped \/ CloseTerminal \/ runPTY

CommandsSpec == CommandsInit /\ [][CommandsNext]_commandsVars

-----------------------------------------------------------------------------

\* Places are within the texts.
CommandsTypeOK ==
  /\ command.at \in {"idle", "start", "run", "closed"} /\ commandsRun \in 0..MaxCommands
  /\ process.state \in {"none", "running", "done", "failed", "killed"}
  /\ \A s \in DOMAIN copier :
       /\ copier[s].state \in {"reading", "ended", "failed"}
       /\ copier[s].sent <= copier[s].taken /\ copier[s].taken <= printed[s].out
  /\ \A s \in DOMAIN logged : \A r \in Logged(s) : r.from < r.to /\ r.to <= copier[s].sent
  /\ capture \in {"none", "empty", "answer"}

\* The journal has what the result has, in order, each piece once, and misses
\* nothing visible of what was sent (streamCaptureWriter).
LogIsTheOutput ==
  \A s \in DOMAIN logged :
    LET events == logged[s]
    IN  /\ \A a, b \in DOMAIN events : a < b => events[a].to <= events[b].from
        /\ \A i \in 1..copier[s].sent :
             printed[s].text[i] = "c" => \E e \in Logged(s) : e.from < i /\ i <= e.to

\* A call that succeeded is one of a program that ended well; over pipes all
\* it printed is captured and in the journal.
SuccessIsComplete ==
  command.at = "idle" /\ commandsRun > 0 /\ reported.ok =>
    /\ process.state = "done"
    /\ \A s \in DOMAIN copier \ {"terminal"} : copier[s].sent = Len(printed[s].text)

\* What was captured is in the result, cut at its limit, and said to be cut.
ResultIsTheOutput ==
  command.at = "idle" =>
    \A s \in DOMAIN reported.kept :
      \/ reported.kept[s] = copier[s].taken
      \/ reported.cut /\ reported.kept[s] = MaxOutput

\* When a program was started, nothing is left of the file it was to answer in.
NoCaptureIsLeft ==
  command.at = "idle" /\ process.state # "none" => capture = "none"
=============================================================================
