---------------------------- MODULE AgentProcess ----------------------------
(***************************************************************************)
(* One request to an agent outside the process: a command line printing    *)
(* JSON lines (cli-executor.ts), the Kimi ACP dialogue (kimi-acp.ts), both *)
(* over runCliProcess (cli-process.ts), or a chat endpoint behind its      *)
(* budgets (openai-executor.ts), started by the executor driver of a       *)
(* session (session/drivers/executor/driver.ts).                           *)
(*                                                                         *)
(* A line is what the code makes of it.  What waits in the pipe of the     *)
(* child arrives in chunks; the lines of a chunk are handled in one go,    *)
(* even after one of them made the execution fail.                         *)
(***************************************************************************)
EXTENDS Naturals, Sequences, FiniteSets

CONSTANTS
  Provider,     \* a set of provider names
  MaxTurns,     \* request.maxTurns
  MaxTokens,    \* provider -> the limits its requests may carry: request.maxTokens, or None
  TurnTokens,   \* what a turn uses
  MaxLines,     \* bound: lines a command prints, and responses of an endpoint
  MaxPipe,      \* bound: lines of a command that wait in the pipe
  None

VARIABLES
  request,   \* [provider, resumed, read, limit]: what the driver asked for
  via,       \* how it runs: probe, print, acp, api, or None before and after
  child,     \* the process: none, running, exited, closed (its pipes too), lost
  code,      \* its exit code
  out,       \* lines in the pipe
  partial,   \* the last line of out has no end yet
  chunk,     \* lines of the chunk being handled
  killed, completed,
  failure,   \* [code, usage] of the execution, or None
  stream,    \* lines handled
  signal,    \* the host cancelled
  closed,    \* the driver was closed
  scratch,   \* the temporary directory exists
  settled,   \* [code, usage] of the request, or None
  turn,      \* what the session hears: none, started, completed, stopped, failed
  written,   \* history: lines a command printed
  cause      \* history: the first thing that went wrong

process == <<child, code, out, partial, chunk, killed, completed>>
vars == <<request, via, process, failure, stream, signal, closed, scratch, settled, turn, written, cause>>

Lines(v) ==
  IF v = "print" THEN {"turn", "error", "final", "limit", "missing", "other"}
  ELSE {"answer", "refusal", "text", "tool", "forbidden", "other"}

Usage == Nat \union {None}

ProcessTypeOK ==
  /\ request \in [provider : Provider, resumed : BOOLEAN, read : BOOLEAN, limit : UNION {MaxTokens[p] : p \in Provider}]
  /\ via \in {"probe", "print", "acp", "api", None}
  /\ child \in {"none", "running", "exited", "closed", "lost"} /\ code \in {0, 1}
  /\ out \in Seq(Lines("print") \union Lines("acp")) /\ Len(out) <= MaxPipe
  /\ {partial, killed, completed, signal, closed, scratch} \subseteq BOOLEAN
  /\ chunk \in 0 .. Len(out)
  /\ settled # None => settled.usage \in Usage
  /\ turn \in {"none", "started", "completed", "stopped", "failed"}

Init ==
  /\ request \in [provider : Provider, resumed : BOOLEAN, read : BOOLEAN, limit : UNION {MaxTokens[p] : p \in Provider}]
  /\ request.limit \in MaxTokens[request.provider]
  /\ (request.resumed => request.provider = "claude") /\ (request.read => request.provider = "kimi")
  /\ via = None /\ child = "none" /\ code = 0
  /\ out = <<>> /\ stream = <<>> /\ written = <<>> /\ chunk = 0
  /\ partial = FALSE /\ killed = FALSE /\ completed = FALSE
  /\ signal = FALSE /\ closed = FALSE /\ scratch = FALSE
  /\ failure = None /\ settled = None /\ cause = None /\ turn = "none"

Count(s, line) == Cardinality({i \in DOMAIN s : s[i] = line})
Has(s, line) == Count(s, line) > 0
LastOf(s, line) == IF Has(s, line) THEN CHOOSE i \in DOMAIN s : s[i] = line /\ \A j \in DOMAIN s : s[j] = line => j <= i ELSE 0

-----------------------------------------------------------------------------
(* What a stream amounts to (parseCliOutput). *)

Terminal(s) == Has(s, "final") \/ (request.provider = "claude" /\ Has(s, "limit"))

\* Codex retries within a turn: a turn that completes forgets its errors.
Failed(s) ==
  IF request.provider = "codex" THEN LastOf(s, "error") > LastOf(s, "final")
  ELSE \E line \in {"error", "missing", "limit"} : Has(s, line)

\* Claude reports each message, the others only what a completed turn has used.
Reported(s) ==
  CASE request.provider = "claude" -> IF Has(s, "turn") \/ Terminal(s) THEN TurnTokens * Count(s, "turn") ELSE None
    [] request.provider = "codex" ->
         IF Has(s, "final") THEN TurnTokens * Count(SubSeq(s, 1, LastOf(s, "final")), "turn") ELSE None
    [] OTHER -> None

HasText(s) == Has(s, "turn") \/ (request.provider = "claude" /\ Has(s, "final"))

Ends(c, usage) == [code |-> c, usage |-> usage]

\* What the executor makes of a process that ended by itself.
Verdict(s, exit) ==
  CASE request.provider = "claude" /\ Has(s, "limit") -> Ends("max_turns", Reported(s))
    [] ~(request.provider = "claude" /\ Has(s, "limit")) /\ (exit # 0 \/ Failed(s)) ->
         IF request.provider = "claude" /\ request.resumed /\ Has(s, "missing")
         THEN Ends("session_not_found", Reported(s))
         ELSE Ends("provider_execution_error", Reported(s))
    [] OTHER ->
         IF ~Terminal(s) \/ ~HasText(s) THEN Ends("incomplete_response", Reported(s))
         ELSE IF request.limit = None THEN Ends("result", Reported(s))
         ELSE IF Reported(s) = None THEN Ends("usage_unavailable", None)
         ELSE IF Reported(s) > request.limit THEN Ends("token_budget", Reported(s))
         ELSE Ends("result", Reported(s))

-----------------------------------------------------------------------------

\* mutant: a later failure replaces the first
Latest(old, new) == new

Earliest(old, new) == IF old = None THEN new ELSE old

\* The execution fails: its process group is killed, once.
Fail(c, usage) ==
  /\ failure' = Earliest(failure, Ends(c, usage))
  /\ cause' = IF cause = None THEN c ELSE cause
  /\ killed' = TRUE

Healthy == UNCHANGED <<failure, cause, killed>>

\* The request is over: the scratch directory goes, and the session hears of it. A failure
\* takes the usage its own error lacks from the stream.
Over(end) ==
  LET usage == IF end.usage = None /\ end.code # "result" /\ via = "print" THEN Reported(stream') ELSE end.usage
  IN /\ settled' = Ends(end.code, usage)
     /\ scratch' = FALSE /\ via' = None
     /\ turn' = CASE end.code = "result" -> "completed"
                  [] end.code # "result" /\ closed -> turn
                  [] end.code = "aborted" /\ ~closed -> "stopped"
                  [] OTHER -> "failed"

-----------------------------------------------------------------------------
(* The driver. *)

\* Until the pipes of the process have closed, a cancellation or a timer is a failure.
Listening == child \in {"running", "exited", "lost"}

Working == turn = "started" /\ settled = None

\* send: the request is validated, what the provider cannot enforce is refused, and the
\* process or the loop starts. A read-only role on Kimi first asks its CLI for its flags.
Start ==
  /\ turn = "none" /\ ~closed /\ (request.provider = "kimi" => request.limit = None)
  /\ turn' = "started"
  /\ via' = CASE request.provider = "kimi" /\ request.read -> "probe"
              [] request.provider = "api" -> "api"
              [] OTHER -> "print"
  /\ child' = IF request.provider = "api" THEN "none" ELSE "running"
  /\ scratch' = (request.provider # "api")
  /\ UNCHANGED <<request, code, out, partial, chunk, killed, completed, failure, stream, signal,
                 closed, settled, written, cause>>

\* What the provider cannot enforce is refused before anything exists.
Refuse ==
  /\ turn = "none" /\ ~closed /\ request.provider = "kimi" /\ request.limit # None
  /\ turn' = "failed" /\ settled' = Ends("usage_unavailable", None)
  /\ UNCHANGED <<request, via, process, failure, stream, signal, closed, scratch, written, cause>>

\* interrupt, and close.
Cancel(close) ==
  /\ Working /\ ~signal /\ chunk = 0
  /\ signal' = TRUE /\ closed' = close
  /\ IF Listening THEN Fail("aborted", None)
     ELSE /\ cause' = IF via = "api" /\ cause = None THEN "aborted" ELSE cause
          /\ UNCHANGED <<failure, killed>>
  /\ UNCHANGED <<request, via, child, code, out, partial, chunk, completed, stream, scratch,
                 settled, turn, written>>

-----------------------------------------------------------------------------
(* runCliProcess. *)

Spawned == Working /\ child = "running" /\ chunk = 0

\* The probe prints its flags, exits badly, or is killed.
ProbeEnds(flag) ==
  /\ Spawned /\ via = "probe"
  /\ IF failure # None THEN Over(failure) /\ child' = "exited"
     ELSE IF flag = "none" THEN Over(Ends("provider_capability_unsupported", None)) /\ child' = "exited"
     ELSE via' = flag /\ UNCHANGED <<child, settled, scratch, turn>>
  /\ UNCHANGED <<request, code, out, partial, chunk, killed, completed, failure, stream, signal,
                 closed, written, cause>>

LaunchFails ==
  /\ Spawned /\ written = <<>> /\ failure = None
  /\ failure' = Ends("provider_spawn_error", None) /\ cause' = "provider_spawn_error"
  /\ child' = "lost"
  /\ UNCHANGED <<request, via, code, out, partial, chunk, killed, completed, stream, signal, closed,
                 scratch, settled, turn, written>>

\* The limit of the execution or of its silence.
TimeOut(limit) ==
  /\ Working /\ Listening /\ chunk = 0 /\ failure = None
  /\ via = "probe" => limit = "timeout"
  /\ Fail(limit, None)
  /\ UNCHANGED <<request, via, child, code, out, partial, chunk, completed, stream, signal, closed,
                 scratch, settled, turn, written>>

\* The child writes a line; what it leaves without an end is its last. What it writes after
\* a failure nobody reads.
Write(line, ended) ==
  /\ Spawned /\ via \in {"print", "acp"} /\ failure = None /\ ~partial
  /\ Len(out) < IF via = "print" THEN MaxPipe ELSE 1
  /\ Len(written) < MaxLines /\ line \in Lines(via)
  /\ out' = Append(out, line)
  /\ written' = IF via = "print" THEN Append(written, line) ELSE written
  /\ partial' = ~ended
  /\ UNCHANGED <<request, via, child, code, chunk, killed, completed, failure, stream, signal,
                 closed, scratch, settled, turn, cause>>

Whole == IF partial THEN Len(out) - 1 ELSE Len(out)

\* A chunk of the pipe arrives. After a failure nothing is read any more.
Arrive(n) ==
  /\ Working /\ child \in {"running", "exited"} /\ chunk = 0 /\ failure = None
  /\ n \in 1 .. Whole
  /\ chunk' = n
  /\ UNCHANGED <<request, via, child, code, out, partial, killed, completed, failure, stream,
                 signal, closed, scratch, settled, turn, written, cause>>

\* onLine of the print transport: the turn beyond the limit is not told.
PrintLine(line) ==
  /\ stream' = Append(stream, line)
  /\ IF line = "turn" /\ Count(stream', "turn") > MaxTurns
     THEN Fail("max_turns", Reported(stream')) ELSE Healthy
  /\ UNCHANGED completed

\* The dialogue: initialize, session/new, set_mode, set_config_option, session/prompt.
Answered == Count(stream, "answer")
Open == Answered >= 2
AcpText == LastOf(stream, "text") > LastOf(stream, "tool")

\* What changes nothing: the session is unknown, more of the text, another refused operation.
Idle(line) ==
  \/ line \in {"text", "tool"} /\ ~Open
  \/ line = "text" /\ AcpText
  \/ line = "forbidden" /\ Has(stream, line)

AcpProblem(line) ==
  CASE line = "other" -> "invalid_response"
    [] line \in {"answer", "refusal"} /\ Answered >= 5 -> "invalid_response"
    [] line = "refusal" /\ Answered < 5 -> "provider_execution_error"
    [] line = "answer" /\ Answered = 4 ->
         IF ~AcpText THEN "incomplete_response"
         ELSE IF Has(stream, "forbidden") THEN "tool_policy_violation" ELSE None
    [] line = "tool" /\ Open -> IF Count(stream, "tool") >= MaxTurns THEN "max_turns" ELSE None
    [] OTHER -> None

\* onMessage: text and tools before the session is known are ignored; a forbidden operation
\* is denied and remembered; the answer to the prompt completes the role and ends the process.
AcpLine(line) ==
  /\ stream' = IF Idle(line) THEN stream ELSE Append(stream, line)
  /\ LET problem == AcpProblem(line)
         over == line = "answer" /\ Answered = 4 /\ problem = None
     IN /\ completed' = (completed \/ over)
        /\ IF problem # None THEN Fail(problem, None)
           ELSE UNCHANGED <<failure, cause>> /\ killed' = (killed \/ over)

Handle(line) == IF via = "print" THEN PrintLine(line) ELSE AcpLine(line)

ReadLine ==
  /\ chunk > 0
  /\ chunk' = chunk - 1
  /\ out' = Tail(out)
  /\ Handle(Head(out))
  /\ UNCHANGED <<request, via, child, code, partial, signal, closed, scratch, settled, turn, written>>

\* The child ends, by itself or killed.
Exit(c) ==
  /\ Spawned /\ via \in {"print", "acp"}
  /\ child' = "exited"
  /\ code' = IF killed THEN 1 ELSE c
  /\ UNCHANGED <<request, via, out, partial, chunk, killed, completed, failure, stream, signal,
                 closed, scratch, settled, turn, written, cause>>

Drained == child \in {"lost", "closed"} \/ (child = "exited" /\ (failure # None \/ Whole = 0))

\* The process has closed after a failure.
CloseFailed ==
  /\ Working /\ chunk = 0 /\ failure # None /\ Drained
  /\ UNCHANGED stream /\ Over(failure)
  /\ UNCHANGED <<request, process, failure, signal, closed, written, cause>>

\* The line without an end is handled when the process has closed; what it raises is the
\* failure of the execution.
TakeRest ==
  /\ Working /\ failure = None /\ Drained /\ partial
  /\ out' = <<>> /\ partial' = FALSE /\ child' = "closed"
  /\ Handle(Head(out))
  /\ UNCHANGED <<request, via, code, chunk, signal, closed, scratch, settled, turn, written>>

\* The process has closed and nothing failed: its output decides.
Conclude ==
  /\ Working /\ failure = None /\ Drained /\ ~partial
  /\ UNCHANGED stream
  /\ IF via = "print" THEN Over(Verdict(stream, code))
     ELSE IF completed THEN Over(Ends("result", None)) ELSE Over(Ends("incomplete_response", None))
  /\ UNCHANGED <<request, process, failure, signal, closed, written, cause>>

-----------------------------------------------------------------------------
(* The chat endpoint. *)

\* A response, counted as one token; the loop does not look at a signal before the next call.
ApiCall ==
  /\ Working /\ via = "api" /\ cause = None /\ Len(stream) < MaxLines
  /\ stream' = Append(stream, "turn")
  /\ UNCHANGED <<request, via, process, failure, signal, closed, scratch, settled, turn, written, cause>>

\* The budget of the group, or the watchdog of silence, aborts the loop.
ApiTimeOut ==
  /\ Working /\ via = "api" /\ cause = None
  /\ cause' = "timeout"
  /\ UNCHANGED <<request, via, process, failure, stream, signal, closed, scratch, settled, turn, written>>

Spent == IF stream = <<>> THEN None ELSE Len(stream)

\* The loop ends: with an answer, with an error of its own, or because it was aborted. A
\* cancellation by the host is told as one, whatever aborted first.
ApiEnds ==
  /\ Working /\ via = "api" /\ UNCHANGED <<stream, cause>>
  /\ \/ stream # <<>> /\ Over(Ends("result", Spent))
     \/ Over(Ends("provider_request_error", Spent)) /\ cause = None
     \/ cause # None /\ Over(Ends(IF signal THEN "aborted" ELSE "timeout", Spent))
  /\ UNCHANGED <<request, process, failure, signal, closed, written>>

Next ==
  \/ Start \/ Refuse \/ \E close \in BOOLEAN : Cancel(close)
  \/ \E flag \in {"print", "acp", "none"} : ProbeEnds(flag)
  \/ LaunchFails \/ \E limit \in {"timeout", "idle_timeout"} : TimeOut(limit)
  \/ \E line \in Lines("print") \union Lines("acp"), ended \in BOOLEAN : Write(line, ended)
  \/ \E n \in 1 .. MaxPipe : Arrive(n)
  \/ ReadLine \/ \E c \in {0, 1} : Exit(c)
  \/ CloseFailed \/ TakeRest \/ Conclude
  \/ ApiCall \/ ApiTimeOut \/ ApiEnds

Spec == Init /\ [][Next]_vars

-----------------------------------------------------------------------------

\* An outcome is what happened. A failure is the first thing that went wrong (or, at an
\* endpoint, the cancellation that followed), a success is that of a whole stream: every line
\* the process wrote was read, the last word was a success, nothing forbidden was asked, no
\* limit was passed. Nothing is left running or on disk (cli-process.ts fail and close,
\* cli-executor.ts execute, kimi-acp.ts onMessage).
OutcomeIsTrue ==
  settled # None =>
    /\ child # "running" /\ ~scratch
    /\ cause # None =>
         \/ settled.code = cause \/ (request.provider = "api" /\ settled.code \in {"aborted", "result"})
    /\ (settled.code = "result" /\ request.provider # "api") =>
         IF completed
         THEN /\ Answered = 5
              /\ \A i, j \in DOMAIN stream : stream[i] = "forbidden" /\ stream[j] = "answer" => j < i
         ELSE /\ stream = written /\ code = 0 /\ Has(stream, "final")
              /\ Count(stream, "turn") <= MaxTurns
              /\ LastOf(stream, "error") <= LastOf(stream, "final")
              /\ request.limit # None => settled.usage \in 0 .. request.limit

=============================================================================
