---------------------------- MODULE GuardedLoop ----------------------------
(* The tool loop of the compact and free agent modes                        *)
(* (src/agent-runtime/compact/guarded-loop.ts runToolLoop) on top of the    *)
(* chat client (compact/chat-client.ts): one model, one transcript, a turn  *)
(* budget, a tool budget with one write-only extension, the guards against  *)
(* repetition, the cache of reads and the folding of old results.           *)
(*                                                                          *)
(* A message is its place in the transcript.  Of the results only what the  *)
(* reads returned is kept, until it is folded: the cache looks at no other. *)
EXTENDS Integers, FiniteSets, Sequences

CONSTANTS
  File,          \* workspace files
  Content,       \* what a file may hold
  Large,         \* contents of 600 characters or more
  Switch,        \* optional request fields an endpoint may reject
  MaxTurns,      \* provider round trips (maxTurns)
  MaxToolCalls,  \* tool calls before the final result is asked for
  ExtraCalls,    \* calls of the write-only extension
  MaxTokens,     \* the token budget of the request
  MaxReply,      \* bound: tokens one response reports
  MaxBatch,      \* bound: calls in one response (32 in the code)
  WarnAt, AbortAt, ReadRope, RewriteAt,  \* 3, 5, 3 and 3 in the code
  ProtectedTail, \* messages folding never touches (4 in the code)
  None

VARIABLES
  disk,      \* the workspace
  transcript,\* [length, shown]: messages so far, the reads still in full
  reads,     \* the read cache: where the last full read of a file is, or None
  totals,    \* how often each call was made
  loop,      \* the counters and flags of runToolLoop
  client,    \* [spent, switches, lost, busy]: the chat client
  batch,     \* the calls of the current response still to run
  pc         \* where the loop is, or how it ended

vars == <<disk, transcript, reads, totals, loop, client, batch, pc>>

Malformed == [tool |-> "malformed", file |-> None, content |-> None]
Call == [tool : {"read"}, file : File, content : {None}]
          \cup [tool : {"write"}, file : File, content : Content]
          \cup {Malformed}

\* What a read returns: the content of the file, or the error of the tool.
Body == Content \cup {"failed"}

Ended == {"text", "tool_loop", "invalid_tool_call", "invalid_response",
          "incomplete_response", "max_turns", "token_budget", "provider_error", "aborted"}

Init ==
  /\ disk \in [File -> Content]
  /\ transcript = [length |-> 2, shown |-> {}]
  /\ reads = [f \in File |-> None]
  /\ totals = [c \in Call |-> 0]
  /\ loop = [turn |-> 0, calls |-> 0, nudged |-> FALSE, notice |-> FALSE,
             extended |-> FALSE, wrote |-> FALSE, retried |-> FALSE,
             previous |-> None, consecutive |-> 0, streak |-> 0,
             lastWritten |-> None]
  /\ client = [spent |-> 0, switches |-> Switch, lost |-> FALSE, busy |-> FALSE]
  /\ batch = <<>>
  /\ pc = "ask"

-----------------------------------------------------------------------------
(* The top of a turn.                                                       *)

\* Mutant: the extension has no turns of its own.
TurnsPlain(l) == MaxTurns

TurnLimit(l) == MaxTurns + (IF l.extended THEN ExtraCalls ELSE 0)

\* The budget went on reads alone: the loop grants the extension.
Grants(l) == l.calls >= MaxToolCalls /\ ~l.wrote /\ ~l.extended

Exhausted(l, extended) ==
  l.calls >= MaxToolCalls + (IF extended THEN ExtraCalls ELSE 0)

Ask ==
  /\ pc = "ask"
  /\ loop.turn < TurnLimit(loop)
  /\ LET extended == loop.extended \/ Grants(loop)
         told == Exhausted(loop, extended) /\ ~loop.notice
     IN  /\ loop' = [loop EXCEPT !.turn = @ + 1, !.extended = extended,
                                 !.notice = @ \/ told]
         /\ transcript' = [transcript EXCEPT
              !.length = @ + (IF Grants(loop) THEN 1 ELSE 0)
                           + (IF told THEN 1 ELSE 0)]
  /\ pc' = IF client.spent >= MaxTokens THEN "token_budget" ELSE "wait"
  /\ client' = [client EXCEPT !.lost = FALSE, !.busy = FALSE]
  /\ UNCHANGED <<disk, reads, totals, batch>>

GiveUp ==
  /\ pc = "ask"
  /\ loop.turn >= TurnLimit(loop)
  /\ pc' = "max_turns"
  /\ UNCHANGED <<disk, transcript, reads, totals, loop, client, batch>>

\* The signal of the step aborts the loop at its next look at it.
Abort ==
  /\ pc \in {"ask", "wait", "calls"}
  /\ pc' = "aborted"
  /\ UNCHANGED <<disk, transcript, reads, totals, loop, client, batch>>

-----------------------------------------------------------------------------
(* One round trip of the chat client.                                       *)

UnlessCharged == <<disk, reads, totals>>

\* A connection that breaks is tried once more, a 5xx answer once more.
ConnectionLost ==
  /\ pc = "wait"
  /\ IF client.lost \/ client.busy
     THEN pc' = "provider_error" /\ UNCHANGED client
     ELSE pc' = pc /\ client' = [client EXCEPT !.lost = TRUE]
  /\ UNCHANGED <<disk, transcript, reads, totals, loop, batch>>

ServerBusy ==
  /\ pc = "wait"
  /\ IF client.busy
     THEN pc' = "provider_error" /\ UNCHANGED client
     ELSE pc' = pc /\ client' = [client EXCEPT !.busy = TRUE]
  /\ UNCHANGED <<disk, transcript, reads, totals, loop, batch>>

\* An endpoint that does not know an optional field is asked again without
\* it, now and for the rest of the session; that request has no other retry.
FieldRejected(s) ==
  /\ pc = "wait"
  /\ s \in client.switches
  /\ client' = [client EXCEPT !.switches = @ \ {s}, !.lost = TRUE, !.busy = TRUE]
  /\ UNCHANGED <<disk, transcript, reads, totals, loop, batch, pc>>

\* Every response is charged before its message is looked at.
Charged(tokens) ==
  /\ pc = "wait"
  /\ client' = [client EXCEPT !.spent = @ + tokens]
  /\ UNCHANGED UnlessCharged

Affordable(tokens) == client.spent + tokens <= MaxTokens

Overspend(tokens) ==
  /\ Charged(tokens)
  /\ ~Affordable(tokens)
  /\ pc' = "token_budget"
  /\ UNCHANGED <<transcript, loop, batch>>

\* The output budget cut the reply off: one retry of the turn per loop, with
\* a wider budget or less effort, when there is room for either.
CutOff(tokens, room) ==
  /\ pc = "wait" /\ Affordable(tokens)
  /\ client' = [client EXCEPT !.spent = @ + tokens, !.lost = FALSE, !.busy = FALSE]
  /\ loop' = [loop EXCEPT !.retried = TRUE]
  /\ pc' = IF loop.retried \/ ~room THEN "incomplete_response"
           ELSE IF client.spent + tokens >= MaxTokens THEN "token_budget"
           ELSE "wait"
  /\ UNCHANGED UnlessCharged
  /\ UNCHANGED <<transcript, batch>>

\* A final text, or calls that are not well formed, end the loop.
ReplyEnds(tokens, outcome) ==
  /\ Charged(tokens) /\ Affordable(tokens)
  /\ outcome \in {"text", "invalid_tool_call"}
  /\ pc' = outcome
  /\ UNCHANGED <<transcript, loop, batch>>

\* An empty reply is nudged once.
ReplyEmpty(tokens) ==
  /\ Charged(tokens) /\ Affordable(tokens)
  /\ IF loop.nudged
     THEN pc' = "invalid_response" /\ UNCHANGED <<loop, transcript>>
     ELSE /\ pc' = "ask"
          /\ loop' = [loop EXCEPT !.nudged = TRUE]
          /\ transcript' = [transcript EXCEPT !.length = @ + 2]
  /\ UNCHANGED batch

\* Calls are run whatever was offered: the loop validates them against the
\* tools of the step, not against the ones this turn sent.
ReplyCalls(tokens, calls) ==
  /\ Charged(tokens) /\ Affordable(tokens)
  /\ pc' = "calls"
  /\ batch' = calls
  /\ transcript' = [transcript EXCEPT !.length = @ + 1]
  /\ UNCHANGED loop

-----------------------------------------------------------------------------
(* One tool call.                                                           *)

Streak(c) ==
  IF c.tool = "write"
  THEN IF c.file = loop.lastWritten THEN loop.streak + 1 ELSE 1
  ELSE IF c.tool = "read" /\ c.file = loop.lastWritten THEN loop.streak ELSE 0

LastWritten(c) ==
  IF c.tool = "write" THEN c.file
  ELSE IF c.tool = "read" /\ c.file = loop.lastWritten THEN loop.lastWritten
  ELSE None

Consecutive(c) == IF c = loop.previous THEN loop.consecutive + 1 ELSE 1

TooOften(c) ==
  totals[c] + 1 >= AbortAt + (IF c.tool = "read" THEN ReadRope ELSE 0)

Rewriting(c) == Streak(c) >= RewriteAt

\* Mutant: a refused rewrite does not start the streak anew.
CountedOn(c, wrote) ==
  [loop EXCEPT !.calls = @ + 1, !.previous = c, !.consecutive = Consecutive(c),
               !.streak = Streak(c), !.lastWritten = LastWritten(c), !.wrote = @ \/ wrote]

Counted(c, wrote) ==
  [loop EXCEPT !.calls = @ + 1, !.previous = c, !.consecutive = Consecutive(c),
               !.streak = IF Rewriting(c) THEN 0 ELSE Streak(c),
               !.lastWritten = LastWritten(c), !.wrote = @ \/ wrote]

Pushed(c, body) ==
  /\ transcript' = [transcript EXCEPT
       !.length = @ + 1,
       !.shown = IF body \in Body
                 THEN @ \cup {[index |-> transcript.length, file |-> c.file,
                               content |-> body]}
                 ELSE @]
  /\ totals' = [totals EXCEPT ![c] = @ + 1]
  /\ batch' = Tail(batch)

\* Mutant: the place is taken after the message was pushed.
CachedAfter(f) == [reads EXCEPT ![f] = transcript.length + 1]

\* The cache looks at the last answer to a read of the file that was no pointer.
Cached(f) == [reads EXCEPT ![f] = transcript.length]

\* The transcript still shows the earlier read of the file, in full and with
\* the content the file has now.
StillShown(f) ==
  /\ reads[f] # None
  /\ [index |-> reads[f], file |-> f, content |-> disk[f]] \in transcript.shown

StopRepeating ==
  /\ pc = "calls" /\ batch # <<>> /\ TooOften(Head(batch))
  /\ loop' = Counted(Head(batch), FALSE)
  /\ pc' = "tool_loop"
  /\ UNCHANGED <<disk, transcript, reads, totals, client, batch>>

\* A third rewrite, a third identical call in a row, arguments that do not
\* fit, or a write the tool refuses: the model gets the error.
Refuse ==
  /\ pc = "calls" /\ batch # <<>> /\ ~TooOften(Head(batch))
  /\ LET c == Head(batch)
     IN  /\ \/ Rewriting(c)
            \/ Consecutive(c) >= WarnAt
            \/ c.tool \in {"malformed", "write"}
         /\ loop' = Counted(c, FALSE)
         /\ Pushed(c, "error")
  /\ UNCHANGED <<disk, reads, client, pc>>

Allowed(c) ==
  ~TooOften(c) /\ ~Rewriting(c) /\ Consecutive(c) < WarnAt

Write ==
  /\ pc = "calls" /\ batch # <<>>
  /\ LET c == Head(batch)
     IN  /\ c.tool = "write" /\ Allowed(c)
         /\ disk' = [disk EXCEPT ![c.file] = c.content]
         /\ loop' = Counted(c, TRUE)
         /\ Pushed(c, "done")
  /\ UNCHANGED <<reads, client, pc>>

\* A read of what the transcript still shows is answered with a pointer.
Read ==
  /\ pc = "calls" /\ batch # <<>>
  /\ LET c == Head(batch)
     IN  /\ c.tool = "read" /\ Allowed(c)
         /\ loop' = Counted(c, FALSE)
         /\ IF disk[c.file] \in Large /\ StillShown(c.file)
            THEN Pushed(c, "pointer") /\ UNCHANGED reads
            ELSE Pushed(c, disk[c.file]) /\ reads' = Cached(c.file)
  /\ UNCHANGED <<disk, client, pc>>

\* The error of a read is short, and takes the place of what the file held.
ReadFails ==
  /\ pc = "calls" /\ batch # <<>>
  /\ LET c == Head(batch)
     IN  /\ c.tool = "read" /\ Allowed(c)
         /\ loop' = Counted(c, FALSE)
         /\ Pushed(c, "failed")
         /\ reads' = Cached(c.file)
  /\ UNCHANGED <<disk, client, pc>>

\* After the calls of a response the oldest results are folded until the
\* transcript fits: how far that goes depends on their sizes.  It runs after
\* the answers are pushed and may fold what a pointer just pushed refers to.
Fold(upto) ==
  /\ pc = "calls" /\ batch = <<>>
  /\ upto <= transcript.length - ProtectedTail
  /\ transcript' = [transcript EXCEPT !.shown = {s \in @ : s.index >= upto}]
  /\ pc' = "ask"
  /\ UNCHANGED <<disk, reads, totals, loop, client, batch>>

KeepAll ==
  /\ pc = "calls" /\ batch = <<>>
  /\ pc' = "ask"
  /\ UNCHANGED <<disk, transcript, reads, totals, loop, client, batch>>

-----------------------------------------------------------------------------

Batch == UNION {[1 .. n -> Call] : n \in 1 .. MaxBatch}

Respond ==
  \E tokens \in 0 .. MaxReply :
    \/ Overspend(tokens)
    \/ \E room \in BOOLEAN : CutOff(tokens, room)
    \/ \E outcome \in {"text", "invalid_tool_call"} : ReplyEnds(tokens, outcome)
    \/ ReplyEmpty(tokens)
    \/ \E calls \in Batch : ReplyCalls(tokens, calls)

Next ==
  \/ Ask \/ GiveUp \/ Abort
  \/ ConnectionLost \/ ServerBusy \/ (\E s \in Switch : FieldRejected(s))
  \/ Respond
  \/ StopRepeating \/ Refuse \/ Write \/ Read \/ ReadFails
  \/ (\E upto \in 3 .. transcript.length : Fold(upto)) \/ KeepAll
  \/ pc \in Ended /\ UNCHANGED <<disk, transcript, reads, totals, loop, client, batch, pc>>

Spec == Init /\ [][Next]_vars

-----------------------------------------------------------------------------

\* The loop's counters stay within the limits it was given.
LoopTypeOK ==
  /\ disk \in [File -> Content]
  /\ \A s \in transcript.shown : s.index < transcript.length /\ s.content \in Body
  /\ loop.turn \in 0 .. MaxTurns + ExtraCalls
  /\ loop.consecutive <= loop.calls
  /\ loop.streak \in 0 .. RewriteAt - 1
  /\ pc \in {"ask", "wait", "calls"} \cup Ended

\* The transcript never shows the same large content of a file twice, unless
\* it also shows that the file was read otherwise in between: however reads,
\* writes, refusals and foldings alternate, the read that follows them pays for
\* the bytes only when the copy the cache knows was folded, and then no older
\* copy is left either (guarded-loop.ts: "the re-read gets a pointer instead of
\* the bytes. A changed file, or an earlier read that compaction already
\* folded, returns the full content again").
NoCopyTwice ==
  \A s, t \in transcript.shown :
    s.file = t.file /\ s.content = t.content /\ s.content \in Large /\ s.index < t.index =>
      \E u \in transcript.shown :
        u.file = s.file /\ s.index < u.index /\ u.index < t.index /\ u.content # s.content

\* No step is given up for its turns before its model was told that the tool
\* budget is spent: the turn budget outlasts the tool budget, the extension
\* and the nudge included (guarded-loop.ts: "adds its calls to the turn budget
\* too, else a maxTurns sized for the original budget ends the step before the
\* extra calls").
ToldBeforeGivingUp == pc = "max_turns" => loop.notice

=============================================================================
