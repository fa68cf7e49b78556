----------------------------- MODULE McpClient -----------------------------
(***************************************************************************)
(* A connection to one MCP server (src/internal/mcp/client.go): requests   *)
(* go down one pipe, answers come up another in any order, a goroutine     *)
(* matches them to waiting callers by id, and Close stops the server.      *)
(*                                                                         *)
(* The mutex is held across a write, which blocks while the pipe is full;  *)
(* every other critical section is one step, taken while nobody writes.    *)
(* Calls are numbered; a number also names the call's answer channel.      *)
(***************************************************************************)
EXTENDS Naturals, Sequences

CONSTANTS
  Callers,     \* the goroutines that call tools
  MaxCalls,    \* bound: how many calls are ever made
  StdinRoom,   \* requests the server's input pipe holds
  StdoutRoom,  \* answers its output pipe holds
  Nobody       \* no writer

ASSUME ConstantsAssumption ==
  /\ MaxCalls \in Nat /\ StdinRoom \in Nat \ {0} /\ StdoutRoom \in Nat \ {0}
  /\ Nobody \notin Callers

Calls == 1..MaxCalls

VARIABLES
  mu,        \* who is writing, the mutex in hand
  made,      \* how many calls have been made
  nextID,    \* the last id handed out
  pending,   \* the call waiting for each id, or 0
  answer,    \* what each channel holds: the call the server answered, or 0
  woken,     \* the channels closed without an answer
  caller,    \* each caller: where it is, its call and the id of its request
  stdin,     \* requests in the pipe
  stdout,    \* answers in the pipe
  server,    \* whether the process runs, whether one that it started does, which
             \* holds the same pipes, and the requests they have read
  reader,    \* readLoop: where it is, the answer in hand, the call it is for
  closing    \* Close: "open", "closed", "waiting" for the process, "done"

callVars == <<mu, made, nextID, pending, answer, woken, caller>>
pipeVars == <<stdin, stdout, server>>
vars == <<callVars, pipeVars, reader, closing>>

Idle == [at |-> "idle", call |-> 0, id |-> 0]
Nothing == [id |-> 0, call |-> 0]

Init ==
  /\ mu = Nobody /\ made = 0 /\ nextID = 0
  /\ pending = [i \in Calls |-> 0]
  /\ answer = [n \in Calls |-> 0] /\ woken = {}
  /\ caller = [c \in Callers |-> Idle]
  /\ stdin = <<>> /\ stdout = <<>>
  /\ server = [up |-> TRUE, child |-> FALSE, read |-> {}]
  /\ reader = [at |-> "scan", frame |-> Nothing, for |-> 0, upto |-> 0]
  /\ closing = "open"

At(c, point) == caller[c].at = point
Goto(c, point) == caller' = [caller EXCEPT ![c].at = point]
Free == mu = Nobody
Alive == server.up \/ server.child

-----------------------------------------------------------------------------
(* One call.                                                               *)

(* Broken: the id is read before the lock and not taken.                   *)
RegisterStale(c) ==
  /\ At(c, "idle") /\ Free
  /\ closing = "open" /\ made < MaxCalls
  /\ made' = made + 1
  /\ nextID' \in {nextID, nextID + 1} \ {0}
  /\ pending' = [pending EXCEPT ![nextID'] = made']
  /\ caller' = [caller EXCEPT ![c] = [at |-> "registered", call |-> made', id |-> nextID']]
  /\ UNCHANGED <<mu, answer, woken, pipeVars, reader, closing>>

(* A closed client refuses; otherwise the call waits for an id of its own. *)
Register(c) ==
  /\ At(c, "idle") /\ Free
  /\ closing = "open" /\ made < MaxCalls
  /\ made' = made + 1
  /\ nextID' = nextID + 1
  /\ pending' = [pending EXCEPT ![nextID'] = made']
  /\ caller' = [caller EXCEPT ![c] = [at |-> "registered", call |-> made', id |-> nextID']]
  /\ UNCHANGED <<mu, answer, woken, pipeVars, reader, closing>>

LockToWrite(c) ==
  /\ At(c, "registered") /\ Free
  /\ mu' = c
  /\ Goto(c, "writing")
  /\ UNCHANGED <<made, nextID, pending, answer, woken, pipeVars, reader, closing>>

(* The write blocks while the pipe is full.                                *)
Write(c) ==
  /\ At(c, "writing")
  /\ Alive /\ closing \in {"open", "closed"} /\ Len(stdin) < StdinRoom
  /\ stdin' = Append(stdin, [id |-> caller[c].id, call |-> caller[c].call])
  /\ mu' = Nobody
  /\ Goto(c, "waiting")
  /\ UNCHANGED <<made, nextID, pending, answer, woken, stdout, server, reader, closing>>

(* Nobody reads the pipe any more, or Close has closed it.  The entry in   *)
(* pending stays.                                                          *)
WriteFails(c) ==
  /\ At(c, "writing")
  /\ ~Alive \/ closing \notin {"open", "closed"}
  /\ mu' = Nobody
  /\ Goto(c, "idle")
  /\ UNCHANGED <<made, nextID, pending, answer, woken, pipeVars, reader, closing>>

(* Broken: an answered call goes nowhere.                                  *)
ReceiveParked(c) ==
  /\ At(c, "waiting") /\ answer[caller[c].call] # 0
  /\ Goto(c, "answered")
  /\ UNCHANGED <<mu, made, nextID, pending, answer, woken, pipeVars, reader, closing>>

Receive(c) ==
  /\ At(c, "waiting") /\ answer[caller[c].call] # 0
  /\ Goto(c, "idle")
  /\ UNCHANGED <<mu, made, nextID, pending, answer, woken, pipeVars, reader, closing>>

(* Broken: a call that waits has no timeout of its own.                    *)
StopWaitingWoken(c) ==
  /\ At(c, "waiting")
  /\ caller[c].call \in woken
  /\ Goto(c, "leaving")
  /\ UNCHANGED <<mu, made, nextID, pending, answer, woken, pipeVars, reader, closing>>

(* The channel was closed, or the timeout passed.                          *)
StopWaiting(c) ==
  /\ At(c, "waiting")
  /\ Goto(c, "leaving")
  /\ UNCHANGED <<mu, made, nextID, pending, answer, woken, pipeVars, reader, closing>>

(* With the mutex, a call that timed out takes its entry back, and one     *)
(* whose channel was closed reads why.                                     *)
Leave(c) ==
  /\ At(c, "leaving") /\ Free
  /\ pending' = [pending EXCEPT ![caller[c].id] = 0]
  /\ Goto(c, "idle")
  /\ UNCHANGED <<mu, made, nextID, answer, woken, pipeVars, reader, closing>>

Call(c) ==
  \/ LockToWrite(c) \/ Write(c) \/ WriteFails(c) \/ Receive(c) \/ StopWaiting(c) \/ Leave(c)

-----------------------------------------------------------------------------
(* readLoop.                                                               *)
Scan ==
  /\ reader.at = "scan" /\ stdout # <<>>
  /\ reader' = [reader EXCEPT !.at = "dispatch", !.frame = Head(stdout)]
  /\ stdout' = Tail(stdout)
  /\ UNCHANGED <<callVars, stdin, server, closing>>

(* Whoever waits for the id is taken off the list; an answer nobody waits  *)
(* for is dropped.                                                         *)
Dispatch ==
  /\ reader.at = "dispatch" /\ Free
  /\ LET n == pending[reader.frame.id]
     IN  reader' = [reader EXCEPT !.at = IF n = 0 THEN "scan" ELSE "send", !.for = n]
  /\ pending' = [pending EXCEPT ![reader.frame.id] = 0]
  /\ UNCHANGED <<mu, made, nextID, answer, woken, caller, pipeVars, closing>>

(* The channel holds one answer.                                           *)
Send ==
  /\ reader.at = "send"
  /\ answer[reader.for] = 0
  /\ answer' = [answer EXCEPT ![reader.for] = reader.frame.call]
  /\ reader' = [reader EXCEPT !.at = "scan"]
  /\ UNCHANGED <<mu, made, nextID, pending, woken, caller, pipeVars, closing>>

(* The output ends, is closed by Close, or carries a line beyond 32 MB.    *)
ScanEnds ==
  /\ reader.at = "scan"
  /\ \/ ~Alive /\ stdout = <<>>
     \/ closing = "done"
     \/ stdout # <<>>
  /\ reader' = [reader EXCEPT !.at = "eof"]
  /\ UNCHANGED <<callVars, pipeVars, closing>>

(* Broken: the loop just returns.                                          *)
EndQuietly ==
  /\ reader.at = "eof" /\ Free
  /\ reader' = [reader EXCEPT !.at = "ended", !.upto = made]
  /\ UNCHANGED <<callVars, pipeVars, closing>>

(* Everyone still waiting is woken.                                        *)
End ==
  /\ reader.at = "eof" /\ Free
  /\ woken' = woken \cup {pending[i] : i \in {j \in Calls : pending[j] # 0}}
  /\ pending' = [i \in Calls |-> 0]
  /\ reader' = [reader EXCEPT !.at = "ended", !.upto = made]
  /\ UNCHANGED <<mu, made, nextID, answer, caller, pipeVars, closing>>

ReadLoop == Scan \/ Dispatch \/ Send \/ ScanEnds \/ End

-----------------------------------------------------------------------------
(* The server: it reads requests, answers any it has read, perhaps twice,  *)
(* and may exit or stop doing either at any time.  It may be a shell or npx*)
(* that starts the program that does the work: that process holds the pipes*)
(* and the standard error it was given, and may outlive it.                *)
ServerReads ==
  /\ Alive /\ stdin # <<>>
  /\ server' = [server EXCEPT !.read = @ \cup {Head(stdin)}]
  /\ stdin' = Tail(stdin)
  /\ UNCHANGED <<callVars, stdout, reader, closing>>

ServerAnswers ==
  /\ Alive /\ Len(stdout) < StdoutRoom
  /\ \E q \in server.read :
       /\ stdout' = Append(stdout, q)
       /\ \/ server' = [server EXCEPT !.read = @ \ {q}]
          \/ UNCHANGED server
  /\ UNCHANGED <<callVars, stdin, reader, closing>>

ServerStarts ==
  /\ server.up /\ ~server.child
  /\ server' = [server EXCEPT !.child = TRUE]
  /\ UNCHANGED <<callVars, stdin, stdout, reader, closing>>

(* What was read and what is in the pipe is lost with the last of them.    *)
Lose(up, child) ==
  /\ server' = [up |-> up, child |-> child, read |-> IF up \/ child THEN server.read ELSE {}]
  /\ stdin' = IF up \/ child THEN stdin ELSE <<>>
  /\ UNCHANGED <<callVars, stdout, reader, closing>>

ServerExits == server.up /\ Lose(FALSE, server.child)
ChildExits == server.child /\ Lose(server.up, FALSE)

-----------------------------------------------------------------------------
(* Close: no more calls, the input pipe is closed, the process is waited   *)
(* for, and killed if it has not exited after three seconds.               *)
CloseCalls ==
  /\ closing = "open" /\ Free
  /\ closing' = "closed"
  /\ UNCHANGED <<callVars, pipeVars, reader>>

CloseStdin ==
  /\ closing = "closed"
  /\ closing' = "waiting"
  /\ UNCHANGED <<callVars, pipeVars, reader>>

(* Kill stops the process, not what it started.                            *)
Kill == closing = "waiting" /\ server.up /\ Lose(FALSE, server.child)

(* Wait returns when the process has exited and its standard error, which  *)
(* is copied, is at its end: when nothing holds it any more.               *)
CloseReturns ==
  /\ closing = "waiting" /\ ~Alive
  /\ closing' = "done"
  /\ UNCHANGED <<callVars, pipeVars, reader>>

CloseSteps == CloseStdin \/ Kill \/ CloseReturns

Done ==
  /\ closing = "done" /\ reader.at = "ended" /\ \A c \in Callers : At(c, "idle")
  /\ UNCHANGED vars

Next ==
  \/ \E c \in Callers : Register(c) \/ Call(c)
  \/ ReadLoop \/ ServerReads \/ ServerAnswers \/ ServerStarts \/ ServerExits \/ ChildExits
  \/ CloseCalls \/ CloseSteps \/ Done

Spec == Init /\ [][Next]_vars

(* The client's goroutines run and its timeouts pass; the server promises  *)
(* nothing.                                                                *)
FairSpec ==
  /\ Spec
  /\ \A c \in Callers : WF_vars(Call(c))
  /\ WF_vars(ReadLoop) /\ WF_vars(CloseSteps)

-----------------------------------------------------------------------------
Frame == [id : Calls, call : Calls]

TypeOK ==
  /\ mu \in Callers \cup {Nobody}
  /\ made \in 0..MaxCalls /\ nextID \in 0..MaxCalls
  /\ pending \in [Calls -> 0..MaxCalls] /\ answer \in [Calls -> 0..MaxCalls]
  /\ woken \subseteq Calls
  /\ caller \in [Callers -> [at : {"idle", "registered", "writing", "waiting", "leaving"},
                             call : 0..MaxCalls, id : 0..MaxCalls]]
  /\ stdin \in Seq(Frame) /\ Len(stdin) <= StdinRoom
  /\ stdout \in Seq(Frame) /\ Len(stdout) <= StdoutRoom
  /\ {server.up, server.child} \subseteq BOOLEAN /\ server.read \subseteq Frame
  /\ reader.at \in {"scan", "dispatch", "send", "eof", "ended"}
  /\ reader.frame \in Frame \cup {Nothing} /\ {reader.for, reader.upto} \subseteq 0..MaxCalls
  /\ closing \in {"open", "closed", "waiting", "done"}

(* A call only ever receives the answer to its own request, however late,  *)
(* repeated or reordered the server's answers are.                         *)
OwnAnswer == \A n \in Calls : answer[n] \in {0, n}

(* readLoop never blocks on a channel that is full, so one slow or absent  *)
(* caller cannot stop answers to the others, and never sends on a closed   *)
(* one, which would panic.                                                 *)
ReaderNeverStuck == reader.at = "send" => answer[reader.for] = 0 /\ reader.for \notin woken

(* Once the server's output has ended, every call made before that and     *)
(* still waiting has its answer or is woken: none sits out its timeout.    *)
WokenWithReader ==
  reader.at = "ended" =>
    \A c \in Callers : At(c, "waiting") /\ caller[c].call <= reader.upto =>
      answer[caller[c].call] # 0 \/ caller[c].call \in woken

(* The reader serves every caller: it goes on, and when it ends it says so. *)
ReaderServesAll == ReaderNeverStuck /\ WokenWithReader

(* Every call returns, whatever the server does or does not do: call has a *)
(* timeout.  (As long as the pipe takes its request; see CallIsBounded.)   *)
CallReturns == \A c \in Callers : At(c, "registered") ~> At(c, "idle")

(* Close returns, and then no process is left: a server that ignores the   *)
(* closed pipe is killed.  Unless something the server started stays for   *)
(* ever: the kill reaches the direct process alone, and Wait, which copies *)
(* the standard error, has no limit: Close then waits for ever, too.       *)
CloseEnds == closing = "closed" ~> (closing = "done" /\ ~Alive) \/ (~server.up /\ []server.child)

(* Neither a call nor a Close waits for ever.                              *)
NobodyHangs == CallReturns /\ CloseEnds

-----------------------------------------------------------------------------
(* What the comments and the documentation say and the code does not do.   *)

(* DefaultTimeout bounds a single request (its comment): not one whose     *)
(* write blocks, the mutex in hand, on a pipe the server does not read.    *)
CallIsBounded == CallReturns
=============================================================================
