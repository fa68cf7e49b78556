-------------------------- MODULE McpClientProofs --------------------------
(***************************************************************************)
(* Theorems about McpClient for any number of callers and calls and pipes  *)
(* of any size.                                                            *)
(***************************************************************************)
EXTENDS McpClient, SequenceTheorems, TLAPS

Points == {"idle", "registered", "writing", "waiting", "leaving"}
ReaderPoints == {"scan", "dispatch", "send", "eof", "ended"}

-----------------------------------------------------------------------------
(* A request carries the id of its call, and so does every answer.         *)
Own == {f \in Frame : f.id = f.call}

Record == [at : Points, call : 0..MaxCalls, id : 0..MaxCalls]
Reader == [at : ReaderPoints, frame : Own \cup {Nothing}, for : 0..MaxCalls, upto : 0..MaxCalls]
Server == [up : BOOLEAN, child : BOOLEAN, read : SUBSET Own]

Pipes ==
  /\ stdin \in Seq(Own) /\ Len(stdin) <= StdinRoom
  /\ stdout \in Seq(Own) /\ Len(stdout) <= StdoutRoom
  /\ server \in Server

Table ==
  /\ mu \in Callers \cup {Nobody}
  /\ made \in 0..MaxCalls /\ nextID = made
  /\ pending \in [Calls -> 0..MaxCalls] /\ answer \in [Calls -> 0..MaxCalls]
  /\ woken \subseteq Calls
  /\ caller \in [Callers -> Record]
  /\ reader \in Reader /\ (reader.at = "dispatch" => reader.frame \in Own)

(* A caller has the call and the id of its own.                            *)
Busy(c) == ~At(c, "idle")

CallersOwn ==
  /\ \A c \in Callers : Busy(c) => caller[c].call \in 1..made /\ caller[c].id = caller[c].call
  /\ \A c, d \in Callers : Busy(c) /\ Busy(d) /\ c # d => caller[c].call # caller[d].call

(* An id in the table waits for its own call, which has neither an answer  *)
(* nor an end yet; a number not handed out has nothing.                    *)
Unheard(n) == answer[n] = 0 /\ n \notin woken

EntriesOwn ==
  \A n \in Calls :
    /\ pending[n] # 0 => pending[n] = n /\ n <= made /\ Unheard(n)
    /\ n > made => Unheard(n)

(* The reader has taken the call it answers off the table.                 *)
Sending(n) == reader.at = "send" /\ reader.for = n

HandsOver ==
  \A n \in 0..MaxCalls : Sending(n) =>
    /\ n \in 1..made /\ reader.frame.call = n
    /\ pending[n] = 0 /\ Unheard(n)

(* Whoever waits is in the table, is being answered, or was.               *)
Waits(c) == At(c, "registered") \/ At(c, "writing") \/ At(c, "waiting")
Served(n) == pending[n] # 0 \/ ~Unheard(n) \/ Sending(n)

NobodyLost == \A c \in Callers : Waits(c) => Served(caller[c].call)

NothingBehind ==
  reader.at = "ended" => reader.upto <= made /\ \A n \in 1..reader.upto : pending[n] = 0

IInv == /\ Table /\ Pipes /\ closing \in {"open", "closed", "waiting", "done"}
        /\ CallersOwn /\ EntriesOwn /\ HandsOver /\ NobodyLost /\ NothingBehind
        /\ OwnAnswer

LEMMA InitIInv == Init => IInv
<1> SUFFICES ASSUME Init PROVE IInv
  OBVIOUS
<1> USE ConstantsAssumption DEF Init
<1>1. caller \in [Callers -> Record] /\ \A c \in Callers : caller[c].at = "idle"
  BY DEF Idle, Record, Points
<1>2. reader \in Reader /\ reader.at = "scan"
  BY DEF Reader, ReaderPoints, Nothing
<1>3. Table
  BY <1>1, <1>2 DEF Table, Calls
<1>4. Pipes
  BY DEF Pipes, Server, Own
<1> QED
  BY <1>1, <1>2, <1>3, <1>4
     DEF IInv, CallersOwn, EntriesOwn, HandsOver, NobodyLost, NothingBehind, OwnAnswer,
         Busy, At, Unheard, Sending, Waits, Calls

-----------------------------------------------------------------------------
(* What moving a caller, or the reader, does to its record.                *)
LEMMA GotoFields ==
  ASSUME caller \in [Callers -> Record], NEW c \in Callers, NEW p \in Points, Goto(c, p)
  PROVE  /\ caller' \in [Callers -> Record]
         /\ caller'[c].at = p
         /\ caller'[c].call = caller[c].call /\ caller'[c].id = caller[c].id
         /\ \A d \in Callers : d # c => caller'[d] = caller[d]
BY DEF Goto, Record

(* A caller moves, and no table changes: it keeps its call, and waits only *)
(* if it waited before.                                                    *)
LEMMA MoveStep ==
  ASSUME IInv, NEW c \in Callers, NEW p \in Points, Goto(c, p), Busy(c),
         p \in {"registered", "writing", "waiting"} => Waits(c),
         UNCHANGED <<made, nextID, pending, answer, woken, reader, closing>>,
         mu' \in Callers \cup {Nobody}, Pipes'
  PROVE  IInv'
<1>1. /\ caller' \in [Callers -> Record]
      /\ caller'[c].at = p
      /\ \A d \in Callers : caller'[d].call = caller[d].call /\ caller'[d].id = caller[d].id
      /\ \A d \in Callers : d # c => caller'[d] = caller[d]
  BY GotoFields DEF IInv, Table
<1>2. Table'
  BY <1>1 DEF IInv, Table
<1>3. CallersOwn'
  BY <1>1 DEF IInv, CallersOwn, Busy, At
<1>4. (EntriesOwn /\ HandsOver /\ NothingBehind /\ OwnAnswer)'
  BY DEF IInv, EntriesOwn, HandsOver, NothingBehind, OwnAnswer, Unheard, Sending
<1>5. NobodyLost'
  BY <1>1 DEF IInv, NobodyLost, Waits, At, Served, Unheard, Sending
<1> QED
  BY <1>2, <1>3, <1>4, <1>5 DEF IInv

(* A new call has a number and an id nobody had before.                    *)
LEMMA RegisterStep ==
  ASSUME IInv, NEW c \in Callers, Register(c)
  PROVE  IInv'
<1> PICK n \in Calls : n = made + 1
  BY ConstantsAssumption DEF Register, IInv, Table, Calls
<1>1. /\ made' = n /\ nextID' = n
      /\ pending' = [pending EXCEPT ![n] = n]
      /\ caller' = [caller EXCEPT ![c] = [at |-> "registered", call |-> n, id |-> n]]
      /\ UNCHANGED <<mu, answer, woken, stdin, stdout, server, reader, closing>>
  BY DEF Register, IInv, Table, pipeVars
<1>2. /\ n \in 1..MaxCalls /\ made \in Nat /\ n > made
      /\ pending \in [Calls -> 0..MaxCalls] /\ caller \in [Callers -> Record]
  BY ConstantsAssumption DEF Register, IInv, Table
<1>3. [at |-> "registered", call |-> n, id |-> n] \in Record
  BY <1>2 DEF Record, Points
<1>4. /\ caller' \in [Callers -> Record]
      /\ caller'[c] = [at |-> "registered", call |-> n, id |-> n]
      /\ \A d \in Callers : d # c => caller'[d] = caller[d]
  BY <1>1, <1>2, <1>3
<1>5. /\ pending' \in [Calls -> 0..MaxCalls] /\ pending'[n] = n
      /\ \A i \in Calls : i # n => pending'[i] = pending[i]
  BY <1>1, <1>2 DEF Calls
<1>6. Unheard(n) /\ pending[n] = 0 /\ n \in Calls
  BY <1>2 DEF IInv, EntriesOwn, Calls
<1>7. Table' /\ Pipes'
  <2>1. made' \in 0..MaxCalls /\ nextID' = made'
    BY <1>1, <1>2
  <2>2. Table'
    BY <1>1, <1>4, <1>5, <2>1 DEF IInv, Table
  <2> QED
    BY <1>1, <2>2 DEF IInv, Pipes
<1>8. CallersOwn'
  <2>1. \A d \in Callers : d # c /\ Busy(d)' => /\ Busy(d) /\ caller'[d] = caller[d]
                                                /\ caller[d].call \in 1..made /\ caller[d].call # n
    BY <1>2, <1>4 DEF IInv, CallersOwn, Busy, At
  <2>2. 1..made \subseteq 1..made' /\ n \in 1..made'
    BY <1>1, <1>2
  <2> QED
    BY <1>4, <2>1, <2>2 DEF IInv, CallersOwn, Busy, At
<1>9. EntriesOwn' /\ OwnAnswer'
  <2>1. \A i \in Calls : i > made' => i > made
    BY <1>1, <1>2 DEF Calls
  <2>2. \A i \in Calls : i <= made => i <= made'
    BY <1>1, <1>2 DEF Calls
  <2>3. n <= made'
    BY <1>1, <1>2
  <2> QED
    BY <1>1, <1>5, <1>6, <2>1, <2>2, <2>3 DEF IInv, EntriesOwn, Unheard, OwnAnswer
<1>10. HandsOver'
  <2>1. ASSUME NEW i \in 0..MaxCalls, Sending(i)'
        PROVE  i \in 1..made /\ i # n /\ i \in Calls
    BY <1>1, <1>2, <2>1 DEF IInv, HandsOver, Sending, Calls
  <2>2. 1..made \subseteq 1..made'
    BY <1>1, <1>2
  <2> QED
    BY <1>1, <1>5, <2>1, <2>2 DEF IInv, HandsOver, Sending, Unheard
<1>11. NobodyLost'
  <2>1. ASSUME NEW d \in Callers, Waits(d)', d # c
        PROVE  Served(caller[d].call)'
    <3>1. Waits(d) /\ Busy(d) /\ caller'[d] = caller[d]
      BY <1>4, <2>1 DEF Waits, At, Busy
    <3>2. caller[d].call \in Calls /\ caller[d].call # n
      BY <1>2, <3>1, ConstantsAssumption DEF IInv, CallersOwn, Table, Calls
    <3>3. Served(caller[d].call)
      BY <3>1 DEF IInv, NobodyLost
    <3>4. pending'[caller[d].call] = pending[caller[d].call]
      BY <1>5, <3>2
    <3> QED
      BY <1>1, <3>1, <3>3, <3>4 DEF Served, Unheard, Sending
  <2>2. Served(n)'
    BY <1>2, <1>5 DEF Served
  <2>3. caller'[c].call = n
    BY <1>4
  <2> QED
    BY <2>1, <2>2, <2>3 DEF NobodyLost
<1>12. NothingBehind'
  <2>1. ASSUME (reader.at = "ended")'
        PROVE  /\ reader'.upto \in Nat /\ reader'.upto <= made
               /\ \A i \in 1..reader'.upto : pending[i] = 0
    BY <1>1, <2>1 DEF IInv, NothingBehind, Table, Reader
  <2> QED
    BY <1>1, <1>2, <1>5, <2>1 DEF NothingBehind, Calls
<1> QED
  BY <1>1, <1>7, <1>8, <1>9, <1>10, <1>11, <1>12 DEF IInv

(* Leaving takes the caller's own entry back, and no other's.              *)
LEMMA LeaveStep ==
  ASSUME IInv, NEW c \in Callers, Leave(c)
  PROVE  IInv'
<1> PICK n \in Calls : n = caller[c].call /\ n = caller[c].id /\ Busy(c)
  <2>1. Busy(c)
    BY DEF Leave, Busy, At
  <2>2. made \in 0..MaxCalls
    BY DEF IInv, Table
  <2>3. caller[c].call \in 1..made /\ caller[c].id = caller[c].call
    BY <2>1 DEF IInv, CallersOwn
  <2> QED
    BY <2>1, <2>2, <2>3, ConstantsAssumption DEF Calls
<1>1. /\ pending' = [pending EXCEPT ![n] = 0]
      /\ UNCHANGED <<mu, made, nextID, answer, woken, stdin, stdout, server, reader, closing>>
      /\ Goto(c, "idle")
  BY DEF Leave, pipeVars
<1>2. /\ caller' \in [Callers -> Record] /\ caller'[c].at = "idle"
      /\ \A d \in Callers : d # c => caller'[d] = caller[d]
  BY <1>1, GotoFields DEF IInv, Table, Points
<1>3. /\ pending' \in [Calls -> 0..MaxCalls] /\ pending'[n] = 0
      /\ \A i \in Calls : i # n => pending'[i] = pending[i]
  BY <1>1, ConstantsAssumption DEF IInv, Table
<1>4. Table' /\ Pipes'
  BY <1>1, <1>2, <1>3 DEF IInv, Table, Pipes
<1>5. CallersOwn'
  BY <1>1, <1>2 DEF IInv, CallersOwn, Busy, At
<1>6. (EntriesOwn /\ HandsOver /\ OwnAnswer)'
  BY <1>1, <1>3 DEF IInv, EntriesOwn, HandsOver, OwnAnswer, Unheard, Sending, Calls
<1>7. NobodyLost'
  <2>1. ASSUME NEW d \in Callers, Waits(d)'
        PROVE  /\ Waits(d) /\ caller'[d] = caller[d]
               /\ caller[d].call \in Calls /\ caller[d].call # n
    <3>1. d # c /\ caller'[d] = caller[d] /\ Busy(d) /\ Waits(d)
      BY <1>2, <2>1 DEF Waits, At, Busy
    <3> QED
      BY <3>1, ConstantsAssumption DEF IInv, CallersOwn, Table, Calls
  <2> QED
    BY <1>1, <1>3, <2>1 DEF IInv, NobodyLost, Served, Unheard, Sending
<1>8. NothingBehind'
  <2>1. ASSUME (reader.at = "ended")'
        PROVE  /\ reader.upto \in Nat /\ reader.upto <= made /\ made \in 0..MaxCalls
               /\ \A i \in 1..reader.upto : pending[i] = 0
    BY <1>1, <2>1 DEF IInv, NothingBehind, Table, Reader
  <2> QED
    BY <1>1, <1>3, <2>1, ConstantsAssumption DEF NothingBehind, Calls
<1> QED
  BY <1>1, <1>4, <1>5, <1>6, <1>7, <1>8 DEF IInv

-----------------------------------------------------------------------------
(* readLoop.  Moving it keeps the rest of its record.                      *)
LEMMA ReaderStep ==
  ASSUME IInv, NEW r \in Reader, reader' = r, r.upto = reader.upto,
         r.at \notin {"send", "ended"}, r.at = "dispatch" => r.frame \in Own,
         reader.at \notin {"send", "ended"},
         UNCHANGED <<callVars, closing>>, Pipes'
  PROVE  IInv'
<1>1. Table'
  BY DEF IInv, Table, callVars
<1>2. (CallersOwn /\ EntriesOwn /\ OwnAnswer)'
  BY DEF IInv, CallersOwn, EntriesOwn, OwnAnswer, Busy, At, Unheard, callVars
<1>3. (HandsOver /\ NothingBehind)'
  BY DEF HandsOver, NothingBehind, Sending
<1>4. NobodyLost'
  BY DEF IInv, NobodyLost, Waits, At, Served, Unheard, Sending, callVars
<1> QED
  BY <1>1, <1>2, <1>3, <1>4 DEF IInv

(* The head of a pipe leaves it; what enters it is a frame of its own.     *)
LEMMA TailType ==
  ASSUME NEW S, NEW q \in Seq(S), NEW room \in Nat, Len(q) <= room, q # <<>>
  PROVE  Head(q) \in S /\ Tail(q) \in Seq(S) /\ Len(Tail(q)) <= room
BY HeadTailProperties

LEMMA AppendType ==
  ASSUME NEW S, NEW q \in Seq(S), NEW x \in S, NEW room \in Nat, Len(q) < room
  PROVE  Append(q, x) \in Seq(S) /\ Len(Append(q, x)) <= room
BY AppendProperties

LEMMA ScanStep == IInv /\ Scan => IInv'
<1> SUFFICES ASSUME IInv, Scan PROVE IInv'
  OBVIOUS
<1>1. /\ Head(stdout) \in Own /\ Tail(stdout) \in Seq(Own)
      /\ Len(Tail(stdout)) <= StdoutRoom
  BY TailType, ConstantsAssumption DEF Scan, IInv, Pipes
<1>2. reader \in Reader /\ reader.at = "scan"
  BY DEF IInv, Table, Scan
<1> DEFINE r == [reader EXCEPT !.at = "dispatch", !.frame = Head(stdout)]
<1>3. /\ r \in Reader /\ r.at = "dispatch" /\ r.frame \in Own
      /\ r.upto = reader.upto
  BY <1>1, <1>2 DEF Reader, ReaderPoints
<1>4. Pipes'
  BY <1>1 DEF IInv, Pipes, Scan
<1>5. reader' = r /\ UNCHANGED <<callVars, closing>>
  BY DEF Scan
<1> HIDE DEF r
<1> QED
  BY <1>2, <1>3, <1>4, <1>5, ReaderStep

(* The entry of an answer is taken off the table, and if there was one the *)
(* reader holds it now.                                                    *)
LEMMA DispatchStep == IInv /\ Dispatch => IInv'
<1> SUFFICES ASSUME IInv, Dispatch PROVE IInv'
  OBVIOUS
<1>1. reader.at = "dispatch" /\ reader \in Reader /\ reader.frame \in Own
  BY DEF IInv, Table, Dispatch
<1> PICK i \in Calls : i = reader.frame.id /\ i = reader.frame.call
  BY <1>1 DEF Own, Frame
<1> PICK n \in 0..MaxCalls : n = pending[i]
  BY DEF IInv, Table
<1> DEFINE r == [reader EXCEPT !.at = IF n = 0 THEN "scan" ELSE "send", !.for = n]
<1>2. /\ reader' = r /\ pending' = [pending EXCEPT ![i] = 0]
      /\ UNCHANGED <<mu, made, nextID, answer, woken, caller, stdin, stdout, server, closing>>
  BY DEF Dispatch, pipeVars
<1>3. /\ r \in Reader /\ r.for = n /\ r.frame = reader.frame /\ r.upto = reader.upto
      /\ r.at = IF n = 0 THEN "scan" ELSE "send"
  BY <1>1 DEF Reader, ReaderPoints
<1> HIDE DEF r
<1>4. /\ pending' \in [Calls -> 0..MaxCalls] /\ pending'[i] = 0
      /\ \A j \in Calls : j # i => pending'[j] = pending[j]
  BY <1>2, ConstantsAssumption DEF IInv, Table
<1>5. n # 0 => n = i /\ n \in 1..made /\ Unheard(n)
  BY DEF IInv, EntriesOwn, Calls, Table
<1>6. Table' /\ Pipes'
  BY <1>2, <1>3, <1>4 DEF IInv, Table, Pipes
<1>7. (CallersOwn /\ OwnAnswer)'
  BY <1>2 DEF IInv, CallersOwn, OwnAnswer, Busy, At
<1>8. EntriesOwn'
  BY <1>2, <1>4 DEF IInv, EntriesOwn, Unheard, Calls
<1>9. HandsOver'
  BY <1>2, <1>3, <1>4, <1>5 DEF HandsOver, Sending, Unheard
<1>10. NobodyLost'
  <2>1. ASSUME NEW c \in Callers, Waits(c)'
        PROVE  Served(caller[c].call)'
    <3>1. Waits(c) /\ caller' = caller /\ Served(caller[c].call)
      BY <1>2, <2>1 DEF Waits, At, IInv, NobodyLost
    <3>2. caller[c].call \in Calls
      <4>1. made \in 0..MaxCalls /\ caller[c].call \in 1..made
        BY <3>1 DEF IInv, Table, CallersOwn, Busy, Waits, At
      <4> QED
        BY <4>1, ConstantsAssumption DEF Calls
    <3>3. CASE caller[c].call = i /\ n # 0
      BY <1>2, <1>3, <1>5, <3>1, <3>3 DEF Served, Sending
    <3>4. CASE caller[c].call = i /\ n = 0
      BY <1>1, <1>2, <3>1, <3>4 DEF Served, Sending, Unheard
    <3>5. CASE caller[c].call # i
      BY <1>1, <1>2, <1>4, <3>1, <3>2, <3>5 DEF Served, Sending, Unheard
    <3> QED
      BY <3>3, <3>4, <3>5
  <2> QED
    BY <2>1 DEF NobodyLost
<1>11. NothingBehind'
  BY <1>2, <1>3 DEF NothingBehind
<1> QED
  BY <1>2, <1>6, <1>7, <1>8, <1>9, <1>10, <1>11 DEF IInv

(* The call the reader holds gets its answer.                              *)
LEMMA SendStep == IInv /\ Send => IInv'
<1> SUFFICES ASSUME IInv, Send PROVE IInv'
  OBVIOUS
<1>1. reader.at = "send" /\ reader \in Reader /\ made \in 0..MaxCalls
  BY DEF IInv, Table, Send
<1> PICK n \in 0..MaxCalls : n = reader.for
  BY <1>1 DEF Reader
<1>2. n \in 1..made /\ reader.frame.call = n /\ pending[n] = 0 /\ Unheard(n)
  BY <1>1 DEF IInv, HandsOver, Sending
<1>3. n \in Calls
  BY <1>1, <1>2, ConstantsAssumption DEF Calls
<1> DEFINE r == [reader EXCEPT !.at = "scan"]
<1>4. /\ answer' = [answer EXCEPT ![n] = n] /\ reader' = r
      /\ UNCHANGED <<mu, made, nextID, pending, woken, caller, stdin, stdout, server, closing>>
  BY <1>2 DEF Send, pipeVars
<1>5. r \in Reader /\ r.at = "scan" /\ r.upto = reader.upto
  BY <1>1 DEF Reader, ReaderPoints
<1> HIDE DEF r
<1>6. /\ answer' \in [Calls -> 0..MaxCalls] /\ answer'[n] = n
      /\ \A j \in Calls : j # n => answer'[j] = answer[j]
  BY <1>3, <1>4 DEF IInv, Table
<1>7. Table' /\ Pipes'
  BY <1>4, <1>5, <1>6 DEF IInv, Table, Pipes
<1>8. (CallersOwn /\ OwnAnswer)'
  BY <1>4, <1>6 DEF IInv, CallersOwn, OwnAnswer, Busy, At
<1>9. EntriesOwn'
  <2>1. \A j \in Calls : j > made => j # n
    BY <1>1, <1>2 DEF Calls
  <2> QED
    BY <1>2, <1>4, <1>6, <2>1 DEF IInv, EntriesOwn, Unheard
<1>10. (HandsOver /\ NothingBehind)'
  BY <1>4, <1>5 DEF HandsOver, NothingBehind, Sending
<1>11. NobodyLost'
  <2>1. ASSUME NEW c \in Callers, Waits(c)'
        PROVE  Served(caller[c].call)'
    <3>1. Waits(c) /\ caller' = caller /\ Served(caller[c].call)
      BY <1>4, <2>1 DEF Waits, At, IInv, NobodyLost
    <3>2. caller[c].call \in Calls
      <4>1. caller[c].call \in 1..made
        BY <3>1 DEF IInv, CallersOwn, Busy, Waits, At
      <4> QED
        BY <1>1, <4>1, ConstantsAssumption DEF Calls
    <3>3. CASE caller[c].call = n
      <4>1. n # 0
        BY <1>2
      <4> QED
        BY <1>6, <3>1, <3>3, <4>1 DEF Served, Unheard
    <3>4. CASE caller[c].call # n
      BY <1>1, <1>4, <1>6, <3>1, <3>2, <3>4 DEF Served, Sending, Unheard
    <3> QED
      BY <3>3, <3>4
  <2> QED
    BY <2>1 DEF NobodyLost
<1> QED
  BY <1>4, <1>7, <1>8, <1>9, <1>10, <1>11 DEF IInv

(* The end empties the table, and wakes everyone who was in it.            *)
LEMMA EndStep == IInv /\ End => IInv'
<1> SUFFICES ASSUME IInv, End PROVE IInv'
  OBVIOUS
<1>1. reader.at = "eof" /\ reader \in Reader /\ made \in 0..MaxCalls
  BY DEF IInv, Table, End
<1> DEFINE r == [reader EXCEPT !.at = "ended", !.upto = made]
<1>2. /\ pending' = [i \in Calls |-> 0] /\ reader' = r
      /\ woken' = woken \cup {pending[i] : i \in {j \in Calls : pending[j] # 0}}
      /\ UNCHANGED <<mu, made, nextID, answer, caller, stdin, stdout, server, closing>>
  BY DEF End, pipeVars
<1>3. r \in Reader /\ r.at = "ended" /\ r.upto = made
  BY <1>1 DEF Reader, ReaderPoints
<1> HIDE DEF r
<1>4. \A n \in Calls : n \in woken' <=> n \in woken \/ pending[n] # 0
  BY <1>2 DEF IInv, EntriesOwn
<1>5. woken' \subseteq Calls
  BY <1>2 DEF IInv, EntriesOwn, Table
<1>6. Table' /\ Pipes'
  <2>1. pending' \in [Calls -> 0..MaxCalls]
    BY <1>2, ConstantsAssumption
  <2> QED
    BY <1>2, <1>3, <1>5, <2>1 DEF IInv, Table, Pipes
<1>7. (CallersOwn /\ OwnAnswer)'
  BY <1>2 DEF IInv, CallersOwn, OwnAnswer, Busy, At
<1>8. EntriesOwn'
  <2>1. ASSUME NEW n \in Calls, n > made
        PROVE  Unheard(n) /\ pending[n] = 0
    <3>1. ~(n <= made) /\ Unheard(n)
      BY <1>1, <2>1 DEF Calls, IInv, EntriesOwn
    <3> QED
      BY <3>1 DEF IInv, EntriesOwn
  <2> QED
    BY <1>2, <1>4, <2>1 DEF EntriesOwn, Unheard
<1>9. HandsOver'
  BY <1>2, <1>3 DEF HandsOver, Sending
<1>10. NobodyLost'
  <2>1. ASSUME NEW c \in Callers, Waits(c)'
        PROVE  Served(caller[c].call)'
    <3>1. Waits(c) /\ caller' = caller /\ Served(caller[c].call)
      BY <1>2, <2>1 DEF Waits, At, IInv, NobodyLost
    <3>2. caller[c].call \in Calls
      <4>1. caller[c].call \in 1..made
        BY <3>1 DEF IInv, CallersOwn, Busy, Waits, At
      <4> QED
        BY <1>1, <4>1, ConstantsAssumption DEF Calls
    <3> QED
      BY <1>1, <1>2, <1>4, <3>1, <3>2 DEF Served, Sending, Unheard
  <2> QED
    BY <2>1 DEF NobodyLost
<1>11. NothingBehind'
  <2>1. 1..made \subseteq Calls /\ made <= made
    BY <1>1, ConstantsAssumption DEF Calls
  <2> QED
    BY <1>2, <1>3, <2>1 DEF NothingBehind
<1> QED
  BY <1>2, <1>6, <1>7, <1>8, <1>9, <1>10, <1>11 DEF IInv

-----------------------------------------------------------------------------
(* The server and Close touch the pipes alone.                             *)
LEMMA PipeStep ==
  ASSUME IInv, UNCHANGED <<callVars, reader>>, Pipes',
         closing' \in {"open", "closed", "waiting", "done"}
  PROVE  IInv'
BY DEF IInv, Table, CallersOwn, EntriesOwn, HandsOver, NobodyLost, NothingBehind, OwnAnswer,
   Busy, At, Unheard, Sending, Waits, Served, callVars

LEMMA ServerStep ==
  ASSUME IInv, ServerReads \/ ServerAnswers \/ ServerStarts \/ ServerExits \/ ChildExits \/ Kill
  PROVE  IInv'
<1>1. /\ server \in Server /\ stdin \in Seq(Own) /\ stdout \in Seq(Own)
      /\ Len(stdin) <= StdinRoom /\ Len(stdout) <= StdoutRoom
      /\ StdinRoom \in Nat /\ StdoutRoom \in Nat
  BY ConstantsAssumption DEF IInv, Pipes
<1>2. CASE ServerReads
  <2>1. /\ Head(stdin) \in Own /\ Tail(stdin) \in Seq(Own) /\ Len(Tail(stdin)) <= StdinRoom
    BY <1>1, <1>2, TailType DEF ServerReads
  <2>2. [server EXCEPT !.read = @ \cup {Head(stdin)}] \in Server
    BY <1>1, <2>1 DEF Server
  <2>3. Pipes'
    BY <1>1, <1>2, <2>1, <2>2 DEF ServerReads, Pipes
  <2> QED
    BY <1>2, <2>3, PipeStep DEF ServerReads, IInv
<1>3. CASE ServerAnswers
  <2>1. PICK q \in server.read :
          /\ stdout' = Append(stdout, q)
          /\ server' \in {server, [server EXCEPT !.read = @ \ {q}]}
    BY <1>3 DEF ServerAnswers
  <2>2. q \in Own /\ server' \in Server
    BY <1>1, <2>1 DEF Server
  <2>3. stdout' \in Seq(Own) /\ Len(stdout') <= StdoutRoom
    BY <1>1, <1>3, <2>1, <2>2, AppendType DEF ServerAnswers
  <2>4. Pipes'
    BY <1>1, <1>3, <2>2, <2>3 DEF ServerAnswers, Pipes
  <2> QED
    BY <1>3, <2>4, PipeStep DEF ServerAnswers, IInv
<1>4. ASSUME NEW a \in BOOLEAN, NEW b \in BOOLEAN, Lose(a, b)
      PROVE  IInv'
  <2>1. <<>> \in Seq(Own) /\ Len(<<>>) = 0
    OBVIOUS
  <2>2. /\ server' = [up |-> a, child |-> b, read |-> IF a \/ b THEN server.read ELSE {}]
        /\ stdin' \in {stdin, <<>>} /\ stdout' = stdout
    BY <1>4 DEF Lose
  <2>3. server.read \subseteq Own
    BY <1>1 DEF Server
  <2>4. server' \in Server
    BY <2>2, <2>3 DEF Server
  <2>5. stdin' \in Seq(Own) /\ Len(stdin') <= StdinRoom
    <3>1. CASE stdin' = stdin
      BY <1>1, <3>1
    <3>2. CASE stdin' = <<>>
      BY <1>1, <2>1, <3>2
    <3> QED
      BY <2>2, <3>1, <3>2
  <2>6. Pipes'
    BY <1>1, <2>2, <2>4, <2>5 DEF Pipes
  <2> QED
    BY <1>4, <2>6, PipeStep DEF Lose, IInv
<1>5. CASE ServerStarts
  <2>1. [server EXCEPT !.child = TRUE] \in Server
    BY <1>1 DEF Server
  <2>2. Pipes'
    BY <1>1, <1>5, <2>1 DEF ServerStarts, Pipes
  <2> QED
    BY <1>5, <2>2, PipeStep DEF ServerStarts, IInv
<1>6. CASE ServerExits \/ ChildExits \/ Kill
  <2>1. server.up \in BOOLEAN /\ server.child \in BOOLEAN
    BY <1>1 DEF Server
  <2> QED
    BY <1>4, <1>6, <2>1 DEF ServerExits, ChildExits, Kill
<1> QED
  BY <1>2, <1>3, <1>5, <1>6

LEMMA CallStep ==
  ASSUME IInv, NEW c \in Callers, Call(c)
  PROVE  IInv'
<1>1. Pipes /\ mu \in Callers \cup {Nobody}
  BY DEF IInv, Table
<1>2. CASE LockToWrite(c)
  BY <1>1, <1>2, MoveStep DEF LockToWrite, Points, Busy, At, Waits, Pipes, pipeVars
<1>3. CASE Write(c)
  <2> DEFINE q == [id |-> caller[c].id, call |-> caller[c].call]
  <2>1. Busy(c) /\ Waits(c)
    BY <1>3 DEF Write, Busy, At, Waits
  <2>2. made \in 0..MaxCalls /\ caller[c].call \in 1..made /\ caller[c].id = caller[c].call
    BY <2>1 DEF IInv, Table, CallersOwn
  <2>3. caller[c].call \in Calls
    BY <2>2, ConstantsAssumption DEF Calls
  <2>4. q \in Own
    BY <2>2, <2>3 DEF Own, Frame
  <2>5. stdin' = Append(stdin, q) /\ Len(stdin) < StdinRoom
    BY <1>3 DEF Write
  <2> HIDE DEF q
  <2>6. stdin' \in Seq(Own) /\ Len(stdin') <= StdinRoom
    BY <1>1, <2>4, <2>5, AppendType, ConstantsAssumption DEF Pipes
  <2>7. Pipes'
    BY <1>1, <1>3, <2>6 DEF Write, Pipes
  <2> QED
    BY <1>3, <2>1, <2>7, MoveStep DEF Write, Points
<1>4. CASE WriteFails(c)
  BY <1>1, <1>4, MoveStep DEF WriteFails, Points, Busy, At, Pipes, pipeVars
<1>5. CASE Receive(c)
  BY <1>1, <1>5, MoveStep DEF Receive, Points, Busy, At, Pipes, pipeVars
<1>6. CASE StopWaiting(c)
  BY <1>1, <1>6, MoveStep DEF StopWaiting, Points, Busy, At, Pipes, pipeVars
<1> QED
  BY <1>2, <1>3, <1>4, <1>5, <1>6, LeaveStep DEF Call

LEMMA StepIInv == IInv /\ [Next]_vars => IInv'
<1> SUFFICES ASSUME IInv, [Next]_vars PROVE IInv'
  OBVIOUS
<1>1. CASE \E c \in Callers : Register(c) \/ Call(c)
  BY <1>1, RegisterStep, CallStep
<1>2. CASE ScanEnds
  <2>1. reader \in Reader /\ reader.at = "scan" /\ Pipes'
    BY <1>2 DEF IInv, Table, ScanEnds, Pipes, pipeVars
  <2> DEFINE r == [reader EXCEPT !.at = "eof"]
  <2>2. r \in Reader /\ r.at = "eof" /\ r.upto = reader.upto
    BY <2>1 DEF Reader, ReaderPoints
  <2>3. reader' = r /\ UNCHANGED <<callVars, closing>>
    BY <1>2 DEF ScanEnds
  <2> HIDE DEF r
  <2> QED
    BY <2>1, <2>2, <2>3, ReaderStep
<1>3. CASE ReadLoop
  BY <1>2, <1>3, ScanStep, DispatchStep, SendStep, EndStep DEF ReadLoop
<1>4. CASE ServerReads \/ ServerAnswers \/ ServerStarts \/ ServerExits \/ ChildExits \/ Kill
  BY <1>4, ServerStep
<1>5. CASE CloseCalls \/ CloseStdin \/ CloseReturns \/ Done \/ UNCHANGED vars
  <2>1. Pipes' /\ UNCHANGED <<callVars, reader>>
    BY <1>5 DEF CloseCalls, CloseStdin, CloseReturns, Done, vars, Pipes, pipeVars, IInv
  <2>2. closing' \in {"open", "closed", "waiting", "done"}
    BY <1>5 DEF CloseCalls, CloseStdin, CloseReturns, Done, vars, IInv
  <2> QED
    BY <2>1, <2>2, PipeStep
<1> QED
  BY <1>1, <1>3, <1>4, <1>5 DEF Next, CloseSteps

LEMMA Invariance == Spec => []IInv
BY InitIInv, StepIInv, PTL DEF Spec

-----------------------------------------------------------------------------
(* The state of a connection is well formed, whatever callers, timeouts,   *)
(* the server and Close do together (client.go).                           *)
THEOREM TypeCorrect == Spec => []TypeOK
<1>1. Own \subseteq Frame /\ Seq(Own) \subseteq Seq(Frame)
  BY DEF Own
<1>2. IInv => TypeOK
  BY <1>1 DEF IInv, Table, Pipes, TypeOK, Record, Points, Reader, ReaderPoints, Server
<1> QED
  BY <1>2, Invariance, PTL

(* A call receives no other call's answer: an id is handed out once, under *)
(* the lock, and an answer finds its call by the id (call, readLoop).      *)
THEOREM AnswersOwn == Spec => []OwnAnswer
<1>1. IInv => OwnAnswer
  BY DEF IInv
<1> QED
  BY <1>1, Invariance, PTL

(* The reader never blocks on a caller, and leaves none behind: whoever it *)
(* sends to is off the table, so unanswered and not woken, and everyone    *)
(* who waits is in the table when the end empties it (readLoop, call).     *)
THEOREM ReaderServes == Spec => []ReaderServesAll
<1>1. ASSUME IInv PROVE ReaderNeverStuck
  <2>1. reader.at = "send" => reader.for \in 0..MaxCalls /\ Sending(reader.for)
    BY <1>1 DEF IInv, Table, Reader, Sending
  <2> QED
    BY <1>1, <2>1 DEF IInv, HandsOver, ReaderNeverStuck, Unheard
<1>2. ASSUME IInv PROVE WokenWithReader
  <2> SUFFICES ASSUME reader.at = "ended", NEW c \in Callers, At(c, "waiting"),
                      caller[c].call <= reader.upto
               PROVE  ~Unheard(caller[c].call)
    BY DEF WokenWithReader, Unheard
  <2>1. Served(caller[c].call) /\ caller[c].call \in 1..made
    BY <1>2 DEF IInv, NobodyLost, Waits, CallersOwn, Busy, At
  <2>2. made \in 0..MaxCalls /\ reader.upto \in 0..MaxCalls
    BY <1>2 DEF IInv, Table, Reader
  <2>3. caller[c].call \in 1..reader.upto
    BY <2>1, <2>2, ConstantsAssumption
  <2> QED
    BY <1>2, <2>1, <2>3 DEF IInv, NothingBehind, Served, Sending
<1>3. IInv => ReaderServesAll
  BY <1>1, <1>2 DEF ReaderServesAll
<1> QED
  BY <1>3, Invariance, PTL
=============================================================================
