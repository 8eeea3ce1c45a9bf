----------------------------- MODULE IpcProofs -----------------------------
(***************************************************************************)
(* Proofs about Ipc, for every set of processes and messages, interrupts    *)
(* inside system calls or not: the type invariant, the consistency of the   *)
(* process table, the sending queues, the absence of cycles of senders,     *)
(* that no wakeup is missed, which assertions interrupts can make fail, and *)
(* that Ipc implements Rendezvous up to collisions with interrupts.         *)
(***************************************************************************)
EXTENDS IpcRefinement, SequenceTheorems, TLAPS

SendPcs == {"send", "sendCheck", "sendCopy", "sendClear", "sendUnblock"}
HandOverPcs == {"sendCheck", "sendCopy", "sendClear", "sendUnblock"}
RecvPcs == {"recv", "recvInt", "recvIntCheck", "recvFetch", "recvBlock"}

\* The call in progress: its caller takes part in nothing else, and during a
\* hand-over the receiver waits for the caller or has been woken by an
\* interrupt, but never waits to send.
CallOK ==
    /\ kpc \in SendPcs => /\ cur \in Procs /\ peer \in Procs /\ peer # cur
                          /\ AtRest(cur)
    /\ kpc \in HandOverPcs => SENDING \notin p_flags[peer]
    /\ kpc \in RecvPcs => /\ cur \in Procs /\ peer # cur /\ peer # NO_TASK
                          /\ AtRest(cur)
    /\ kpc = "recvCheck" => cur \in Procs /\ SENDING \notin p_flags[cur]

IInv == TypeOK /\ FieldsOK /\ QueueOK /\ NoSendCycle /\ CallOK /\ QueuePathSafe

----------------------------------------------------------------------------
(* Removing one element of a sending queue. *)

LEMMA UnlinkProperties ==
    ASSUME NEW q \in Seq(Procs), NEW p, \E i \in DOMAIN q : q[i] = p
    PROVE  \E k \in DOMAIN q :
              /\ q[k] = p
              /\ Unlink(q, p) \in Seq(Procs)
              /\ DOMAIN Unlink(q, p) = 1 .. (Len(q) - 1)
              /\ \A j \in 1 .. (Len(q) - 1) :
                    Unlink(q, p)[j] = IF j < k THEN q[j] ELSE q[j + 1]
<1> DEFINE k == CHOOSE i \in DOMAIN q : q[i] = p
           u == RemoveAt(q, k)
<1>1. k \in DOMAIN q /\ q[k] = p
  OBVIOUS
<1>2. k \in 1 .. Len(q) /\ Len(q) \in Nat
  BY <1>1, LenProperties
<1>3. /\ SubSeq(q, 1, k - 1) \in Seq(Procs)
      /\ Len(SubSeq(q, 1, k - 1)) = k - 1
      /\ \A j \in 1 .. (k - 1) : SubSeq(q, 1, k - 1)[j] = q[j]
  <2> HIDE DEF k
  <2> QED BY <1>2
<1>4. /\ SubSeq(q, k + 1, Len(q)) \in Seq(Procs)
      /\ Len(SubSeq(q, k + 1, Len(q))) = Len(q) - k
      /\ \A j \in 1 .. (Len(q) - k) : SubSeq(q, k + 1, Len(q))[j] = q[j + k]
  <2> HIDE DEF k
  <2> QED BY <1>2
<1>5. /\ u \in Seq(Procs)
      /\ Len(u) = Len(q) - 1
      /\ \A j \in 1 .. (Len(q) - 1) : u[j] = IF j < k THEN q[j] ELSE q[j + 1]
  <2> DEFINE s1 == SubSeq(q, 1, k - 1)
             s2 == SubSeq(q, k + 1, Len(q))
  <2>1. u = s1 \o s2
    BY DEF RemoveAt
  <2> HIDE DEF k, u, s1, s2
  <2>2. /\ s1 \in Seq(Procs) /\ s2 \in Seq(Procs)
        /\ Len(s1) = k - 1 /\ Len(s2) = Len(q) - k
        /\ \A j \in 1 .. (k - 1) : s1[j] = q[j]
        /\ \A j \in 1 .. (Len(q) - k) : s2[j] = q[j + k]
    BY <1>3, <1>4 DEF s1, s2
  <2>3. /\ u \in Seq(Procs) /\ Len(u) = Len(s1) + Len(s2)
        /\ \A i \in 1 .. (Len(s1) + Len(s2)) :
              u[i] = IF i <= Len(s1) THEN s1[i] ELSE s2[i - Len(s1)]
    BY <2>1, <2>2, ConcatProperties
  <2>4. ASSUME NEW j \in 1 .. (Len(q) - 1)
        PROVE  u[j] = IF j < k THEN q[j] ELSE q[j + 1]
    <3>1. CASE j < k
      <4>1. j \in 1 .. (k - 1) /\ j \in 1 .. (Len(s1) + Len(s2)) /\ j <= Len(s1)
        BY <1>2, <2>2, <3>1
      <4>2. u[j] = s1[j] /\ s1[j] = q[j]
        BY <2>2, <2>3, <4>1
      <4> QED BY <3>1, <4>2
    <3>2. CASE ~(j < k)
      <4>1. /\ j - (k - 1) \in 1 .. (Len(q) - k)
            /\ j \in 1 .. (Len(s1) + Len(s2)) /\ ~(j <= Len(s1))
            /\ j - (k - 1) + k = j + 1
        BY <1>2, <2>2, <3>2
      <4>2. u[j] = s2[j - (k - 1)]
        BY <2>2, <2>3, <4>1
      <4>3. s2[j - (k - 1)] = q[j + 1]
        BY <2>2, <4>1
      <4> QED BY <4>2, <4>3, <3>2
    <3> QED BY <3>1, <3>2
  <2> QED BY <1>2, <2>2, <2>3, <2>4
<1>6. DOMAIN u = 1 .. (Len(q) - 1)
  <2> HIDE DEF u
  <2> QED BY <1>5, LenProperties
<1>7. u = Unlink(q, p)
  BY DEF Unlink
<1> QED
  <2> HIDE DEF u, k
  <2> QED BY <1>1, <1>5, <1>6, <1>7

\* The senders a receive may take a message from are processes of its queue.
LEMMA CandidatesInQueue ==
    ASSUME TypeOK, QueueOK, cur \in Procs, NEW from \in Candidates
    PROVE  /\ from \in Procs
           /\ \E i \in DOMAIN q_sending[cur] : q_sending[cur][i] = from
           /\ p_sendto[from] = cur
<1>1. q_sending[cur] \in Seq(Procs)
  BY DEF TypeOK
<1>2. CASE peer = ANY
  <2>1. 1 \in DOMAIN q_sending[cur] /\ from = q_sending[cur][1]
    BY <1>2 DEF Candidates
  <2>2. from \in Procs
    BY <1>1, <2>1, LenProperties, ElementOfSeq
  <2> QED BY <2>1, <2>2 DEF QueueOK
<1>3. CASE peer # ANY
  <2>1. from \in Procs /\ p_sendto[from] = cur
    BY <1>3 DEF Candidates
  <2> QED BY <2>1 DEF QueueOK
<1> QED BY <1>2, <1>3

----------------------------------------------------------------------------
(* The conjuncts of the inductive invariant, one lemma each. *)

LEMMA TypeStep ==
    ASSUME IInv, [Next]_vars
    PROVE  TypeOK'
<1> USE IpcAssumption DEF IInv, TypeOK
<1> USE DEF KernelPcs, Panics, Continue, Return, tableVars
<1>1. ASSUME NEW p \in Procs, NEW dest \in Procs, NEW body \in Bodies,
             CallSend(p, dest, body)
      PROVE  TypeOK'
  BY <1>1 DEF CallSend, Enter, Message
<1>2. ASSUME NEW p \in Procs, NEW src \in SourcesFor(p), CallReceive(p, src)
      PROVE  TypeOK'
  BY <1>2 DEF CallReceive, Enter, Message, SourcesFor
<1>3. CASE SendDeadlock \/ SendReady \/ SendCheck
  BY <1>3 DEF SendDeadlock, SendReady, SendCheck
<1>4. CASE SendBlock
  <2>1. cur \in Procs /\ peer \in Procs
    BY <1>4 DEF SendBlock, CallOK, SendPcs
  <2>2. q_sending' \in [Procs -> Seq(Procs)]
    BY <1>4, <2>1, AppendProperties DEF SendBlock
  <2>3. p_flags' \in [Procs -> SUBSET {SENDING, RECEIVING}]
    BY <1>4, <2>1 DEF SendBlock
  <2> QED BY <1>4, <2>1, <2>2, <2>3 DEF SendBlock
<1>5. CASE SendCopy \/ SendClear
  <2>1. cur \in Procs /\ peer \in Procs
    BY <1>5 DEF SendCopy, SendClear, CallOK, SendPcs
  <2>2. buf' \in [Procs -> Message]
    <3>1. buf' = buf \/ buf' = [buf EXCEPT ![peer] = buf[cur]]
      BY <1>5 DEF SendCopy, SendClear
    <3>2. buf \in [Procs -> Message] /\ buf[cur] \in Message
      BY <2>1
    <3> QED  BY <2>1, <3>1, <3>2
  <2>3. p_msg' \in [Procs -> BOOLEAN]
    BY <1>5, <2>1 DEF SendCopy, SendClear
  <2> QED BY <1>5, <2>2, <2>3 DEF SendCopy, SendClear
<1>6. CASE SendUnblock
  BY <1>6 DEF SendUnblock, CallOK, SendPcs
<1>7. CASE RecvTest \/ RecvIntCheck \/ RecvNone \/ RecvCheck
  BY <1>7 DEF RecvTest, RecvIntCheck, RecvNone, RecvCheck
<1>8. CASE RecvInt
  BY <1>8 DEF RecvInt, CallOK, RecvPcs, Message, HardInt
<1>9. CASE RecvFetch
  <2> USE DEF RecvFetch
  <2>1. cur \in Procs
    BY <1>9 DEF CallOK, RecvPcs
  <2>2. PICK from \in Candidates :
           IF FetchAsserts(from) THEN Fetch(from)
           ELSE Continue("assertFetch") /\ UNCHANGED <<tableVars, buf>>
    BY <1>9
  <2>3. from \in Procs /\ \E i \in DOMAIN q_sending[cur] : q_sending[cur][i] = from
    BY <2>1, CandidatesInQueue
  <2>4. CASE Fetch(from)
    <3>1. Unlink(q_sending[cur], from) \in Seq(Procs)
      BY <2>1, <2>3, UnlinkProperties
    <3>2. q_sending' \in [Procs -> Seq(Procs)]
      BY <2>4, <3>1 DEF Fetch
    <3> QED BY <1>9, <2>1, <2>3, <2>4, <3>2 DEF Fetch
  <2>5. CASE Continue("assertFetch") /\ UNCHANGED <<tableVars, buf>>
    BY <2>5
  <2> QED BY <2>2, <2>4, <2>5
<1>10. CASE RecvBlock
  BY <1>10 DEF RecvBlock, CallOK, RecvPcs
<1>11. ASSUME NEW t \in IntTasks, InformWaiting(t)
       PROVE  TypeOK'
  <2>1. t \in Procs /\ HardInt \in Message
    BY DEF HardInt, Message
  <2> QED BY <1>11, <2>1 DEF InformWaiting
<1>12. ASSUME NEW t \in IntTasks, InformBusy(t)
       PROVE  TypeOK'
  BY <1>12 DEF InformBusy
<1>13. CASE Halted
  BY <1>13 DEF Halted, vars
<1>14. CASE UNCHANGED vars
  BY <1>14 DEF vars
<1> QED
  BY <1>1, <1>2, <1>3, <1>4, <1>5, <1>6, <1>7, <1>8, <1>9, <1>10, <1>11,
     <1>12, <1>13, <1>14 DEF Next, Calls, Send, Receive, InformInt

LEMMA CallStep ==
    ASSUME IInv, [Next]_vars
    PROVE  CallOK'
<1>a. \A p \in Procs : RECEIVING \in p_flags[p] => p_flags[p] = {RECEIVING}
  BY IpcAssumption DEF IInv, FieldsOK
<1> USE IpcAssumption DEF IInv, TypeOK, CallOK, AtRest
<1> USE DEF SendPcs, HandOverPcs, RecvPcs, Continue, Return, tableVars
<1>1. ASSUME NEW p \in Procs, NEW dest \in Procs, NEW body \in Bodies,
             CallSend(p, dest, body)
      PROVE  CallOK'
  BY <1>1 DEF CallSend, Enter, FieldsOK
<1>2. ASSUME NEW p \in Procs, NEW src \in SourcesFor(p), CallReceive(p, src)
      PROVE  CallOK'
  BY <1>2 DEF CallReceive, Enter, SourcesFor, FieldsOK
<1>3. CASE SendDeadlock \/ SendCheck
  BY <1>3 DEF SendDeadlock, SendCheck
<1>4. CASE SendReady
  <2>1. peer \in Procs /\ RECEIVING \in p_flags[peer]
    BY <1>4 DEF SendReady, WaitingFor
  <2>2. p_flags[peer] = {RECEIVING}
    BY <1>a, <2>1, Zenon
  <2>3. kpc = "send" /\ kpc' = "sendCheck" /\ UNCHANGED <<tableVars, cur, peer>>
    BY <1>4 DEF SendReady
  <2> QED BY <2>1, <2>2, <2>3
<1>5. CASE SendBlock
  BY <1>5 DEF SendBlock
<1>6. CASE SendCopy
  BY <1>6 DEF SendCopy
<1>7. CASE SendClear
  BY <1>7 DEF SendClear
<1>8. CASE SendUnblock
  BY <1>8 DEF SendUnblock
<1>9. CASE RecvTest \/ RecvIntCheck \/ RecvNone \/ RecvCheck \/ RecvInt
  BY <1>9 DEF RecvTest, RecvIntCheck, RecvNone, RecvCheck, RecvInt
<1>10. CASE RecvFetch
  BY <1>10 DEF RecvFetch, Fetch
<1>11. CASE RecvBlock
  BY <1>11 DEF RecvBlock
<1>12. ASSUME NEW t \in IntTasks, InformWaiting(t)
       PROVE  CallOK'
  BY <1>12 DEF InformWaiting, WaitingForInt
<1>13. ASSUME NEW t \in IntTasks, InformBusy(t)
       PROVE  CallOK'
  BY <1>13 DEF InformBusy
<1>14. CASE Halted \/ UNCHANGED vars
  BY <1>14 DEF Halted, vars
<1> QED
  BY <1>1, <1>2, <1>3, <1>4, <1>5, <1>6, <1>7, <1>8, <1>9, <1>10, <1>11,
     <1>12, <1>13, <1>14 DEF Next, Calls, Send, Receive, InformInt

LEMMA FieldsStep ==
    ASSUME IInv, [Next]_vars
    PROVE  FieldsOK'
<1>a. \A p \in Procs : RECEIVING \in p_flags[p] =>
          p_flags[p] = {RECEIVING} /\ p_sendto[p] = NO_TASK
  BY IpcAssumption DEF IInv, FieldsOK
<1> USE IpcAssumption DEF IInv, TypeOK, CallOK, FieldsOK, AtRest
<1> USE DEF SendPcs, HandOverPcs, RecvPcs, Continue, Return, tableVars
<1>1. ASSUME NEW p \in Procs, NEW dest \in Procs, NEW body \in Bodies,
             CallSend(p, dest, body)
      PROVE  FieldsOK'
  BY <1>1 DEF CallSend, Enter
<1>2. ASSUME NEW p \in Procs, NEW src \in SourcesFor(p), CallReceive(p, src)
      PROVE  FieldsOK'
  <2>1. UNCHANGED tableVars /\ kpc = "user" /\ kpc' = "recv"
    BY <1>2 DEF CallReceive, Enter
  <2> QED BY <2>1
<1>0. ASSUME UNCHANGED tableVars, kpc # "sendUnblock", kpc' # "sendUnblock"
      PROVE  FieldsOK'
  BY <1>0
<1>3. CASE SendDeadlock \/ SendCheck \/ SendReady
  <2>1. UNCHANGED tableVars /\ kpc # "sendUnblock" /\ kpc' # "sendUnblock"
    BY <1>3 DEF SendDeadlock, SendCheck, SendReady
  <2> QED  BY <1>0, <2>1
<1>5. CASE SendBlock
  BY <1>5 DEF SendBlock
<1>6. CASE SendCopy
  BY <1>6 DEF SendCopy
<1>7. CASE SendClear
  BY <1>7 DEF SendClear
<1>8. CASE SendUnblock
  BY <1>8 DEF SendUnblock
<1>9. CASE RecvTest \/ RecvIntCheck \/ RecvNone \/ RecvCheck \/ RecvInt
  <2>1. CASE RecvInt
    BY <2>1 DEF RecvInt
  <2>2. CASE RecvTest \/ RecvIntCheck \/ RecvNone \/ RecvCheck
    <3>1. UNCHANGED <<p_flags, p_sendto, p_recvfrom, p_msg>>
          /\ kpc # "sendUnblock" /\ kpc' # "sendUnblock"
      BY <2>2 DEF RecvTest, RecvIntCheck, RecvNone, RecvCheck
    <3> QED  BY <3>1
  <2> QED  BY <1>9, <2>1, <2>2
<1>10. CASE RecvFetch
  <2>1. cur \in Procs
    BY <1>10 DEF RecvFetch
  <2>2. PICK from \in Candidates :
           IF FetchAsserts(from) THEN Fetch(from)
           ELSE Continue("assertFetch") /\ UNCHANGED <<tableVars, buf>>
    BY <1>10 DEF RecvFetch
  <2>3. from \in Procs /\ p_sendto[from] = cur
    BY <2>1, CandidatesInQueue
  <2>4. CASE Fetch(from)
    <3>1. p_flags[from] = {SENDING} /\ p_recvfrom[from] = NO_TASK
      BY <2>1, <2>3
    <3>2. /\ p_flags' = [p_flags EXCEPT ![from] = {}]
          /\ p_sendto' = [p_sendto EXCEPT ![from] = NO_TASK]
          /\ p_msg' = [p_msg EXCEPT ![from] = FALSE]
          /\ p_recvfrom' = p_recvfrom
          /\ kpc # "sendUnblock" /\ kpc' # "sendUnblock"
      BY <1>10, <2>4, <3>1 DEF Fetch, RecvFetch
    <3> QED BY <2>3, <3>1, <3>2
  <2>5. CASE Continue("assertFetch") /\ UNCHANGED <<tableVars, buf>>
    BY <1>10, <2>5 DEF RecvFetch
  <2> QED BY <2>2, <2>4, <2>5
<1>11. CASE RecvBlock
  BY <1>11 DEF RecvBlock
<1>12. ASSUME NEW t \in IntTasks, InformWaiting(t)
       PROVE  FieldsOK'
  <2>1. t \in Procs /\ p_flags[t] = {RECEIVING} /\ p_sendto[t] = NO_TASK
    <3>1. t \in Procs /\ RECEIVING \in p_flags[t]
      BY <1>12 DEF InformWaiting, WaitingForInt
    <3> QED BY <1>a, <3>1, Zenon
  <2>2. /\ p_flags' = [p_flags EXCEPT ![t] = {}]
        /\ p_recvfrom' = [p_recvfrom EXCEPT ![t] = NO_TASK]
        /\ p_msg' = [p_msg EXCEPT ![t] = FALSE]
        /\ UNCHANGED <<p_sendto, peer>>
    BY <1>12, <2>1 DEF InformWaiting
  <2>3. kpc' = kpc
    BY <1>12, <2>1, <2>2 DEF InformWaiting
  <2> QED BY <2>1, <2>2, <2>3
<1>13. ASSUME NEW t \in IntTasks, InformBusy(t)
       PROVE  FieldsOK'
  BY <1>13 DEF InformBusy
<1>14. CASE Halted \/ UNCHANGED vars
  BY <1>14 DEF Halted, vars
<1> QED
  BY <1>1, <1>2, <1>3, <1>5, <1>6, <1>7, <1>8, <1>9, <1>10, <1>11,
     <1>12, <1>13, <1>14 DEF Next, Calls, Send, Receive, InformInt

\* The assertions on the path through the queue hold.
LEMMA FetchAssertsHold ==
    ASSUME IInv, kpc = "recvFetch", NEW from \in Candidates
    PROVE  FetchAsserts(from)
<1>1. cur \in Procs /\ AtRest(cur)
  BY DEF IInv, CallOK, RecvPcs
<1>2. /\ from \in Procs /\ p_sendto[from] = cur
      /\ \E i \in DOMAIN q_sending[cur] : q_sending[cur][i] = from
  BY <1>1, CandidatesInQueue DEF IInv
<1>3. p_flags[from] = {SENDING}
  BY <1>1, <1>2, IpcAssumption DEF IInv, FieldsOK
<1>4. p_msg[from] /\ p_recvfrom[from] = NO_TASK
  BY <1>2, <1>3, IpcAssumption DEF IInv, FieldsOK
<1> QED BY <1>1, <1>2, <1>3, <1>4 DEF FetchAsserts

LEMMA SafeStep ==
    ASSUME IInv, [Next]_vars
    PROVE  QueuePathSafe'
<1> USE DEF QueuePathSafe, Continue, Return
<1>1. QueuePathSafe
  BY DEF IInv
<1>2. CASE Calls
  BY <1>2 DEF Calls, CallSend, CallReceive, Enter
<1>3. CASE Send
  BY <1>3 DEF Send, SendDeadlock, SendReady, SendBlock, SendCheck, SendCopy,
              SendClear, SendUnblock
<1>4. CASE RecvTest \/ RecvInt \/ RecvIntCheck \/ RecvNone \/ RecvBlock \/ RecvCheck
  BY <1>4 DEF RecvTest, RecvInt, RecvIntCheck, RecvNone, RecvBlock, RecvCheck
<1>5. CASE RecvFetch
  <2>1. PICK from \in Candidates : Fetch(from)
    BY <1>5, FetchAssertsHold DEF RecvFetch
  <2>2. p_flags[from] = {SENDING} /\ from \in Procs
    BY <1>5, FetchAssertsHold, CandidatesInQueue
       DEF RecvFetch, FetchAsserts, IInv, CallOK, RecvPcs
  <2>3. p_flags'[from] = {}
    BY <2>1, <2>2 DEF Fetch, IInv, TypeOK
  <2> QED BY <2>1, <2>3 DEF Fetch
<1>6. ASSUME NEW t \in IntTasks, InformWaiting(t)
      PROVE  QueuePathSafe'
  <2>1. t \in Procs /\ RECEIVING \in p_flags[t]
    BY <1>6, IpcAssumption DEF InformWaiting, WaitingForInt
  <2>2. p_flags[t] = {RECEIVING}
    BY <2>1, IpcAssumption DEF IInv, FieldsOK
  <2>3. p_sendto[t] = NO_TASK
    BY <2>1, <2>2, IpcAssumption DEF IInv, FieldsOK
  <2>4. AtRest(t)'
    BY <1>6, <2>1, <2>2, <2>3 DEF InformWaiting, AtRest, IInv, TypeOK
  <2> QED BY <1>1, <1>6, <2>4 DEF InformWaiting
<1>7. ASSUME NEW t \in IntTasks, InformBusy(t)
      PROVE  QueuePathSafe'
  BY <1>1, <1>7 DEF InformBusy
<1>8. CASE Halted \/ UNCHANGED vars
  BY <1>1, <1>8 DEF Halted, vars
<1> QED
  BY <1>2, <1>3, <1>4, <1>5, <1>6, <1>7, <1>8 DEF Next, Receive, InformInt

----------------------------------------------------------------------------
(* The sending queues. *)

\* A step that leaves the queues and p_sendto alone.
LEMMA QueueUnchanged ==
    ASSUME QueueOK, UNCHANGED <<q_sending, p_sendto>>
    PROVE  QueueOK'
BY DEF QueueOK

LEMMA QueueAppend ==
    ASSUME IInv, SendBlock
    PROVE  QueueOK'
<1> DEFINE q == q_sending[peer]
<1>1. /\ cur \in Procs /\ peer \in Procs /\ p_sendto[cur] = NO_TASK
      /\ q \in Seq(Procs)
  BY DEF IInv, SendBlock, CallOK, SendPcs, AtRest, TypeOK
<1>2. /\ q_sending' = [q_sending EXCEPT ![peer] = Append(q, cur)]
      /\ p_sendto' = [p_sendto EXCEPT ![cur] = peer]
  BY DEF SendBlock
<1>3. q_sending'[peer] = Append(q, cur) /\ p_sendto'[cur] = peer
  BY <1>1, <1>2 DEF IInv, TypeOK
<1>4. /\ DOMAIN Append(q, cur) = 1 .. (Len(q) + 1)
      /\ \A i \in 1 .. Len(q) : Append(q, cur)[i] = q[i]
      /\ Append(q, cur)[Len(q) + 1] = cur
      /\ DOMAIN q = 1 .. Len(q) /\ Len(q) \in Nat
  BY <1>1, AppendProperties, LenProperties
<1>5. \A i \in DOMAIN q : q[i] # cur
  BY <1>1, IpcAssumption DEF IInv, QueueOK
<1> HIDE DEF q
<1>6. ASSUME NEW d \in Procs, d # peer, NEW p \in Procs
      PROVE  p_sendto'[p] = d <=> p_sendto[p] = d
  BY <1>1, <1>2, <1>6, IpcAssumption DEF IInv, TypeOK
<1>7. ASSUME NEW d \in Procs, d # peer
      PROVE  q_sending'[d] = q_sending[d]
  BY <1>1, <1>2, <1>7 DEF IInv, TypeOK
<1>8. ASSUME NEW p \in Procs
      PROVE  p_sendto'[p] = peer
               <=> \E i \in DOMAIN q_sending'[peer] : q_sending'[peer][i] = p
  <2>1. CASE p = cur
    BY <1>3, <1>4, <2>1
  <2>2. CASE p # cur
    <3>1. p_sendto'[p] = p_sendto[p]
      BY <1>2, <2>2 DEF IInv, TypeOK
    <3>2. p_sendto[p] = peer <=> \E i \in DOMAIN q : q[i] = p
      BY <1>1 DEF IInv, QueueOK, q
    <3>3. (\E i \in DOMAIN q : q[i] = p)
            <=> \E i \in 1 .. (Len(q) + 1) : Append(q, cur)[i] = p
      BY <1>4, <2>2
    <3> QED BY <1>3, <1>4, <3>1, <3>2, <3>3
  <2> QED BY <2>1, <2>2
<1>9. ASSUME NEW i \in DOMAIN q_sending'[peer], NEW j \in DOMAIN q_sending'[peer],
             q_sending'[peer][i] = q_sending'[peer][j]
      PROVE  i = j
  <2>1. i \in 1 .. (Len(q) + 1) /\ j \in 1 .. (Len(q) + 1)
    BY <1>3, <1>4
  <2>2. CASE i \in DOMAIN q /\ j \in DOMAIN q
    <3>1. q[i] = q[j]
      BY <1>3, <1>4, <1>9, <2>2
    <3> QED BY <1>1, <2>2, <3>1 DEF IInv, QueueOK, q
  <2>3. CASE ~(i \in DOMAIN q /\ j \in DOMAIN q)
    BY <1>3, <1>4, <1>5, <1>9, <2>1, <2>3
  <2> QED BY <2>2, <2>3
<1>10. ASSUME NEW d \in Procs
       PROVE  /\ \A p \in Procs : p_sendto'[p] = d
                   <=> \E i \in DOMAIN q_sending'[d] : q_sending'[d][i] = p
              /\ \A i, j \in DOMAIN q_sending'[d] :
                   q_sending'[d][i] = q_sending'[d][j] => i = j
  <2>1. CASE d = peer
    BY <1>8, <1>9, <2>1
  <2>2. CASE d # peer
    BY <1>6, <1>7, <2>2 DEF IInv, QueueOK
  <2> QED BY <2>1, <2>2
<1> QED BY <1>10 DEF QueueOK

LEMMA QueueUnlink ==
    ASSUME IInv, kpc = "recvFetch", NEW from \in Candidates, Fetch(from)
    PROVE  QueueOK'
<1> DEFINE q == q_sending[cur]
           r == Unlink(q, from)
<1>1. /\ cur \in Procs /\ q \in Seq(Procs)
      /\ from \in Procs /\ p_sendto[from] = cur
      /\ \E i \in DOMAIN q : q[i] = from
  BY CandidatesInQueue DEF IInv, CallOK, RecvPcs, TypeOK
<1>2. /\ q_sending' = [q_sending EXCEPT ![cur] = r]
      /\ p_sendto' = [p_sendto EXCEPT ![from] = NO_TASK]
  BY DEF Fetch
<1>3. q_sending'[cur] = r /\ p_sendto'[from] = NO_TASK
  BY <1>1, <1>2 DEF IInv, TypeOK
<1>4. /\ DOMAIN q = 1 .. Len(q) /\ Len(q) \in Nat
      /\ \A i, j \in DOMAIN q : q[i] = q[j] => i = j
      /\ \A p \in Procs : p_sendto[p] = cur <=> \E i \in DOMAIN q : q[i] = p
  BY <1>1, LenProperties DEF IInv, QueueOK
<1>5. PICK k \in DOMAIN q :
         /\ q[k] = from
         /\ DOMAIN r = 1 .. (Len(q) - 1)
         /\ \A j \in 1 .. (Len(q) - 1) : r[j] = IF j < k THEN q[j] ELSE q[j + 1]
  <2> HIDE DEF q
  <2> QED BY <1>1, UnlinkProperties
<1> HIDE DEF q, r
<1>6. ASSUME NEW d \in Procs, d # cur
      PROVE  /\ q_sending'[d] = q_sending[d]
             /\ \A p \in Procs : p_sendto'[p] = d <=> p_sendto[p] = d
  BY <1>1, <1>2, <1>6, IpcAssumption DEF IInv, TypeOK
<1>7. ASSUME NEW i \in DOMAIN r, NEW j \in DOMAIN r, r[i] = r[j]
      PROVE  i = j
  <2> DEFINE a == IF i < k THEN i ELSE i + 1
             b == IF j < k THEN j ELSE j + 1
  <2>1. a \in DOMAIN q /\ b \in DOMAIN q /\ r[i] = q[a] /\ r[j] = q[b]
    BY <1>4, <1>5
  <2>2. a = b
    <3> HIDE DEF a, b
    <3> QED BY <1>4, <1>7, <2>1
  <2> QED BY <1>4, <1>5, <2>2
<1>8. ASSUME NEW p \in Procs
      PROVE  p_sendto'[p] = cur <=> \E i \in DOMAIN r : r[i] = p
  <2>1. CASE p = from
    <3>1. p_sendto'[p] # cur
      BY <1>1, <1>3, <2>1, IpcAssumption
    <3>2. ASSUME NEW i \in DOMAIN r, r[i] = from
          PROVE  FALSE
      <4>1. (IF i < k THEN i ELSE i + 1) \in DOMAIN q
        BY <1>4, <1>5
      <4>2. q[IF i < k THEN i ELSE i + 1] = q[k]
        BY <1>5, <3>2
      <4>3. (IF i < k THEN i ELSE i + 1) = k
        BY <1>4, <4>1, <4>2
      <4> QED BY <1>4, <1>5, <4>3
    <3> QED BY <2>1, <3>1, <3>2
  <2>2. CASE p # from
    <3>1. p_sendto'[p] = p_sendto[p]
      BY <1>2, <2>2 DEF IInv, TypeOK
    <3>2. ASSUME NEW i \in DOMAIN r, r[i] = p
          PROVE  \E n \in DOMAIN q : q[n] = p
      BY <1>4, <1>5, <3>2
    <3>3. ASSUME NEW n \in DOMAIN q, q[n] = p
          PROVE  \E i \in DOMAIN r : r[i] = p
      <4>1. n # k
        BY <1>5, <2>2, <3>3
      <4>2. CASE n < k
        BY <1>4, <1>5, <3>3, <4>2
      <4>3. CASE n > k
        <5>1. n - 1 \in DOMAIN r /\ ~(n - 1 < k) /\ (n - 1) + 1 = n
          BY <1>4, <1>5, <4>3
        <5>2. r[n - 1] = q[n]
          BY <1>5, <5>1
        <5> QED BY <3>3, <5>1, <5>2
      <4> QED BY <1>4, <4>1, <4>2, <4>3
    <3> QED BY <1>4, <3>1, <3>2, <3>3
  <2> QED BY <2>1, <2>2
<1>9. ASSUME NEW d \in Procs
      PROVE  /\ \A p \in Procs : p_sendto'[p] = d
                  <=> \E i \in DOMAIN q_sending'[d] : q_sending'[d][i] = p
             /\ \A i, j \in DOMAIN q_sending'[d] :
                  q_sending'[d][i] = q_sending'[d][j] => i = j
  <2>1. CASE d = cur
    BY <1>3, <1>7, <1>8, <2>1
  <2>2. CASE d # cur
    BY <1>6, <2>2 DEF IInv, QueueOK
  <2> QED BY <2>1, <2>2
<1> QED BY <1>9 DEF QueueOK

LEMMA QueueStep ==
    ASSUME IInv, [Next]_vars
    PROVE  QueueOK'
<1>1. QueueOK
  BY DEF IInv
<1>2. CASE SendBlock
  BY <1>2, QueueAppend
<1>3. CASE RecvFetch
  <2>1. PICK from \in Candidates : Fetch(from)
    BY <1>3, FetchAssertsHold DEF RecvFetch
  <2> QED BY <1>3, <2>1, QueueUnlink DEF RecvFetch
<1>4. CASE ~SendBlock /\ ~RecvFetch
  <2>1. UNCHANGED <<q_sending, p_sendto>>
    BY <1>4 DEF Next, vars, tableVars, Calls, CallSend, CallReceive, Enter, Send,
       SendDeadlock, SendReady, SendCheck, SendCopy, SendClear, SendUnblock,
       Receive, RecvTest, RecvInt, RecvIntCheck, RecvNone, RecvBlock,
       RecvCheck, InformInt, InformWaiting, InformBusy, Halted
  <2> QED BY <1>1, <2>1, QueueUnchanged
<1> QED BY <1>2, <1>3, <1>4

----------------------------------------------------------------------------
(* No cycle of senders. *)

\* The processes of Chain(dest) are closed under p_sendto.
LEMMA ChainClosed ==
    ASSUME NEW dest \in Procs, NEW p \in Chain(dest),
           IsSending(p), p_sendto[p] \in Procs
    PROVE  p_sendto[p] \in Chain(dest)
BY DEF Chain, ClosedUnderSending

\* A sender that passes the deadlock check closes no cycle: a cycle through it
\* would hold, without it, the part of dest's chain that lies on the cycle.
LEMMA BlockKeepsAcyclic ==
    ASSUME IInv, SendBlock
    PROVE  NoSendCycle'
<1>1. /\ cur \in Procs /\ peer \in Procs /\ peer # cur
      /\ ~Deadlock(cur, peer)
  BY DEF IInv, SendBlock, CallOK, SendPcs
<1>2. ASSUME NEW p \in Procs, p # cur
      PROVE  (IsSending(p)' <=> IsSending(p)) /\ p_sendto'[p] = p_sendto[p]
  BY <1>1, <1>2 DEF SendBlock, IsSending, IInv, TypeOK
<1> SUFFICES ASSUME NEW C \in (SUBSET Procs) \ {{}},
                    \A p \in C : IsSending(p)' /\ p_sendto'[p] \in C
             PROVE  FALSE
  BY DEF NoSendCycle, IsSending
<1>3. CASE cur \notin C
  <2>1. \A p \in C : IsSending(p) /\ p_sendto[p] \in C
    BY <1>2, <1>3
  <2> QED BY <2>1 DEF IInv, NoSendCycle
<1>4. CASE cur \in C
  <2> DEFINE E == Chain(peer) \cap (C \ {cur})
  <2>1. p_sendto'[cur] = peer
    BY <1>1 DEF SendBlock, IInv, TypeOK
  <2>2. peer \in E
    BY <1>1, <1>4, <2>1 DEF Chain
  <2>3. ASSUME NEW p \in E
        PROVE  IsSending(p) /\ p_sendto[p] \in E
    <3>1. IsSending(p) /\ p_sendto[p] \in C
      BY <1>2, <2>3
    <3>2. p_sendto[p] # cur
      BY <1>1, <2>3, <3>1 DEF Deadlock
    <3>3. p_sendto[p] \in Chain(peer)
      BY <1>1, <2>3, <3>1, ChainClosed
    <3> QED BY <3>1, <3>2, <3>3
  <2>4. E \in (SUBSET Procs) \ {{}}
    BY <2>2
  <2> QED BY <2>3, <2>4 DEF IInv, NoSendCycle
<1> QED BY <1>3, <1>4

LEMMA CycleStep ==
    ASSUME IInv, [Next]_vars
    PROVE  NoSendCycle'
<1>1. CASE SendBlock
  BY <1>1, BlockKeepsAcyclic
<1>2. CASE ~SendBlock
  <2>1. FieldsOK /\ FieldsOK'
    BY FieldsStep DEF IInv
  <2>2. \A p \in Procs : p_sendto'[p] \in {p_sendto[p], NO_TASK}
    <3>1. CASE RecvFetch
      <4>1. PICK from \in Candidates : Fetch(from)
        BY <3>1, FetchAssertsHold DEF RecvFetch
      <4> QED BY <4>1 DEF Fetch, IInv, TypeOK
    <3>2. CASE ~RecvFetch
      <4>1. UNCHANGED p_sendto
        BY <1>2, <3>2 DEF Next, vars, tableVars, Calls, CallSend, CallReceive,
           Enter, Send, SendDeadlock, SendReady, SendCheck, SendCopy, SendClear,
           SendUnblock, Receive, RecvTest, RecvInt, RecvIntCheck, RecvNone,
           RecvBlock, RecvCheck, InformInt, InformWaiting, InformBusy, Halted
      <4> QED BY <4>1
    <3> QED BY <3>1, <3>2
  <2>3. ASSUME NEW p \in Procs, IsSending(p)'
        PROVE  IsSending(p) /\ p_sendto'[p] = p_sendto[p]
    BY <2>1, <2>2, <2>3 DEF FieldsOK, IsSending
  <2> SUFFICES ASSUME NEW C \in (SUBSET Procs) \ {{}},
                      \A p \in C : IsSending(p)' /\ p_sendto'[p] \in C
               PROVE  FALSE
    BY DEF NoSendCycle, IsSending
  <2>4. \A p \in C : IsSending(p) /\ p_sendto[p] \in C
    BY <2>3
  <2> QED BY <2>4 DEF IInv, NoSendCycle
<1> QED BY <1>1, <1>2

----------------------------------------------------------------------------
(* Nobody waits for what is already there. *)

\* A receiver about to block has found no sender it could take a message
\* from, and no interrupt can bring one.
NoneFits ==
    kpc = "recvBlock" =>
        \A s \in Procs : p_sendto[s] = cur => peer \notin {s, ANY}

\* Without a candidate nobody who fits is sending to the caller.
LEMMA NoCandidate ==
    ASSUME IInv, cur \in Procs, Candidates = {},
           NEW s \in Procs, p_sendto[s] = cur
    PROVE  peer \notin {s, ANY}
<1>1. SENDING \in p_flags[s]
  BY IpcAssumption DEF IInv, FieldsOK
<1>2. peer # s
  BY <1>1, IpcAssumption DEF Candidates, IsSending
<1>3. CASE peer = ANY
  <2>1. q_sending[cur] \in Seq(Procs)
    BY DEF IInv, TypeOK
  <2>2. PICK i \in DOMAIN q_sending[cur] : q_sending[cur][i] = s
    BY DEF IInv, QueueOK
  <2>3. 1 \in DOMAIN q_sending[cur]
    BY <2>1, <2>2, LenProperties
  <2>4. q_sending[cur][1] \in Candidates
    BY <1>3, <2>3 DEF Candidates
  <2> QED  BY <2>4
<1> QED  BY <1>2, <1>3

LEMMA NoneFitsStep ==
    ASSUME IInv, NoneFits, [Next]_vars
    PROVE  NoneFits'
<1> USE DEF NoneFits, Continue, Return, tableVars
<1>1. CASE RecvNone
  <2>1. cur \in Procs
    BY <1>1 DEF RecvNone, IInv, CallOK, RecvPcs
  <2> QED  BY <1>1, <2>1, NoCandidate DEF RecvNone
<1>2. CASE Calls
  BY <1>2 DEF Calls, CallSend, CallReceive, Enter
<1>3. CASE Send
  BY <1>3 DEF Send, SendDeadlock, SendReady, SendBlock, SendCheck, SendCopy,
              SendClear, SendUnblock
<1>4. CASE RecvTest \/ RecvInt \/ RecvIntCheck \/ RecvFetch \/ RecvBlock
           \/ RecvCheck
  BY <1>4 DEF RecvTest, RecvInt, RecvIntCheck, RecvFetch, Fetch, RecvBlock,
              RecvCheck
<1>5. ASSUME NEW t \in IntTasks, InformWaiting(t) \/ InformBusy(t)
      PROVE  NoneFits'
  BY <1>5 DEF InformWaiting, InformBusy
<1>6. CASE Halted \/ UNCHANGED vars
  BY <1>6 DEF Halted, vars
<1> QED
  BY <1>1, <1>2, <1>3, <1>4, <1>5, <1>6 DEF Next, Receive, InformInt

\* What p, blocked receiving, does not wait for.
Served(p) ==
    /\ \A s \in Procs : p_sendto[s] = p => p_recvfrom[p] \notin {s, ANY}
    /\ has_int_msg[p] => \/ p_recvfrom[p] \notin {INTERRUPT, ANY}
                         \/ kpc \in {"recvCheck", "assertBlock"} /\ p = cur

LEMMA MissedStep ==
    ASSUME IInv, NoneFits, NoMissedWakeup, [Next]_vars
    PROVE  NoMissedWakeup'
<1> SUFFICES ASSUME NEW p \in Procs, RECEIVING \in p_flags'[p]
             PROVE  Served(p)'
  BY DEF NoMissedWakeup, Served
<1>0. RECEIVING \in p_flags[p] => Served(p)
  BY DEF NoMissedWakeup, Served
<1> USE IpcAssumption DEF Continue, Return, tableVars
<1>1. CASE Calls
  <2>1. UNCHANGED tableVars /\ kpc = "user"
    BY <1>1 DEF Calls, CallSend, CallReceive, Enter
  <2> QED  BY <2>1, <1>0 DEF Served
<1>2. CASE SendDeadlock \/ SendReady \/ SendCheck \/ SendCopy \/ SendClear
  <2>1. /\ UNCHANGED <<p_flags, p_recvfrom, p_sendto, has_int_msg>>
        /\ kpc \notin {"recvCheck", "assertBlock"}
    BY <1>2 DEF SendDeadlock, SendReady, SendCheck, SendCopy, SendClear
  <2> QED  BY <2>1, <1>0 DEF Served
<1>3. CASE SendBlock
  <2>1. cur \in Procs /\ peer \in Procs /\ p_flags[cur] = {}
    BY <1>3 DEF SendBlock, IInv, CallOK, SendPcs, AtRest
  <2>2. /\ p # cur /\ RECEIVING \in p_flags[p]
        /\ UNCHANGED <<p_recvfrom, has_int_msg>>
    BY <1>3, <2>1 DEF SendBlock, IInv, TypeOK
  <2>3. kpc = "send" /\ p_sendto' = [p_sendto EXCEPT ![cur] = peer]
    BY <1>3 DEF SendBlock
  <2>4. p = peer => p_recvfrom[p] \notin {cur, ANY}
    BY <1>3, <2>2 DEF SendBlock, WaitingFor
  <2>5. ASSUME NEW s \in Procs, p_sendto'[s] = p
        PROVE  p_recvfrom[p] \notin {s, ANY}
    <3>1. CASE s = cur
      BY <2>1, <2>3, <2>4, <2>5, <3>1 DEF IInv, TypeOK
    <3>2. CASE s # cur
      BY <2>2, <2>3, <2>5, <3>2, <1>0 DEF IInv, TypeOK, Served
    <3> QED  BY <3>1, <3>2
  <2> QED  BY <2>2, <2>3, <2>5, <1>0 DEF Served
<1>4. CASE SendUnblock
  <2>1. peer \in Procs /\ kpc = "sendUnblock"
    BY <1>4 DEF SendUnblock, IInv, CallOK, SendPcs
  <2>2. p # peer /\ RECEIVING \in p_flags[p] /\ p_recvfrom'[p] = p_recvfrom[p]
    BY <1>4, <2>1 DEF SendUnblock, IInv, TypeOK
  <2> QED  BY <1>4, <2>1, <2>2, <1>0 DEF SendUnblock, Served
<1>5. CASE RecvTest \/ RecvInt \/ RecvIntCheck \/ RecvNone
  <2>1. /\ UNCHANGED <<p_flags, p_recvfrom, p_sendto>>
        /\ kpc \notin {"recvCheck", "assertBlock"}
    BY <1>5 DEF RecvTest, RecvInt, RecvIntCheck, RecvNone
  <2>2. has_int_msg'[p] => has_int_msg[p]
    BY <1>5 DEF RecvTest, RecvInt, RecvIntCheck, RecvNone, IInv, TypeOK
  <2> QED  BY <2>1, <2>2, <1>0 DEF Served
<1>6. CASE RecvFetch
  <2>1. PICK from \in Candidates : Fetch(from)
    BY <1>6, FetchAssertsHold DEF RecvFetch
  <2>2. RECEIVING \in p_flags[p]
    BY <2>1 DEF Fetch, IInv, TypeOK
  <2>3. \A s \in Procs : p_sendto'[s] = p => p_sendto[s] = p
    BY <2>1 DEF Fetch, IInv, TypeOK
  <2> QED  BY <1>6, <2>1, <2>2, <2>3, <1>0 DEF RecvFetch, Fetch, Served
<1>7. CASE RecvBlock
  <2>1. cur \in Procs /\ kpc = "recvBlock" /\ kpc' = "recvCheck" /\ cur' = cur
    BY <1>7 DEF RecvBlock, IInv, CallOK, RecvPcs
  <2>2. UNCHANGED <<p_sendto, has_int_msg>>
    BY <1>7 DEF RecvBlock
  <2>3. CASE p = cur
    <3>1. p_recvfrom'[p] = peer
      BY <1>7, <2>3 DEF RecvBlock, IInv, TypeOK
    <3> QED  BY <2>1, <2>2, <2>3, <3>1 DEF NoneFits, Served
  <2>4. CASE p # cur
    <3>1. RECEIVING \in p_flags[p] /\ p_recvfrom'[p] = p_recvfrom[p]
      BY <1>7, <2>1, <2>4 DEF RecvBlock, IInv, TypeOK
    <3> QED  BY <2>1, <2>2, <3>1, <1>0 DEF Served
  <2> QED  BY <2>3, <2>4
<1>8. CASE RecvCheck
  BY <1>8, <1>0 DEF RecvCheck, Served
<1>9. ASSUME NEW t \in IntTasks, InformWaiting(t)
      PROVE  Served(p)'
  <2>1. /\ p # t /\ RECEIVING \in p_flags[p]
        /\ p_recvfrom'[p] = p_recvfrom[p] /\ has_int_msg'[p] = has_int_msg[p]
    BY <1>9 DEF InformWaiting, IInv, TypeOK
  <2>2. UNCHANGED <<p_sendto, cur>>
    BY <1>9 DEF InformWaiting
  <2>3. kpc' = kpc
    <3>1. kpc' # "assertInform"
      BY SafeStep, <1>9 DEF QueuePathSafe, Next, InformInt
    <3> QED  BY <1>9, <3>1 DEF InformWaiting
  <2> QED  BY <2>1, <2>2, <2>3, <1>0 DEF Served
<1>10. ASSUME NEW t \in IntTasks, InformBusy(t)
       PROVE  Served(p)'
  <2>1. UNCHANGED <<p_flags, p_recvfrom, p_sendto, kpc, cur>>
    BY <1>10 DEF InformBusy
  <2>2. CASE p = t
    BY <1>10, <2>1, <2>2, <1>0 DEF InformBusy, WaitingForInt, Served
  <2>3. CASE p # t
    <3>1. has_int_msg'[p] = has_int_msg[p]
      BY <1>10, <2>3 DEF InformBusy, IInv, TypeOK
    <3> QED  BY <2>1, <3>1, <1>0 DEF Served
  <2> QED  BY <2>2, <2>3
<1>11. CASE Halted \/ UNCHANGED vars
  BY <1>11, <1>0 DEF Halted, vars, Served
<1> QED
  BY <1>1, <1>2, <1>3, <1>4, <1>5, <1>6, <1>7, <1>8, <1>9, <1>10, <1>11
     DEF Next, Send, Receive, InformInt

----------------------------------------------------------------------------
(* The theorems. *)

LEMMA InitInv == Init => IInv
<1> SUFFICES ASSUME Init PROVE IInv
  OBVIOUS
<1> USE IpcAssumption DEF Init
<1>1. TypeOK
  BY DEF TypeOK, Message, KernelPcs
<1>2. FieldsOK /\ QueueOK
  BY DEF FieldsOK, QueueOK
<1>3. NoSendCycle
  <2>1. \A p \in Procs : ~IsSending(p)
    BY DEF IsSending
  <2>2. ASSUME NEW C \in (SUBSET Procs) \ {{}}
        PROVE  \E p \in C : ~(IsSending(p) /\ p_sendto[p] \in C)
    <3>1. C # {} /\ C \subseteq Procs
      BY <2>2
    <3>2. PICK p : p \in C
      BY <3>1
    <3> QED BY <2>1, <3>1, <3>2
  <2> QED BY <2>2 DEF NoSendCycle
<1>4. CallOK /\ QueuePathSafe
  BY DEF CallOK, QueuePathSafe, SendPcs, HandOverPcs, RecvPcs
<1> QED BY <1>1, <1>2, <1>3, <1>4 DEF IInv

\* The inductive invariant holds in every reachable state.
THEOREM Invariance == Spec => []IInv
<1>1. IInv /\ [Next]_vars => IInv'
  BY TypeStep, CallStep, FieldsStep, SafeStep, QueueStep, CycleStep DEF IInv
<1> QED BY <1>1, InitInv, PTL DEF Spec

\* sys_sendrec and inform_int keep every variable within its type.
THEOREM TypeCorrect == Spec => []TypeOK
<1>1. IInv => TypeOK
  BY DEF IInv
<1> QED BY <1>1, Invariance, PTL

\* p_flags, p_msg, p_recvfrom and p_sendto of a process always agree.
THEOREM FieldsConsistent == Spec => []FieldsOK
<1>1. IInv => FieldsOK
  BY DEF IInv
<1> QED BY <1>1, Invariance, PTL

\* A sending queue holds exactly the processes blocked sending, each once.
THEOREM QueueConsistent == Spec => []QueueOK
<1>1. IInv => QueueOK
  BY DEF IInv
<1> QED BY <1>1, Invariance, PTL

\* Whatever the processes call, no set of them waits to send in a circle:
\* the check deadlock() makes before it blocks a sender is enough.
THEOREM SendersAcyclic == Spec => []NoSendCycle
<1>1. IInv => NoSendCycle
  BY DEF IInv
<1> QED BY <1>1, Invariance, PTL

\* The assertions of msg_receive's queue path and of inform_int always hold.
THEOREM QueuePathAsserts == Spec => []QueuePathSafe
<1>1. IInv => QueuePathSafe
  BY DEF IInv
<1> QED BY <1>1, Invariance, PTL

\* A process is never left blocked in a receive while a sender it would take
\* a message from is in its queue, or while an interrupt it waits for is
\* pending: msg_receive and msg_send look at each other's state, and an
\* inform_int anywhere in between changes nothing.
THEOREM NothingMissed == Spec => []NoMissedWakeup
<1>1. Init => NoneFits /\ NoMissedWakeup
  BY DEF Init, NoneFits, NoMissedWakeup
<1>2. IInv /\ NoneFits /\ NoMissedWakeup /\ [Next]_vars
         => (NoneFits /\ NoMissedWakeup)'
  BY NoneFitsStep, MissedStep
<1> QED  BY Invariance, <1>1, <1>2, PTL DEF Spec

(***************************************************************************)
(* What an interrupt inside a system call can disturb, and nothing more:   *)
(* every step of the kernel is a step of Rendezvous, a collision, or       *)
(* leaves the abstract state alone.                                        *)
(***************************************************************************)

\* p waits for the message of the call in progress.
Expects(p) == RECEIVING \in p_flags[p] /\ p_recvfrom[p] \in {cur, ANY}

\* What a call in progress can rely on: the message is the caller's; the
\* receiver of a hand-over keeps waiting for it unless an interrupt has woken
\* it; what msg_receive saw of has_int_msg stays true unless an interrupt has
\* come.
Undisturbed ==
    /\ kpc = "user" => cur = NO_TASK
    /\ \A p \in Procs : has_int_msg[p] => p \in IntTasks
    /\ kpc \in SendPcs => buf[cur].source = cur
    /\ kpc \in {"sendCheck", "sendCopy"} =>
          Expects(peer) \/ (NestedInts /\ Woken(peer))
    /\ kpc = "sendClear" =>
          \/ Expects(peer) /\ buf[peer].source = cur
          \/ NestedInts /\ peer \in IntTasks /\ AtRest(peer)
    /\ kpc = "sendUnblock" =>
          Expects(peer) \/ (NestedInts /\ peer \in IntTasks /\ AtRest(peer))
    /\ kpc = "recv" /\ peer \in Procs => ~has_int_msg[cur]
    /\ kpc = "recvInt" => peer \in {ANY, INTERRUPT} /\ has_int_msg[cur]
    /\ kpc \in {"recvIntCheck", "recvFetch", "recvBlock", "recvCheck"}
          /\ has_int_msg[cur] => NestedInts
    /\ kpc = "recvCheck" =>
          p_flags[cur] = {RECEIVING} \/ (NestedInts /\ Woken(cur))

Inv == IInv /\ NoneFits /\ NoMissedWakeup /\ Undisturbed
       /\ OnlyInterruptsFailAsserts

----------------------------------------------------------------------------
(* Which assertions fail. *)

\* The hand-over's receiver: all its fields are those of a blocked receiver,
\* or an interrupt has woken it.
LEMMA Receiver ==
    ASSUME IInv, Undisturbed, kpc \in HandOverPcs
    PROVE  /\ cur \in Procs /\ peer \in Procs /\ peer # cur /\ AtRest(cur)
           /\ \/ /\ p_flags[peer] = {RECEIVING} /\ p_sendto[peer] = NO_TASK
                 /\ p_recvfrom[peer] \in {cur, ANY}
                 /\ p_msg[peer] <=> kpc # "sendUnblock"
              \/ NestedInts /\ peer \in IntTasks /\ AtRest(peer)
<1>1. cur \in Procs /\ peer \in Procs /\ peer # cur /\ AtRest(cur)
  BY DEF IInv, CallOK, SendPcs, HandOverPcs
<1>2. CASE Expects(peer)
  <2>1. p_flags[peer] = {RECEIVING} /\ p_recvfrom[peer] \in {cur, ANY}
    BY <1>1, <1>2, IpcAssumption DEF IInv, FieldsOK, Expects
  <2>2. p_sendto[peer] = NO_TASK
    BY <1>1, <2>1, IpcAssumption DEF IInv, FieldsOK
  <2>3. p_msg[peer] <=> kpc # "sendUnblock"
    BY <1>1, <2>1 DEF IInv, FieldsOK
  <2> QED  BY <1>1, <2>1, <2>2, <2>3
<1>3. CASE NestedInts /\ peer \in IntTasks /\ AtRest(peer)
  BY <1>1, <1>3
<1> QED  BY <1>2, <1>3 DEF Undisturbed, HandOverPcs, Woken

\* A task that waits for an interrupt is woken by it: its message, unless a
\* sender has just cleared p_msg, and its fields.
LEMMA Wakes ==
    ASSUME Inv, NEW t \in IntTasks, InformWaiting(t)
    PROVE  /\ t \in Procs /\ p_flags[t] = {RECEIVING} /\ p_sendto[t] = NO_TASK
           /\ p_recvfrom[t] \in {INTERRUPT, ANY} /\ AtRest(t)'
           /\ t = cur => kpc = "recvCheck"
           /\ has_int_msg[t] => kpc = "recvCheck"
           /\ p_msg[t] <=> ~(kpc = "sendUnblock" /\ t = peer)
           /\ p_flags' = [p_flags EXCEPT ![t] = {}]
           /\ p_recvfrom' = [p_recvfrom EXCEPT ![t] = NO_TASK]
           /\ p_msg' = [p_msg EXCEPT ![t] = FALSE]
           /\ UNCHANGED <<p_sendto, q_sending, kpc, cur, peer>>
           /\ kpc = "user" \/ (NestedInts /\ kpc \notin Panics)
<1> USE IpcAssumption DEF InformWaiting, InterruptsOn
<1>1. t \in Procs /\ RECEIVING \in p_flags[t] /\ p_recvfrom[t] \in {INTERRUPT, ANY}
  BY DEF WaitingForInt
<1>2. p_flags[t] = {RECEIVING} /\ p_sendto[t] = NO_TASK
      /\ (p_msg[t] <=> ~(kpc = "sendUnblock" /\ t = peer))
  BY <1>1 DEF Inv, IInv, FieldsOK
<1>3. kpc = "user" \/ (NestedInts /\ kpc \notin Panics)
  BY DEF Panics
<1>4. has_int_msg[t] => kpc = "recvCheck"
  BY <1>1, <1>3 DEF Inv, NoMissedWakeup, Panics
<1>5. t = cur => kpc = "recvCheck"
  <2>1. kpc = "user" => cur = NO_TASK
    BY DEF Inv, Undisturbed
  <2>2. kpc \in SendPcs \cup RecvPcs => AtRest(cur)
    BY DEF Inv, IInv, CallOK
  <2> QED  BY <1>1, <1>2, <1>3, <2>1, <2>2
           DEF Inv, IInv, TypeOK, KernelPcs, Panics, SendPcs, RecvPcs, AtRest
<1>6. /\ p_flags' = [p_flags EXCEPT ![t] = {}]
      /\ p_recvfrom' = [p_recvfrom EXCEPT ![t] = NO_TASK]
      /\ p_msg' = [p_msg EXCEPT ![t] = FALSE]
      /\ UNCHANGED <<p_sendto, q_sending, cur, peer>>
  BY <1>2
<1>7. AtRest(t)'
  BY <1>1, <1>2, <1>6 DEF AtRest, Inv, IInv, TypeOK
<1>8. kpc' = kpc
  BY <1>7
<1> QED  BY <1>1, <1>2, <1>3, <1>4, <1>5, <1>6, <1>7, <1>8

\* An interrupt in the midst of a call disturbs only what Undisturbed gives up.
LEMMA InformKeepsUndisturbed ==
    ASSUME Inv, NEW t \in IntTasks, InformWaiting(t)
    PROVE  Undisturbed'
<1> USE IpcAssumption
<1>1. /\ t \in Procs /\ AtRest(t)'
      /\ t = cur => kpc = "recvCheck"
      /\ has_int_msg[t] => kpc = "recvCheck"
      /\ p_msg[t] <=> ~(kpc = "sendUnblock" /\ t = peer)
      /\ UNCHANGED <<kpc, cur, peer>>
      /\ kpc = "user" \/ (NestedInts /\ kpc \notin Panics)
  BY Wakes
<1>2. /\ buf' = IF p_msg[t] THEN [buf EXCEPT ![t] = HardInt] ELSE buf
      /\ has_int_msg' = [has_int_msg EXCEPT ![t] = FALSE]
  BY DEF InformWaiting
<1>3. p_msg[t] => buf'[t] = HardInt
  BY <1>1, <1>2 DEF Inv, IInv, TypeOK
<1>4. ASSUME NEW p \in Procs, p # t
      PROVE  /\ AtRest(p)' <=> AtRest(p)
             /\ Expects(p)' <=> Expects(p)
             /\ Woken(p)' <=> Woken(p)
             /\ p_flags'[p] = p_flags[p] /\ buf'[p] = buf[p]
             /\ has_int_msg'[p] = has_int_msg[p]
  <2>1. /\ p_flags'[p] = p_flags[p] /\ p_recvfrom'[p] = p_recvfrom[p]
        /\ p_msg'[p] = p_msg[p] /\ p_sendto'[p] = p_sendto[p]
        /\ buf'[p] = buf[p] /\ has_int_msg'[p] = has_int_msg[p]
    BY <1>4, Wakes, <1>2 DEF Inv, IInv, TypeOK
  <2> QED  BY <1>1, <2>1 DEF AtRest, Expects, Woken
<1>5. ~has_int_msg'[t]
  BY <1>1, <1>2 DEF Inv, IInv, TypeOK
<1>6. kpc \in SendPcs => cur \in Procs /\ cur # t /\ peer \in Procs
  BY <1>1 DEF Inv, IInv, CallOK, SendPcs
<1>7. kpc \in RecvPcs => cur \in Procs /\ cur # t
  BY <1>1 DEF Inv, IInv, CallOK, RecvPcs
<1>8. kpc = "recvCheck" => cur \in Procs
  BY DEF Inv, IInv, CallOK
<1>9. \A p \in Procs : has_int_msg'[p] => p \in IntTasks
  BY <1>4, <1>5 DEF Inv, Undisturbed
<1>10. kpc = "user" => cur = NO_TASK
  BY DEF Inv, Undisturbed
<1>11. kpc \in SendPcs => buf'[cur].source = cur
  BY <1>4, <1>6 DEF Inv, Undisturbed
<1>12. CASE t = peer /\ kpc \in HandOverPcs
  <2>1. NestedInts /\ AtRest(peer)' /\ (kpc # "sendUnblock" => Woken(peer)')
    BY <1>1, <1>3, <1>12 DEF Woken, HandOverPcs
  <2> QED  BY <1>1, <1>9, <1>11, <1>12, <2>1 DEF Undisturbed, HandOverPcs
<1>13. CASE t # peer /\ kpc \in HandOverPcs
  <2>1. peer \in Procs
    BY <1>6, <1>13 DEF HandOverPcs, SendPcs
  <2>2. /\ AtRest(peer)' <=> AtRest(peer)
        /\ Expects(peer)' <=> Expects(peer)
        /\ Woken(peer)' <=> Woken(peer)
        /\ buf'[peer] = buf[peer]
    BY <1>1, <1>4, <1>13, <2>1 DEF AtRest, Expects, Woken
  <2> HIDE DEF Expects, Woken, AtRest
  <2> QED  BY <1>1, <1>9, <1>11, <1>13, <2>2 DEF Inv, Undisturbed, HandOverPcs
<1>14. CASE kpc \notin HandOverPcs /\ kpc # "recvCheck"
  <2>1. kpc \in RecvPcs => has_int_msg'[cur] = has_int_msg[cur]
    BY <1>4, <1>7
  <2> QED  BY <1>1, <1>9, <1>10, <1>11, <1>14, <2>1
           DEF Inv, Undisturbed, HandOverPcs, RecvPcs
<1>15. CASE kpc = "recvCheck"
  <2>1. CASE cur = t
    <3>1. Woken(cur)' /\ NestedInts
      BY <1>1, <1>3, <1>15, <2>1 DEF Woken
    <3> QED  BY <1>1, <1>5, <1>9, <1>15, <2>1, <3>1 DEF Undisturbed, SendPcs
  <2>2. CASE cur # t
    <3>1. /\ Woken(cur)' <=> Woken(cur)
          /\ p_flags'[cur] = p_flags[cur]
          /\ has_int_msg'[cur] = has_int_msg[cur]
      BY <1>1, <1>4, <1>8, <1>15, <2>2 DEF AtRest, Woken
    <3> QED  BY <1>1, <1>9, <1>15, <2>2, <3>1 DEF Inv, Undisturbed, SendPcs
  <2> QED  BY <2>1, <2>2
<1> QED  BY <1>12, <1>13, <1>14, <1>15

LEMMA UndisturbedStep ==
    ASSUME Inv, [Next]_vars
    PROVE  Undisturbed'
<1> USE IpcAssumption DEF Inv, IInv, TypeOK, Undisturbed, Continue, Return,
        tableVars, SendPcs
<1>1. ASSUME NEW p \in Procs, NEW dest \in Procs, NEW body \in Bodies,
             CallSend(p, dest, body)
      PROVE  Undisturbed'
  BY <1>1 DEF CallSend, Enter
<1>2. ASSUME NEW p \in Procs, NEW src \in SourcesFor(p), CallReceive(p, src)
      PROVE  Undisturbed'
  BY <1>2 DEF CallReceive, Enter, SourcesFor
<1>3. CASE SendDeadlock
  BY <1>3 DEF SendDeadlock
<1>4. CASE SendCheck
  BY <1>4 DEF SendCheck, Expects, Woken, AtRest
<1>5. CASE SendReady
  BY <1>5 DEF SendReady, WaitingFor, Expects
<1>6. CASE SendBlock
  BY <1>6 DEF SendBlock
<1>7. CASE SendCopy
  <2>1. cur \in Procs /\ peer \in Procs /\ peer # cur /\ kpc = "sendCopy"
    BY <1>7 DEF SendCopy, CallOK
  <2>2. CASE p_msg[peer]
    <3>1. Expects(peer)
      BY <2>1, <2>2 DEF Woken, AtRest
    <3>2. buf'[peer].source = cur /\ buf'[cur].source = cur
      BY <1>7, <2>1, <2>2 DEF SendCopy
    <3> QED  BY <1>7, <2>1, <3>1, <3>2 DEF SendCopy, Expects
  <2>3. CASE ~p_msg[peer]
    <3>1. p_flags[peer] = {} /\ NestedInts /\ peer \in IntTasks /\ AtRest(peer)
      <4>1. ~Expects(peer)
        BY <2>1, <2>3 DEF FieldsOK, Expects
      <4> QED  BY <2>1, <4>1 DEF Woken, AtRest
    <3> QED  BY <1>7, <2>1, <2>3, <3>1 DEF SendCopy, AtRest
  <2> QED  BY <2>2, <2>3
<1>8. CASE SendClear
  BY <1>8 DEF SendClear, Expects, AtRest, CallOK
<1>9. CASE SendUnblock
  BY <1>9 DEF SendUnblock
<1>10. CASE RecvTest
  BY <1>10 DEF RecvTest, CallOK, RecvPcs
<1>11. CASE RecvInt
  BY <1>11 DEF RecvInt, CallOK, RecvPcs
<1>12. CASE RecvIntCheck \/ RecvNone \/ RecvCheck
  BY <1>12 DEF RecvIntCheck, RecvNone, RecvCheck
<1>13. CASE RecvFetch
  BY <1>13 DEF RecvFetch, Fetch
<1>14. CASE RecvBlock
  BY <1>14 DEF RecvBlock, CallOK, RecvPcs, AtRest
<1>15. ASSUME NEW t \in IntTasks, ~AsksProcess(t), InformWaiting(t)
       PROVE  Undisturbed'
  BY <1>15, InformKeepsUndisturbed
<1>16. ASSUME NEW t \in IntTasks, ~AsksProcess(t), InformBusy(t)
       PROVE  Undisturbed'
  BY <1>16 DEF InformBusy, InterruptsOn, AsksProcess, Expects, Woken, AtRest
<1>17. CASE Halted \/ UNCHANGED vars
  BY <1>17 DEF Halted, vars, Expects, Woken, AtRest
<1> QED
  BY <1>1, <1>2, <1>3, <1>4, <1>5, <1>6, <1>7, <1>8, <1>9, <1>10, <1>11,
     <1>12, <1>13, <1>14, <1>15, <1>16, <1>17
     DEF Next, Calls, Send, Receive, InformInt

\* msg_send's last assertions hold whoever has unblocked the receiver.
LEMMA UnblockAsserts ==
    ASSUME Inv, SendUnblock
    PROVE  /\ kpc' = "user"
           /\ cur \in Procs /\ peer \in Procs /\ peer # cur /\ p_flags[cur] = {}
           /\ p_flags' = [p_flags EXCEPT ![peer] = {}]
           /\ p_recvfrom' = [p_recvfrom EXCEPT ![peer] = NO_TASK]
<1> USE IpcAssumption
<1>1. /\ cur \in Procs /\ peer \in Procs /\ peer # cur /\ AtRest(cur)
      /\ p_flags[peer] \in {{}, {RECEIVING}} /\ p_sendto[peer] = NO_TASK
      /\ ~p_msg[peer]
  BY Receiver DEF SendUnblock, Inv, HandOverPcs, AtRest
<1>2. /\ p_flags' = [p_flags EXCEPT ![peer] = {}]
      /\ p_recvfrom' = [p_recvfrom EXCEPT ![peer] = NO_TASK]
      /\ UNCHANGED <<p_msg, p_sendto>>
  BY <1>1 DEF SendUnblock
<1>3. \A p \in {peer, cur} : AtRest(p)'
  BY <1>1, <1>2 DEF AtRest, Inv, IInv, TypeOK
<1> QED  BY <1>1, <1>2, <1>3 DEF SendUnblock, Return, AtRest

LEMMA AssertStep ==
    ASSUME Inv, [Next]_vars
    PROVE  OnlyInterruptsFailAsserts'
<1> USE IpcAssumption DEF OnlyInterruptsFailAsserts, Panics, Continue, Return,
        tableVars
<1>1. CASE Calls
  BY <1>1 DEF Calls, CallSend, CallReceive, Enter
<1>2. CASE SendDeadlock \/ SendReady \/ SendCopy \/ SendClear
  BY <1>2 DEF SendDeadlock, SendReady, SendCopy, SendClear
<1>3. CASE SendBlock
  <2>1. cur \in Procs /\ p_flags[cur] = {} /\ p_recvfrom[cur] = NO_TASK
    BY <1>3 DEF SendBlock, Inv, IInv, CallOK, SendPcs, AtRest
  <2>2. p_flags'[cur] = {SENDING}
    BY <1>3, <2>1 DEF SendBlock, Inv, IInv, TypeOK
  <2> QED  BY <1>3, <2>1, <2>2 DEF SendBlock
<1>4. CASE SendCheck
  <2>1. p_msg[peer] \/ (NestedInts /\ Woken(peer))
    <3>1. CASE Expects(peer)
      BY <1>4, <3>1 DEF SendCheck, Expects, Inv, IInv, CallOK, SendPcs, FieldsOK
    <3> QED  BY <1>4, <3>1 DEF SendCheck, Inv, Undisturbed
  <2>2. Woken(peer)' <=> Woken(peer)
    BY <1>4 DEF SendCheck, Woken, AtRest
  <2> QED  BY <1>4, <2>1, <2>2 DEF SendCheck
<1>5. CASE SendUnblock
  <2>1. kpc' = "user"
    BY <1>5, UnblockAsserts
  <2> QED  BY <2>1
<1>6. CASE RecvTest \/ RecvInt \/ RecvNone \/ RecvBlock
  BY <1>6 DEF RecvTest, RecvInt, RecvNone, RecvBlock
<1>7. CASE RecvIntCheck
  <2>1. cur \in Procs /\ AtRest(cur) /\ (has_int_msg[cur] => NestedInts)
    BY <1>7 DEF RecvIntCheck, Inv, IInv, CallOK, RecvPcs, Undisturbed
  <2>2. has_int_msg[cur] => cur \in IntTasks
    BY <2>1 DEF Inv, Undisturbed
  <2> QED  BY <1>7, <2>1, <2>2 DEF RecvIntCheck, AtRest
<1>8. CASE RecvFetch
  <2>1. kpc' \in {"user", "assertFetch"}
    BY <1>8 DEF RecvFetch, Fetch
  <2>2. kpc' # "assertFetch"
    BY <1>8, SafeStep DEF QueuePathSafe, Inv, Next, Receive
  <2> QED  BY <2>1, <2>2
<1>9. CASE RecvCheck
  <2>1. cur \in Procs /\ (has_int_msg[cur] => NestedInts /\ cur \in IntTasks)
    BY <1>9 DEF RecvCheck, Inv, IInv, CallOK, Undisturbed
  <2>2. CASE p_flags[cur] = {RECEIVING}
    <3>1. p_msg[cur] /\ p_recvfrom[cur] # NO_TASK /\ p_sendto[cur] = NO_TASK
      BY <1>9, <2>1, <2>2 DEF RecvCheck, Inv, IInv, FieldsOK
    <3> QED  BY <1>9, <2>1, <2>2, <3>1 DEF RecvCheck
  <2>3. CASE NestedInts /\ Woken(cur)
    <3>1. kpc' = "assertBlock" /\ cur' = cur
      BY <1>9, <2>3 DEF RecvCheck, Woken, AtRest
    <3>2. Woken(cur)'
      BY <1>9, <2>3, <3>1 DEF RecvCheck, Woken, AtRest
    <3> QED  BY <2>3, <3>1, <3>2 DEF Woken
  <2> QED  BY <1>9, <2>2, <2>3 DEF RecvCheck, Inv, Undisturbed
<1>10. ASSUME NEW t \in IntTasks, InformWaiting(t)
       PROVE  OnlyInterruptsFailAsserts'
  <2>1. kpc' = kpc /\ kpc \notin Panics
    BY <1>10, Wakes
  <2> QED  BY <2>1
<1>11. ASSUME NEW t \in IntTasks, InformBusy(t)
       PROVE  OnlyInterruptsFailAsserts'
  BY <1>11 DEF InformBusy, InterruptsOn
<1>12. CASE Halted \/ UNCHANGED vars
  BY <1>12 DEF Halted, vars, Inv, Woken, AtRest
<1> QED
  BY <1>1, <1>2, <1>3, <1>4, <1>5, <1>6, <1>7, <1>8, <1>9, <1>10, <1>11,
     <1>12 DEF Next, Send, Receive, InformInt

LEMMA InitAll == Init => Inv
<1> SUFFICES ASSUME Init PROVE Inv
  OBVIOUS
<1>1. NoneFits /\ NoMissedWakeup /\ Undisturbed /\ OnlyInterruptsFailAsserts
  BY DEF Init, NoneFits, NoMissedWakeup, Undisturbed, SendPcs,
         OnlyInterruptsFailAsserts, Panics
<1> QED  BY InitInv, <1>1 DEF Inv

LEMMA StepAll ==
    ASSUME Inv, [Next]_vars
    PROVE  Inv'
<1>1. IInv'
  BY TypeStep, CallStep, FieldsStep, SafeStep, QueueStep, CycleStep DEF IInv, Inv
<1>2. NoneFits' /\ NoMissedWakeup'
  BY NoneFitsStep, MissedStep DEF Inv
<1> QED  BY <1>1, <1>2, UndisturbedStep, AssertStep DEF Inv

LEMMA AllInvariant == Spec => []Inv
<1>1. Inv /\ [Next]_vars => Inv'
  BY StepAll
<1> QED  BY InitAll, <1>1, PTL DEF Spec

\* Which assertions of msg_send, msg_receive, block, unblock and inform_int can
\* fail, and why: only an interrupt for the receiver in a hand-over, or for the
\* caller of msg_receive, makes one fail, in three places (proc.c:307, :407, :515
\* to :519), whatever the processes; a call between processes that no interrupt
\* informs fails none.  A send that would close a circle of senders still panics.
THEOREM AssertionsHold == Spec => []OnlyInterruptsFailAsserts
<1>1. Inv => OnlyInterruptsFailAsserts
  BY DEF Inv
<1> QED  BY AllInvariant, <1>1, PTL

----------------------------------------------------------------------------
(* The refinement: what each step does to the abstract calls and queues. *)

\* The abstract state is left alone.
Same ==
    /\ \A p \in Procs : AbsCall(p)' = AbsCall(p)
    /\ \A d \in Procs : AbsWaiting(d)' = AbsWaiting(d)
    /\ UNCHANGED <<buf, has_int_msg>>

LEMMA SameStutters == Same => UNCHANGED R!vars
BY DEF Same, R!vars

\* A call starts.
LEMMA StartsSend ==
    ASSUME Inv, NEW p \in Procs, NEW dest \in Procs, NEW body \in Bodies,
           CallSend(p, dest, body)
    PROVE  R!Next
<1> USE IpcAssumption DEF CallSend, Enter, tableVars
<1>1. p_flags[p] = {} /\ dest # p /\ p # NO_TASK
  OBVIOUS
<1>2. AbsCall(p) = R!Idle
  BY <1>1 DEF Unsent, AbsCall, R!Idle
<1>3. \A q \in Procs : AbsCall(q)' = IF q = p THEN R!Sending(dest) ELSE AbsCall(q)
  BY <1>1 DEF Unsent, AbsCall, R!Sending
<1>4. \A d \in Procs : AbsWaiting(d)' =
         IF d = dest THEN Append(AbsWaiting(d), p) ELSE AbsWaiting(d)
  BY DEF Unsent, AbsWaiting
<1>5. R!StartSend(p, dest, body)
  BY <1>2, <1>3, <1>4 DEF R!StartSend, Inv, IInv, TypeOK
<1> QED  BY <1>1, <1>5 DEF R!Next

LEMMA StartsReceive ==
    ASSUME Inv, NEW p \in Procs, NEW src \in SourcesFor(p), CallReceive(p, src)
    PROVE  R!Next
<1> USE IpcAssumption DEF CallReceive, Enter, tableVars
<1>1. p_flags[p] = {} /\ src # p /\ src \in Procs \cup {ANY, INTERRUPT}
  BY DEF SourcesFor
<1>2. AbsCall(p) = R!Idle
  BY <1>1 DEF Unsent, AbsCall, R!Idle
<1>3. \A q \in Procs : AbsCall(q)' = IF q = p THEN R!Receiving(src) ELSE AbsCall(q)
  BY <1>1 DEF Unsent, AbsCall, R!Receiving
<1>4. \A d \in Procs : AbsWaiting(d)' = AbsWaiting(d)
  BY DEF Unsent, AbsWaiting
<1>5. PICK body \in {Blank, buf[p].body} :
         buf' = [buf EXCEPT ![p] = [source |-> p, body |-> body]]
  BY Zenon
<1>6. R!StartReceive(p, src)
  BY <1>2, <1>3, <1>4, <1>5 DEF R!StartReceive
<1> QED  BY <1>1, <1>6 DEF R!Next

\* The steps of msg_send that Rendezvous does not see.
LEMMA SendsQuietly ==
    ASSUME Inv, SendDeadlock \/ SendReady \/ SendCheck \/ SendClear
    PROVE  Same
<1> USE IpcAssumption DEF Same, Unsent, AbsCall, AbsWaiting, Continue, tableVars
<1>1. cur \in Procs /\ p_flags[cur] = {}
  BY DEF SendDeadlock, SendReady, SendCheck, SendClear, Inv, IInv, CallOK,
         SendPcs, AtRest
<1>2. CASE SendDeadlock \/ SendReady
  BY <1>1, <1>2 DEF SendDeadlock, SendReady
<1>3. CASE SendCheck
  BY <1>1, <1>3 DEF SendCheck
<1>4. CASE SendClear
  BY <1>1, <1>4 DEF SendClear
<1> QED  BY <1>2, <1>3, <1>4

\* The sender that finds nobody waiting is blocked in the call it has made.
LEMMA BlocksQuietly ==
    ASSUME Inv, Inv', SendBlock
    PROVE  Same
<1> USE IpcAssumption DEF Same, Unsent, AbsCall, AbsWaiting, SendBlock
<1>1. /\ cur \in Procs /\ peer \in Procs /\ p_flags[cur] = {}
      /\ p_recvfrom[cur] = NO_TASK
  BY DEF Inv, IInv, CallOK, SendPcs, AtRest
<1>2. p_flags' = [p_flags EXCEPT ![cur] = {SENDING}] /\ p_flags'[cur] = {SENDING}
  BY <1>1 DEF Inv, IInv, TypeOK
<1>3. kpc' = "user" /\ kpc = "send"
  BY <1>1, <1>2 DEF Return
<1>4. \A p \in Procs : AbsCall(p)' = AbsCall(p)
  <2>1. p_sendto'[cur] = peer
    BY <1>1 DEF Inv, IInv, TypeOK
  <2>2. ASSUME NEW p \in Procs, p # cur
        PROVE  p_sendto'[p] = p_sendto[p] /\ p_flags'[p] = p_flags[p]
    BY <1>1, <1>2, <2>2 DEF Inv, IInv, TypeOK
  <2> QED  BY <1>1, <1>2, <1>3, <2>1, <2>2
<1>5. \A d \in Procs : AbsWaiting(d)' = AbsWaiting(d)
  BY <1>1, <1>3 DEF Inv, IInv, TypeOK
<1> QED  BY <1>4, <1>5

\* The receiver is unblocked after it has received.
LEMMA UnblocksQuietly ==
    ASSUME Inv, SendUnblock
    PROVE  Same
<1> USE IpcAssumption DEF Same, Unsent, AbsCall, AbsWaiting
<1>1. /\ kpc = "sendUnblock" /\ kpc' = "user"
      /\ cur \in Procs /\ peer \in Procs /\ peer # cur /\ p_flags[cur] = {}
      /\ p_flags' = [p_flags EXCEPT ![peer] = {}]
      /\ p_recvfrom' = [p_recvfrom EXCEPT ![peer] = NO_TASK]
      /\ UNCHANGED <<p_sendto, has_int_msg, q_sending, buf>>
  BY UnblockAsserts DEF SendUnblock
<1>2. p_flags[peer] \in {{}, {RECEIVING}}
  BY Receiver, <1>1 DEF Inv, HandOverPcs, AtRest
<1>3. ASSUME NEW p \in Procs
      PROVE  AbsCall(p)' = AbsCall(p)
  <2>1. CASE p = peer
    <3>1. p_flags'[p] = {}
      BY <1>1, <2>1 DEF Inv, IInv, TypeOK
    <3> QED  BY <1>1, <1>2, <2>1, <3>1
  <2>2. CASE p # peer
    <3>1. p_flags'[p] = p_flags[p] /\ p_recvfrom'[p] = p_recvfrom[p]
      BY <1>1, <2>2 DEF Inv, IInv, TypeOK
    <3> QED  BY <1>1, <2>2, <3>1
  <2> QED  BY <2>1, <2>2
<1> QED  BY <1>1, <1>3

\* The steps of msg_receive that Rendezvous does not see.
LEMMA ReceivesQuietly ==
    ASSUME Inv, Inv', RecvTest \/ RecvIntCheck \/ RecvNone \/ RecvBlock \/ RecvCheck
    PROVE  Same
<1> USE IpcAssumption DEF Same, Unsent, AbsCall, AbsWaiting, Continue, tableVars
<1>1. CASE RecvTest \/ RecvNone
  <2>1. cur \in Procs /\ p_flags[cur] = {}
    BY <1>1 DEF RecvTest, RecvNone, Inv, IInv, CallOK, RecvPcs, AtRest
  <2> QED  BY <1>1, <2>1 DEF RecvTest, RecvNone
<1>2. CASE RecvIntCheck
  <2>1. cur \in Procs /\ p_flags[cur] = {}
    BY <1>2 DEF RecvIntCheck, Inv, IInv, CallOK, RecvPcs, AtRest
  <2>2. kpc = "recvIntCheck" /\ kpc' \in {"user", "assertInt"}
    BY <1>2 DEF RecvIntCheck, Return
  <2> QED  BY <1>2, <2>1, <2>2 DEF RecvIntCheck
<1>3. CASE RecvBlock
  <2>1. cur \in Procs /\ peer # cur /\ p_flags[cur] = {}
    BY <1>3 DEF RecvBlock, Inv, IInv, CallOK, RecvPcs, AtRest
  <2>2. /\ p_flags' = [p_flags EXCEPT ![cur] = {RECEIVING}]
        /\ p_recvfrom' = [p_recvfrom EXCEPT ![cur] = peer]
    BY <1>3, <2>1 DEF RecvBlock
  <2>3. ASSUME NEW p \in Procs
        PROVE  AbsCall(p)' = AbsCall(p)
    <3>1. CASE p = cur
      <4>1. p_flags'[p] = {RECEIVING} /\ p_recvfrom'[p] = peer
        BY <2>1, <2>2, <3>1 DEF Inv, IInv, TypeOK
      <4> QED  BY <1>3, <2>1, <3>1, <4>1 DEF RecvBlock
    <3>2. CASE p # cur
      <4>1. p_flags'[p] = p_flags[p] /\ p_recvfrom'[p] = p_recvfrom[p]
        BY <2>2, <3>2 DEF Inv, IInv, TypeOK
      <4> QED  BY <1>3, <3>2, <4>1 DEF RecvBlock
    <3> QED  BY <3>1, <3>2
  <2> QED  BY <1>3, <2>3 DEF RecvBlock
<1>4. CASE RecvCheck
  <2>1. kpc = "recvCheck" /\ kpc' \in {"user", "assertBlock"}
    BY <1>4 DEF RecvCheck, Return
  <2> QED  BY <1>4, <2>1 DEF RecvCheck
<1> QED  BY <1>1, <1>2, <1>3, <1>4

----------------------------------------------------------------------------
(* What Rendezvous sees: a message or an interrupt reaches its receiver. *)

\* A receiver of ANY has nobody in its queue: a sender in front of the one
\* that finds it waiting would have been missed.
LEMMA NobodyQueued ==
    ASSUME IInv, NoMissedWakeup, NEW d \in Procs, RECEIVING \in p_flags[d],
           p_recvfrom[d] = ANY
    PROVE  q_sending[d] = <<>>
<1>1. q_sending[d] \in Seq(Procs)
  BY DEF IInv, TypeOK
<1>2. ASSUME NEW i \in DOMAIN q_sending[d]
      PROVE  FALSE
  <2>1. q_sending[d][i] \in Procs
    BY <1>1, <1>2, LenProperties, ElementOfSeq
  <2>2. p_sendto[q_sending[d][i]] = d
    BY <2>1 DEF IInv, QueueOK
  <2> QED  BY <2>1, <2>2 DEF NoMissedWakeup
<1>3. Len(q_sending[d]) = 0
  <2>1. Len(q_sending[d]) \in Nat /\ DOMAIN q_sending[d] = 1 .. Len(q_sending[d])
    BY <1>1, LenProperties
  <2>2. 1 \notin DOMAIN q_sending[d]
    BY <1>2
  <2> QED  BY <2>1, <2>2
<1> QED  BY <1>1, <1>3, EmptySeq

LEMMA NextButOne ==
    \A n \in Nat : (n + 1) + 1 \in Int /\ n + 1 \in Int /\ n + 1 < (n + 1) + 1
  OBVIOUS

\* Taking the last element away again.
LEMMA RemoveLast ==
    ASSUME NEW q \in Seq(Procs), NEW p \in Procs
    PROVE  /\ Len(q) + 1 \in DOMAIN Append(q, p)
           /\ Append(q, p)[Len(q) + 1] = p
           /\ RemoveAt(Append(q, p), Len(q) + 1) = q
<1> DEFINE a == Append(q, p)
<1>1. /\ a \in Seq(Procs) /\ Len(a) = Len(q) + 1 /\ a[Len(q) + 1] = p
      /\ \A i \in 1 .. Len(q) : a[i] = q[i]
      /\ Len(q) \in Nat /\ DOMAIN a = 1 .. (Len(q) + 1)
  BY AppendProperties, LenProperties
<1> HIDE DEF a
<1>2. SubSeq(a, 1, (Len(q) + 1) - 1) = q
  BY <1>1
<1>3. SubSeq(a, (Len(q) + 1) + 1, Len(a)) = <<>>
  <2>1. (Len(q) + 1) + 1 \in Int /\ Len(a) \in Int /\ Len(a) < (Len(q) + 1) + 1
    <3>1. PICK n \in Nat : n = Len(q) /\ Len(a) = n + 1
      BY <1>1, Zenon
    <3>2. (n + 1) + 1 \in Int /\ n + 1 \in Int /\ n + 1 < (n + 1) + 1
      BY <3>1, NextButOne, Zenon
    <3> QED  BY <3>1, <3>2, Zenon
  <2> QED  BY <2>1, SubSeqEmpty, Zenon
<1>4. RemoveAt(a, Len(q) + 1) = q \o <<>>
  BY <1>2, <1>3 DEF RemoveAt
<1>5. q \o <<>> = q
  BY ConcatEmptySeq
<1> QED  BY <1>1, <1>4, <1>5 DEF a

\* The hand-over of Rendezvous, from what becomes of each process and queue.
LEMMA HandsOver ==
    ASSUME NEW d \in Procs, NEW s \in Procs, NEW i \in DOMAIN AbsWaiting(d),
           AbsWaiting(d)[i] = s,
           \/ AbsCall(d) = R!Receiving(s)
           \/ AbsCall(d) = R!Receiving(ANY) /\ i = 1,
           AbsCall(s) = R!Sending(d),
           \A p \in Procs : AbsCall(p)' =
              IF p \in {d, s} THEN R!Idle ELSE AbsCall(p),
           \A e \in Procs : AbsWaiting(e)' =
              IF e = d THEN RemoveAt(AbsWaiting(d), i) ELSE AbsWaiting(e),
           buf' = [buf EXCEPT ![d] = buf[s]],
           has_int_msg' = has_int_msg
    PROVE  R!Next
<1> DEFINE c == [p \in Procs |-> AbsCall(p)]
           w == [e \in Procs |-> AbsWaiting(e)]
<1>1. w[d][i] = s /\ i \in DOMAIN w[d]
  OBVIOUS
<1>2. \/ c[d] = R!Receiving(s)
      \/ c[d] = R!Receiving(ANY) /\ i = 1
  OBVIOUS
<1>3. c[s] = R!Sending(d)
  OBVIOUS
<1>4. c' = [c EXCEPT ![d] = R!Idle, ![s] = R!Idle]
  OBVIOUS
<1>5. w' = [w EXCEPT ![d] = RemoveAt(@, i)]
  OBVIOUS
<1>6. UNCHANGED {p \in Procs : has_int_msg[p]}
  OBVIOUS
<1> HIDE DEF c, w
<1>7. R!HandOver(d, i)
  BY <1>1, <1>2, <1>3, <1>4, <1>5, <1>6
     DEF R!HandOver, c, w, RemoveAt, R!RemoveAt
<1> QED  BY <1>1, <1>7 DEF R!Next

\* A message is copied to a receiver that waits for it.
LEMMA SendHandsOver ==
    ASSUME Inv, SendCopy, p_msg[peer]
    PROVE  R!Next
<1> USE IpcAssumption DEF SendCopy, Continue, tableVars, Unsent
<1> DEFINE q == q_sending[peer]
<1>1. /\ cur \in Procs /\ peer \in Procs /\ peer # cur /\ p_flags[cur] = {}
      /\ p_flags[peer] = {RECEIVING} /\ p_recvfrom[peer] \in {cur, ANY}
      /\ p_msg[peer]
  BY Receiver DEF Inv, HandOverPcs, AtRest
<1>2. q \in Seq(Procs) /\ AbsWaiting(peer) = Append(q, cur)
  BY <1>1 DEF Inv, IInv, TypeOK, AbsWaiting
<1>3. AbsCall(peer) = R!Receiving(p_recvfrom[peer])
  BY <1>1 DEF Unsent, AbsCall, R!Receiving
<1>4. AbsCall(cur) = R!Sending(peer)
  BY <1>1 DEF Unsent, AbsCall, R!Sending
<1>5. p_recvfrom[peer] = ANY => q = <<>>
  BY <1>1, NobodyQueued DEF Inv
<1>6. \A p \in Procs : AbsCall(p)' =
         IF p \in {peer, cur} THEN R!Idle ELSE AbsCall(p)
  BY <1>1 DEF Unsent, AbsCall, R!Idle
<1>7. \A d \in Procs : AbsWaiting(d)' = IF d = peer THEN q ELSE AbsWaiting(d)
  BY <1>1 DEF Unsent, AbsWaiting
<1>8. /\ Len(q) + 1 \in DOMAIN AbsWaiting(peer)
      /\ AbsWaiting(peer)[Len(q) + 1] = cur
      /\ RemoveAt(AbsWaiting(peer), Len(q) + 1) = q
  BY <1>1, <1>2, RemoveLast
<1>9. buf' = [buf EXCEPT ![peer] = buf[cur]]
  BY <1>1
<1>10. p_recvfrom[peer] = ANY => Len(q) + 1 = 1
  BY <1>5
<1> HIDE DEF q
<1>11. \/ AbsCall(peer) = R!Receiving(cur)
       \/ AbsCall(peer) = R!Receiving(ANY) /\ Len(q) + 1 = 1
  BY <1>1, <1>3, <1>10
<1>12. \A e \in Procs : AbsWaiting(e)' =
          IF e = peer THEN RemoveAt(AbsWaiting(peer), Len(q) + 1)
          ELSE AbsWaiting(e)
  BY <1>7, <1>8
<1>13. has_int_msg' = has_int_msg
  OBVIOUS
<1>14. PICK d \in Procs, s \in Procs, i \in DOMAIN AbsWaiting(peer) :
          d = peer /\ s = cur /\ i = Len(q) + 1
  BY <1>1, <1>8
<1>15. /\ AbsWaiting(d)[i] = s /\ AbsCall(s) = R!Sending(d)
       /\ \/ AbsCall(d) = R!Receiving(s)
          \/ AbsCall(d) = R!Receiving(ANY) /\ i = 1
       /\ buf' = [buf EXCEPT ![d] = buf[s]]
  BY <1>4, <1>8, <1>9, <1>11, <1>14
<1>16. \A p \in Procs : AbsCall(p)' = IF p \in {d, s} THEN R!Idle ELSE AbsCall(p)
  BY <1>6, <1>14
<1>17. \A e \in Procs : AbsWaiting(e)' =
          IF e = d THEN RemoveAt(AbsWaiting(d), i) ELSE AbsWaiting(e)
  BY <1>12, <1>14
<1>18. i \in DOMAIN AbsWaiting(d)
  BY <1>14
<1> HIDE DEF SendCopy, Continue, tableVars, Unsent
<1> QED
  BY <1>13, <1>15, <1>16, <1>17, <1>18, HandsOver

\* A message meets a receiver that an interrupt has woken, and is lost.
LEMMA SendLoses ==
    ASSUME Inv, SendCopy, ~p_msg[peer]
    PROVE  NestedInts /\ R!Collide
<1> USE IpcAssumption DEF SendCopy, Continue, tableVars, Unsent
<1> DEFINE q == q_sending[peer]
<1>1. /\ cur \in Procs /\ peer \in Procs /\ peer # cur /\ p_flags[cur] = {}
      /\ NestedInts /\ Woken(peer)
  <2>1. ~Expects(peer)
    BY DEF Expects, Inv, IInv, FieldsOK, CallOK, SendPcs
  <2> QED  BY <2>1 DEF Inv, IInv, CallOK, SendPcs, AtRest, Undisturbed
<1>2. p_flags[peer] = {} /\ buf[peer] = R!HardInt /\ peer \in IntTasks
  BY <1>1 DEF Woken, AtRest, HardInt, R!HardInt
<1>3. q \in Seq(Procs) /\ AbsWaiting(peer) = Append(q, cur)
  BY <1>1 DEF Inv, IInv, TypeOK, AbsWaiting
<1>4. AbsCall(peer) = R!Idle
  BY <1>1, <1>2 DEF Unsent, AbsCall, R!Idle
<1>5. AbsCall(cur) = R!Sending(peer)
  BY <1>1 DEF Unsent, AbsCall, R!Sending
<1>6. \A p \in Procs : AbsCall(p)' = IF p = cur THEN R!Idle ELSE AbsCall(p)
  BY <1>1, <1>2 DEF Unsent, AbsCall, R!Idle
<1>7. \A d \in Procs : AbsWaiting(d)' = IF d = peer THEN q ELSE AbsWaiting(d)
  BY <1>1 DEF Unsent, AbsWaiting
<1>8. /\ Len(q) + 1 \in DOMAIN AbsWaiting(peer)
      /\ AbsWaiting(peer)[Len(q) + 1] = cur
      /\ RemoveAt(AbsWaiting(peer), Len(q) + 1) = q
      /\ Len(AbsWaiting(peer)) = Len(q) + 1
  BY <1>1, <1>3, RemoveLast, AppendProperties
<1>9. UNCHANGED <<buf, has_int_msg>>
  OBVIOUS
<1> HIDE DEF q
<1>10. PICK d \in IntTasks, s \in Procs, i \in DOMAIN AbsWaiting(peer) :
          d = peer /\ s = cur /\ i = Len(q) + 1
  BY <1>1, <1>2, <1>8
<1> DEFINE c == [p \in Procs |-> AbsCall(p)]
           w == [e \in Procs |-> AbsWaiting(e)]
<1>11. d \in Procs /\ i \in DOMAIN w[d] /\ w[d][i] = s /\ i = Len(w[d])
  BY <1>1, <1>8, <1>10
<1>12. c[s] = R!Sending(d) /\ c[d] = R!Idle /\ buf[d] = R!HardInt
  BY <1>1, <1>2, <1>4, <1>5, <1>10
<1>13. c' = [c EXCEPT ![s] = R!Idle]
  BY <1>6, <1>10
<1>14. w' = [w EXCEPT ![d] = RemoveAt(@, i)]
  BY <1>7, <1>8, <1>10, <1>1
<1>15. UNCHANGED {p \in Procs : has_int_msg[p]}
  BY <1>9
<1> HIDE DEF c, w
<1>16. R!LoseMessage(d, i)
  BY <1>9, <1>11, <1>12, <1>13, <1>14, <1>15
     DEF R!LoseMessage, c, w, RemoveAt, R!RemoveAt
<1> QED  BY <1>1, <1>11, <1>16 DEF R!Collide, w

\* A receiver takes the message of a blocked sender.
LEMMA FetchHandsOver ==
    ASSUME Inv, Inv', RecvFetch
    PROVE  R!Next
<1> USE IpcAssumption DEF tableVars
<1> DEFINE q == q_sending[cur]
<1>1. /\ kpc = "recvFetch" /\ cur \in Procs /\ p_flags[cur] = {}
      /\ q \in Seq(Procs)
  BY DEF RecvFetch, Inv, IInv, CallOK, RecvPcs, AtRest, TypeOK
<1>2. PICK s \in Candidates : FetchAsserts(s) /\ Fetch(s)
  BY FetchAssertsHold DEF RecvFetch, Inv
<1>3. /\ s \in Procs /\ p_sendto[s] = cur /\ \E j \in DOMAIN q : q[j] = s
      /\ p_flags[s] = {SENDING} /\ s # cur
  BY <1>1, <1>2, CandidatesInQueue DEF Inv, IInv, FetchAsserts
<1>4. kpc' = "user" /\ UNCHANGED <<p_recvfrom, has_int_msg>>
  <2>1. p_flags' = [p_flags EXCEPT ![s] = @ \ {SENDING}]
    BY <1>2 DEF Fetch
  <2>2. p_flags'[s] = {}
    BY <1>3, <2>1 DEF Inv, IInv, TypeOK
  <2> QED  BY <1>2, <2>2 DEF Fetch, Return
<1>5. /\ p_flags' = [p_flags EXCEPT ![s] = {}]
      /\ p_sendto' = [p_sendto EXCEPT ![s] = NO_TASK]
      /\ q_sending' = [q_sending EXCEPT ![cur] = Unlink(@, s)]
      /\ buf' = [buf EXCEPT ![cur] = buf[s]]
  BY <1>2, <1>3 DEF Fetch
<1>6. PICK d \in Procs, i \in DOMAIN q :
         d = cur /\ i = (CHOOSE j \in DOMAIN q : q[j] = s) /\ q[i] = s
  BY <1>1, <1>3
<1>7. /\ AbsWaiting(d) = q
      /\ \A e \in Procs : AbsWaiting(e)' =
            IF e = d THEN RemoveAt(AbsWaiting(d), i) ELSE AbsWaiting(e)
  <2>1. \A e \in Procs : AbsWaiting(e) = q_sending[e]
    BY <1>1 DEF Unsent, AbsWaiting
  <2>2. \A e \in Procs : AbsWaiting(e)' = q_sending'[e]
    BY <1>4 DEF Unsent, AbsWaiting
  <2>3. Unlink(q, s) = RemoveAt(q, i)
    BY <1>6 DEF Unlink
  <2> QED  BY <1>5, <1>6, <2>1, <2>2, <2>3 DEF Inv, IInv, TypeOK
<1>8. AbsCall(s) = R!Sending(d)
  BY <1>1, <1>3, <1>6 DEF Unsent, AbsCall, R!Sending
<1>9. AbsCall(d) = R!Receiving(peer)
  BY <1>1, <1>6 DEF Unsent, AbsCall, R!Receiving
<1>10. \/ peer = s
       \/ peer = ANY /\ i = 1
  <2>1. CASE peer = ANY
    <3>1. 1 \in DOMAIN q /\ q[1] = s
      BY <1>2, <2>1 DEF Candidates
    <3> QED  BY <1>1, <1>6, <2>1, <3>1 DEF Inv, IInv, QueueOK
  <2>2. CASE peer # ANY
    BY <1>2, <2>2 DEF Candidates
  <2> QED  BY <2>1, <2>2
<1>11. ASSUME NEW p \in Procs
       PROVE  AbsCall(p)' = IF p \in {d, s} THEN R!Idle ELSE AbsCall(p)
  <2>1. CASE p = s
    <3>1. p_flags'[p] = {}
      BY <1>5, <2>1 DEF Inv, IInv, TypeOK
    <3> QED  BY <1>4, <2>1, <3>1 DEF Unsent, AbsCall, R!Idle
  <2>2. CASE p # s
    <3>1. p_flags'[p] = p_flags[p] /\ p_sendto'[p] = p_sendto[p]
      BY <1>5, <2>2 DEF Inv, IInv, TypeOK
    <3>2. CASE p = cur
      BY <1>1, <1>4, <1>6, <3>1, <3>2 DEF Unsent, AbsCall, R!Idle
    <3>3. CASE p # cur
      BY <1>1, <1>4, <1>6, <2>2, <3>1, <3>3 DEF Unsent, AbsCall
    <3> QED  BY <3>2, <3>3
  <2> QED  BY <2>1, <2>2
<1> HIDE DEF q
<1>12. i \in DOMAIN AbsWaiting(d) /\ AbsWaiting(d)[i] = s
  BY <1>6, <1>7
<1>13. \/ AbsCall(d) = R!Receiving(s)
       \/ AbsCall(d) = R!Receiving(ANY) /\ i = 1
  BY <1>9, <1>10
<1>14. buf' = [buf EXCEPT ![d] = buf[s]] /\ has_int_msg' = has_int_msg
  BY <1>4, <1>5, <1>6
<1> QED
  BY <1>3, <1>7, <1>8, <1>11, <1>12, <1>13, <1>14, HandsOver

\* A pending interrupt is handed to the task that asks for it.
LEMMA TakesPending ==
    ASSUME Inv, RecvInt
    PROVE  R!Next
<1> USE IpcAssumption DEF RecvInt, Continue, tableVars
<1>1. PICK t \in IntTasks : t = cur
  BY DEF Inv, Undisturbed, IInv, CallOK, RecvPcs
<1>2. t \in Procs /\ p_flags[t] = {}
  BY <1>1 DEF Inv, IInv, CallOK, RecvPcs, AtRest
<1>3. AbsCall(t) \in {R!Receiving(ANY), R!Receiving(INTERRUPT)}
  <2>1. peer \in {ANY, INTERRUPT}
    BY DEF Inv, Undisturbed
  <2>2. AbsCall(t) = R!Receiving(peer)
    BY <1>1, <1>2 DEF Unsent, AbsCall, R!Receiving
  <2> QED  BY <2>1, <2>2
<1>4. \A p \in Procs : AbsCall(p)' = IF p = t THEN R!Idle ELSE AbsCall(p)
  BY <1>1, <1>2 DEF Unsent, AbsCall, R!Idle
<1>5. \A d \in Procs : AbsWaiting(d)' = AbsWaiting(d)
  BY DEF Unsent, AbsWaiting
<1>6. /\ buf' = [buf EXCEPT ![t] = R!HardInt]
      /\ has_int_msg' = [has_int_msg EXCEPT ![t] = FALSE]
  BY <1>1 DEF HardInt, R!HardInt
<1>7. {p \in Procs : has_int_msg'[p]} = {p \in Procs : has_int_msg[p]} \ {t}
  <2>1. has_int_msg \in [Procs -> BOOLEAN]
    BY DEF Inv, IInv, TypeOK
  <2>2. \A p \in Procs : has_int_msg'[p] = IF p = t THEN FALSE ELSE has_int_msg[p]
    BY <1>6, <2>1, Zenon
  <2> QED  BY <2>2
<1>8. R!TakeInterrupt(t)
  <2>1. [p \in Procs |-> AbsCall(p)']
            = [[p \in Procs |-> AbsCall(p)] EXCEPT ![t] = R!Idle]
    BY <1>4
  <2>2. [d \in Procs |-> AbsWaiting(d)'] = [d \in Procs |-> AbsWaiting(d)]
    BY <1>5
  <2>3. [p \in Procs |-> AbsCall(p)][t] = AbsCall(t)
    BY <1>2
  <2> QED  BY <1>3, <1>6, <1>7, <2>1, <2>2, <2>3 DEF R!TakeInterrupt
<1> QED  BY <1>8 DEF R!Next

\* An interrupt ends the receive of the task it finds waiting for it; if the
\* message of a sender has just been copied, it takes that one's place.
LEMMA WakesWaiting ==
    ASSUME Inv, NEW t \in IntTasks, InformWaiting(t)
    PROVE  R!Next \/ (NestedInts /\ R!Collide) \/ Same
<1> USE IpcAssumption
<1>1. /\ t \in Procs /\ p_flags[t] = {RECEIVING}
      /\ p_recvfrom[t] \in {INTERRUPT, ANY}
      /\ t = cur => kpc = "recvCheck"
      /\ has_int_msg[t] => kpc = "recvCheck"
      /\ p_msg[t] <=> ~(kpc = "sendUnblock" /\ t = peer)
      /\ UNCHANGED <<p_sendto, q_sending, kpc, cur, peer>>
      /\ kpc = "user" \/ (NestedInts /\ kpc \notin Panics)
  BY Wakes
<1>2. /\ p_flags' = [p_flags EXCEPT ![t] = {}]
      /\ p_recvfrom' = [p_recvfrom EXCEPT ![t] = NO_TASK]
  BY Wakes
<1>3. /\ buf' = IF p_msg[t] THEN [buf EXCEPT ![t] = R!HardInt] ELSE buf
      /\ has_int_msg' = [has_int_msg EXCEPT ![t] = FALSE]
  BY DEF InformWaiting, HardInt, R!HardInt
<1>4. ASSUME NEW p \in Procs
      PROVE  AbsCall(p)' = IF p = t THEN R!Idle ELSE AbsCall(p)
  <2>1. CASE p = t
    <3>1. p_flags'[p] = {}
      BY <1>1, <1>2, <2>1 DEF Inv, IInv, TypeOK
    <3> QED  BY <1>1, <2>1, <3>1 DEF Unsent, AbsCall, R!Idle
  <2>2. CASE p # t
    <3>1. p_flags'[p] = p_flags[p] /\ p_recvfrom'[p] = p_recvfrom[p]
      BY <1>2, <2>2 DEF Inv, IInv, TypeOK
    <3> QED  BY <1>1, <2>2, <3>1 DEF Unsent, AbsCall
  <2> QED  BY <2>1, <2>2
<1>5. \A d \in Procs : AbsWaiting(d)' = AbsWaiting(d)
  BY <1>1 DEF Unsent, AbsWaiting
<1>6. {p \in Procs : has_int_msg'[p]} = {p \in Procs : has_int_msg[p]} \ {t}
  BY <1>1, <1>3 DEF Inv, IInv, TypeOK
<1>7. CASE ~(t = peer /\ kpc \in {"sendClear", "sendUnblock"})
  <2>1. AbsCall(t) \in {R!Receiving(ANY), R!Receiving(INTERRUPT)}
    BY <1>1, <1>7 DEF Unsent, AbsCall, R!Receiving
  <2>2. buf' = [buf EXCEPT ![t] = R!HardInt]
    BY <1>1, <1>3, <1>7
  <2>3. [p \in Procs |-> AbsCall(p)']
            = [[p \in Procs |-> AbsCall(p)] EXCEPT ![t] = R!Idle]
    BY <1>4
  <2>4. [d \in Procs |-> AbsWaiting(d)'] = [d \in Procs |-> AbsWaiting(d)]
    BY <1>5
  <2>5. [p \in Procs |-> AbsCall(p)][t] = AbsCall(t)
    BY <1>1
  <2>6. R!TakeInterrupt(t)
    BY <1>6, <2>1, <2>2, <2>3, <2>4, <2>5 DEF R!TakeInterrupt
  <2> QED  BY <2>6 DEF R!Next
<1>8. CASE t = peer /\ kpc \in {"sendClear", "sendUnblock"}
  <2>1. AbsCall(t) = R!Idle /\ ~has_int_msg[t]
    BY <1>1, <1>8 DEF Unsent, AbsCall, R!Idle
  <2>2. \A p \in Procs : AbsCall(p)' = AbsCall(p)
    BY <1>4, <2>1
  <2>3. has_int_msg' = has_int_msg
    BY <1>1, <1>3, <2>1 DEF Inv, IInv, TypeOK
  <2>4. CASE kpc = "sendUnblock"
    BY <1>1, <1>3, <1>5, <1>8, <2>2, <2>3, <2>4 DEF Same
  <2>5. CASE kpc = "sendClear"
    <3>1. buf[t].source \in Procs \ {t} /\ AbsCall(buf[t].source) = R!Idle
      <4>1. cur \in Procs /\ buf[t].source = cur /\ cur # t /\ p_flags[cur] = {}
        BY <1>1, <1>8, <2>5 DEF Inv, IInv, CallOK, SendPcs, Undisturbed, AtRest
      <4>2. AbsCall(cur) = R!Idle
        BY <2>5, <4>1 DEF Unsent, AbsCall, R!Idle
      <4> QED  BY <4>1, <4>2
    <3>2. buf' = [buf EXCEPT ![t] = R!HardInt]
      BY <1>1, <1>3, <2>5
    <3>3. /\ [p \in Procs |-> AbsCall(p)][t] = R!Idle
          /\ [p \in Procs |-> AbsCall(p)][buf[t].source] = R!Idle
      BY <1>1, <2>1, <3>1
    <3>4. UNCHANGED <<[p \in Procs |-> AbsCall(p)], [d \in Procs |-> AbsWaiting(d)],
                      {p \in Procs : has_int_msg[p]}>>
      BY <1>5, <2>2, <2>3
    <3>5. R!OverwriteMessage(t)
      BY <3>1, <3>2, <3>3, <3>4 DEF R!OverwriteMessage
    <3> QED  BY <1>1, <2>5, <3>5 DEF R!Collide
  <2> QED  BY <1>8, <2>4, <2>5
<1> QED  BY <1>7, <1>8

\* An interrupt that finds its task busy is pending from then on.
LEMMA BecomesPending ==
    ASSUME Inv, NEW t \in IntTasks, InformBusy(t)
    PROVE  R!Next
<1> USE IpcAssumption DEF InformBusy
<1>1. /\ \A p \in Procs : AbsCall(p)' = AbsCall(p)
      /\ \A d \in Procs : AbsWaiting(d)' = AbsWaiting(d)
  BY DEF Unsent, AbsCall, AbsWaiting
<1>2. {p \in Procs : has_int_msg'[p]} = {p \in Procs : has_int_msg[p]} \cup {t}
  BY DEF Inv, IInv, TypeOK
<1>3. R!Raise(t)
  BY <1>1, <1>2 DEF R!Raise
<1> QED  BY <1>3 DEF R!Next

----------------------------------------------------------------------------

\* The initial states are initial states of Rendezvous.
LEMMA InitMaps == Init => R!Init
<1> SUFFICES ASSUME Init PROVE R!Init
  OBVIOUS
<1>1. \A p \in Procs : AbsCall(p) = R!Idle /\ AbsWaiting(p) = <<>>
  BY IpcAssumption DEF Init, AbsCall, AbsWaiting, R!Idle
<1>2. {p \in Procs : has_int_msg[p]} = {}
  BY DEF Init
<1> QED  BY <1>1, <1>2 DEF Init, R!Init

\* Every step is a step of Rendezvous or a collision with an interrupt, or
\* changes nothing it knows of.
LEMMA StepMaps ==
    ASSUME Inv, Inv', [Next]_vars
    PROVE  [R!Next \/ (NestedInts /\ R!Collide)]_(R!vars)
<1>1. CASE Calls
  BY <1>1, StartsSend, StartsReceive DEF Calls
<1>2. CASE SendDeadlock \/ SendReady \/ SendCheck \/ SendClear
  BY <1>2, SendsQuietly, SameStutters
<1>3. CASE SendBlock
  BY <1>3, BlocksQuietly, SameStutters
<1>4. CASE SendCopy
  BY <1>4, SendHandsOver, SendLoses
<1>5. CASE SendUnblock
  BY <1>5, UnblocksQuietly, SameStutters
<1>6. CASE RecvTest \/ RecvIntCheck \/ RecvNone \/ RecvBlock \/ RecvCheck
  BY <1>6, ReceivesQuietly, SameStutters
<1>7. CASE RecvInt
  BY <1>7, TakesPending
<1>8. CASE RecvFetch
  BY <1>8, FetchHandsOver
<1>9. CASE InformInt
  BY <1>9, WakesWaiting, BecomesPending, SameStutters DEF InformInt
<1>10. CASE Halted \/ UNCHANGED vars
  <2>1. Same
    BY <1>10 DEF Halted, vars, tableVars, Same, AbsCall, AbsWaiting
  <2> QED  BY <2>1, SameStutters
<1> QED
  BY <1>1, <1>2, <1>3, <1>4, <1>5, <1>6, <1>7, <1>8, <1>9, <1>10
     DEF Next, Send, Receive

\* The kernel's message passing implements Rendezvous, with interrupts anywhere
\* in its calls: every message is handed over exactly once, to a receiver that
\* asked for it, in the order of the senders when it asked for any, and no
\* interrupt is forgotten; what is lost is at most a message that collides with
\* an interrupt for its receiver, and nothing if interrupts do not nest.
THEOREM KernelImplementsRendezvous == Spec => ImplementsRendezvous
<1>1. Inv /\ Inv' /\ [Next]_vars
        => [R!Next \/ (NestedInts /\ R!Collide)]_(R!vars)
  BY StepMaps
<1> QED
  BY AllInvariant, InitMaps, <1>1, PTL DEF Spec, ImplementsRendezvous

=============================================================================
