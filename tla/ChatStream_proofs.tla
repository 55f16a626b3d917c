-------------------------- MODULE ChatStream_proofs --------------------------
(***************************************************************************)
(* A streamed request of any length, on a socket that may take, cut and     *)
(* refuse whatever it likes: what the request's three threads keep in order.*)
(***************************************************************************)
EXTENDS ChatStream, SequenceFacts, FiniteSetTheorems, SequenceTheorems, TLAPS

BlockSet ==
    [kind : {"header", "chunk", "error", "done", "end"},
     content : Seq(Token), reasoning : Seq(Token)]

SaveSet == {Saves[i] : i \in 1 .. 3}

\* A delta with a piece of LLM call n.
OfTurn(delta, n) == \E k \in DOMAIN delta : delta[k][1] = n

-----------------------------------------------------------------------------
(* Lemmas about sequences.                                                  *)

\* The statements of a callback are run from the first to the last.
LEMMA Suffix ==
    ASSUME NEW S, NEW s \in Seq(S), NEW k \in 1 .. Len(s)
    PROVE  /\ SubSeq(s, k, Len(s)) # <<>>
           /\ Head(SubSeq(s, k, Len(s))) = s[k]
           /\ Tail(SubSeq(s, k, Len(s))) = SubSeq(s, k + 1, Len(s))
<1> DEFINE rest == SubSeq(s, k, Len(s))
<1>1. /\ rest \in Seq(S) /\ Len(rest) = Len(s) - k + 1
      /\ \A i \in 1 .. Len(rest) : rest[i] = s[k + i - 1]
  BY SubSeqProperties
<1>2. Len(s) \in Nat /\ rest # <<>> /\ Head(rest) = s[k]
  <2>1. Len(s) \in Nat
    BY LenProperties
  <2>2. Len(rest) \in Nat \ {0} /\ rest[1] = s[k]
    BY <1>1, <2>1
  <2>3. rest # <<>>
    BY <1>1, <2>2, EmptySeq
  <2> QED
    BY <1>1, <2>1, <2>2, <2>3, HeadTailProperties
<1>3. /\ Tail(rest) \in Seq(S) /\ Len(Tail(rest)) = Len(s) - k
      /\ \A i \in 1 .. Len(Tail(rest)) : Tail(rest)[i] = s[k + i]
  BY <1>1, <1>2, HeadTailProperties
<1>4. /\ SubSeq(s, k + 1, Len(s)) \in Seq(S)
      /\ Len(SubSeq(s, k + 1, Len(s))) = Len(s) - k
      /\ \A i \in 1 .. Len(s) - k : SubSeq(s, k + 1, Len(s))[i] = s[k + i]
  <2>1. /\ k + 1 \in 1 .. Len(s) + 1 /\ Len(s) \in k .. Len(s)
        /\ \A i \in 1 .. Len(s) - k : k + 1 + i - 1 = k + i
    BY <1>2
  <2> QED
    BY <1>2, <2>1, SubSeqProperties
<1>5. Tail(rest) = SubSeq(s, k + 1, Len(s))
  BY <1>3, <1>4, SeqEqual
<1> QED
  BY <1>2, <1>5

LEMMA NoSuffix ==
    ASSUME NEW S, NEW s \in Seq(S)
    PROVE  SubSeq(s, Len(s) + 1, Len(s)) = <<>> /\ SubSeq(s, 1, Len(s)) = s
<1>1. Len(s) \in Nat
  BY LenProperties
<1>2. Len(SubSeq(s, Len(s) + 1, Len(s))) = 0
  BY <1>1, SubSeqProperties
<1>3. SubSeq(s, Len(s) + 1, Len(s)) \in Seq(S)
  BY <1>1, SubSeqProperties
<1>4. SubSeq(s, 1, Len(s)) \in Seq(S) /\ Len(SubSeq(s, 1, Len(s))) = Len(s)
      /\ \A i \in 1 .. Len(s) : SubSeq(s, 1, Len(s))[i] = s[i]
  BY <1>1, SubSeqProperties
<1>5. SubSeq(s, 1, Len(s)) = s
  BY <1>4, SeqEqual
<1> QED
  BY <1>2, <1>3, <1>5, EmptySeq

LEMMA LastOne ==
    ASSUME NEW S, NEW s \in Seq(S), NEW k \in 1 .. Len(s)
    PROVE  SubSeq(s, k, k) = <<s[k]>>
<1>1. k \in Int /\ s[k] \in S /\ \A i \in k .. k : i = k
  BY LenProperties
<1>2. /\ SubSeq(s, k, k) \in Seq(S) /\ Len(SubSeq(s, k, k)) = k - k + 1
      /\ \A i \in 1 .. k - k + 1 : SubSeq(s, k, k)[i] = s[k + i - 1]
  BY <1>1, SubSeqProperties
<1>3. /\ Len(SubSeq(s, k, k)) = 1 /\ SubSeq(s, k, k)[1] = s[k]
  BY <1>1, <1>2
<1>4. <<s[k]>> \in Seq(S) /\ Len(<<s[k]>>) = 1 /\ <<s[k]>>[1] = s[k]
  BY <1>1
<1>5. \A i \in 1 .. 1 : i = 1
  OBVIOUS
<1> QED
  BY <1>2, <1>3, <1>4, <1>5, SeqEqual

\* A task put to the front of a series moves the others one place.
LEMMA Front ==
    ASSUME NEW S, NEW s \in Seq(S), NEW x \in S
    PROVE  /\ <<x>> \o s \in Seq(S) /\ Len(<<x>> \o s) = Len(s) + 1
           /\ (<<x>> \o s)[1] = x
           /\ \A i \in 1 .. Len(s) : (<<x>> \o s)[i + 1] = s[i]
<1>1. <<x>> \in Seq(S) /\ Len(<<x>>) = 1 /\ <<x>>[1] = x
  OBVIOUS
<1>2. Len(s) \in Nat
  BY LenProperties
<1> QED
  BY <1>1, <1>2, ConcatProperties

-----------------------------------------------------------------------------
(* What PushWithRetry and its retries keep.                                 *)

LEMMA RemainingType ==
    ASSUME NEW nleft \in Nat, NEW r \in Int
    PROVE  Remaining(nleft, r) \in Nat
<1>1. Wrap(r) \in Nat
  BY BoundAssumption DEF Wrap
<1>2. Wrap(nleft - Wrap(r)) \in Nat
  BY <1>1, BoundAssumption DEF Wrap
<1> QED
  BY <1>2, BoundAssumption DEF Remaining

-----------------------------------------------------------------------------
(***************************************************************************)
(* The inductive invariant.                                                 *)
(*                                                                          *)
(* The tasks of the series are counted from the one that is running, which  *)
(* is number 0.                                                             *)
(***************************************************************************)
At(i) == IF i = 0 THEN current ELSE queue[i]

InSeries == 0 .. Len(queue)

\* A timer task belongs to a block that was pushed.
TimersKnown ==
    \A i \in InSeries : At(i).kind = "timer" => At(i).block \in 1 .. Len(blocks)

\* Before the LRANGE callback returns its task holds the series, and it pushes
\* the first block; when the series is over nothing is left in it.
Handler ==
    /\ handler # "returned" => current = Task("lrange") /\ ~finished
    /\ handler = "returned" => current.kind # "lrange"
    /\ handler = "load" <=> outcome = "idle"
    /\ handler = "load" <=> blocks = <<>>
    /\ \A i \in 1 .. Len(queue) : queue[i].kind \notin {"lrange", "idle"}
    /\ finished => current = Idle /\ queue = <<>> /\ wg = 0

\* agent_wait is in the series until the agent has signalled.
WaitThere ==
    handler = "returned" /\ wg = 1 => \E i \in InSeries : At(i).kind = "agent_wait"

\* Of the saving tasks the first n have been queued: those that have not run
\* yet are in the series, each once and in their order.
Saving(n) ==
    /\ Len(commands) <= n
    /\ \A i \in 1 .. Len(commands) : commands[i] = Saves[i]
    /\ \A i \in InSeries, m \in 1 .. 3 :
          At(i).kind = Saves[m] => m \in Len(commands) + 1 .. n
    /\ \A i, j \in InSeries, m, o \in 1 .. 3 :
          i < j /\ At(i).kind = Saves[m] /\ At(j).kind = Saves[o] => m < o
    /\ \A m \in Len(commands) + 1 .. n :
          \E i \in InSeries : At(i).kind = Saves[m]

\* The header is the first block and no other, the end is behind [DONE].
Open == \A i \in 1 .. Len(blocks) : blocks[i].kind # "end"

Last(kind) == blocks # <<>> /\ blocks[Len(blocks)].kind = kind

Shape ==
    /\ \A i \in 1 .. Len(blocks) : blocks[i].kind = "header" <=> i = 1
    /\ \A i \in 1 .. Len(blocks) : blocks[i].kind = "end" =>
          /\ i = Len(blocks) /\ i - 1 \in 1 .. Len(blocks)
          /\ blocks[i - 1].kind = "done"

\* The callback is about to do statement k of its body, in which [DONE] is
\* statement number done; delete and signal are the last two.
Doing(body, k, done) ==
    /\ callback = SubSeq(body, k, Len(body))
    /\ wg = IF k <= Len(body) THEN 1 ELSE 0
    /\ ctx = IF k < Len(body) THEN "live" ELSE "freed"
    /\ k <= done + 1 => Open
    /\ k = done + 1 => Last("done")
    /\ k > done + 1 => Last("end")

\* The saving tasks that the complete callback has queued before statement k.
Queued(k) == IF k <= 3 THEN 0 ELSE IF k <= 6 THEN k - 3 ELSE 3

NotEnded ==
    /\ outcome \in {"idle", "running"} /\ callback = <<>>
    /\ wg = 1 /\ ctx = "live" /\ Open /\ Saving(0)

Completing(k) == outcome = "complete" /\ Doing(CompleteBody, k, 1) /\ Saving(Queued(k))

Failing(k) == outcome = "error" /\ Doing(ErrorBody, k, 2) /\ Saving(0)

Phase ==
    \/ NotEnded
    \/ \E k \in 1 .. 8 : Completing(k)
    \/ \E k \in 1 .. 6 : Failing(k)

IInv == TypeOK /\ TimersKnown /\ Handler /\ WaitThere /\ Shape /\ Phase

-----------------------------------------------------------------------------
(* Types and writes.                                                        *)

\* One write: some bytes of a known block go to the socket, or none.
LEMMA Write ==
    ASSUME TypeOK, NEW b, NEW pos \in Int, NEW n \in Nat, NEW r \in -1 .. n,
           HttpPush(b, pos, n, r), NEW m \in Nat, b \in 1 .. m, Len(blocks) <= m
    PROVE  /\ wire' \in Seq((1 .. m) \X Int)
           /\ connected' \in BOOLEAN /\ stalls' \in 0 .. MaxStalls
           /\ refused' \in BOOLEAN
<1>1. /\ wire \in Seq((1 .. Len(blocks)) \X Int) /\ Len(blocks) \in Nat
      /\ connected \in BOOLEAN /\ stalls \in 0 .. MaxStalls /\ refused \in BOOLEAN
  BY LenProperties DEF TypeOK
<1>2. wire \in Seq((1 .. m) \X Int)
  <2>1. (1 .. Len(blocks)) \X Int \subseteq (1 .. m) \X Int
    BY <1>1
  <2> QED
    BY <1>1, <2>1
<1>3. ASSUME NEW l \in Nat PROVE Bytes(b, pos, l) \in Seq((1 .. m) \X Int)
  <2>1. \A i \in 1 .. l : <<b, pos + i>> \in (1 .. m) \X Int
    OBVIOUS
  <2> QED
    BY <2>1 DEF Bytes
<1>4. \/ wire' = wire
      \/ r \in Nat /\ wire' = wire \o Bytes(b, pos, r)
      \/ wire' = wire \o Bytes(b, pos, n)
  BY DEF HttpPush
<1>5. wire' \in Seq((1 .. m) \X Int)
  <2>1. ASSUME NEW l \in Nat PROVE wire \o Bytes(b, pos, l) \in Seq((1 .. m) \X Int)
    BY <1>2, <1>3, ConcatProperties
  <2> QED
    BY <1>2, <1>4, <2>1
<1>6. connected' \in BOOLEAN /\ refused' \in BOOLEAN
  <2>1. connected' \in {connected, FALSE} /\ refused' \in {refused, TRUE}
    BY DEF HttpPush
  <2> QED
    BY <1>1, <2>1
<1>7. stalls' \in 0 .. MaxStalls
  <2>1. stalls' = stalls \/ (stalls < MaxStalls /\ stalls' = stalls + 1)
    BY DEF HttpPush
  <2> QED
    BY <1>1, <2>1, BoundAssumption
<1> QED
  BY <1>5, <1>6, <1>7

\* A retry is at most a timer task in front.
LEMMA Retried ==
    ASSUME NEW s \in Seq(Tasks), NEW b \in Nat, NEW nleft \in Nat
    PROVE  /\ Retrying(b, nleft, s) \in Seq(Tasks)
           /\ \/ Retrying(b, nleft, s) = s
              \/ /\ Retrying(b, nleft, s) = <<Timer(b, nleft)>> \o s
                 /\ Timer(b, nleft) \in Tasks
                 /\ Timer(b, nleft).kind = "timer" /\ Timer(b, nleft).block = b
<1>1. /\ Timer(b, nleft) \in Tasks /\ Timer(b, nleft).kind = "timer"
      /\ Timer(b, nleft).block = b
  BY DEF Timer, Tasks, Kinds
<1>2. <<Timer(b, nleft)>> \o s \in Seq(Tasks)
  BY <1>1, Front
<1> QED
  BY <1>1, <1>2 DEF Retrying

\* The series of a push.
Grown(block) ==
    \/ queue' = queue
    \/ \E t \in Tasks :
          t.kind = "timer" /\ t.block = block /\ queue' = <<t>> \o queue

LEMMA Pushed ==
    ASSUME TypeOK, NEW block \in BlockSet, PushWithRetry(block)
    PROVE  /\ blocks' = Append(blocks, block) /\ blocks' \in Seq(BlockSet)
           /\ Len(blocks) \in Nat /\ Len(blocks') = Len(blocks) + 1
           /\ queue' \in Seq(Tasks) /\ Grown(Len(blocks) + 1)
           /\ wire' \in Seq((1 .. Len(blocks')) \X Int)
           /\ connected' \in BOOLEAN /\ stalls' \in 0 .. MaxStalls
           /\ refused' \in BOOLEAN
<1>1. blocks \in Seq(BlockSet) /\ queue \in Seq(Tasks)
  BY DEF TypeOK, BlockSet
<1>2. /\ blocks' = Append(blocks, block) /\ blocks' \in Seq(BlockSet)
      /\ Len(blocks) \in Nat /\ Len(blocks') = Len(blocks) + 1
  BY <1>1, AppendProperties, LenProperties DEF PushWithRetry
<1>3. PICK r \in -1 .. Size :
          /\ HttpPush(Len(blocks) + 1, 0, Size, r)
          /\ queue' = Retrying(Len(blocks) + 1, Remaining(Size, r), queue)
  BY DEF PushWithRetry
<1>4. Remaining(Size, r) \in Nat
  BY RemainingType, BoundAssumption
<1>5. queue' \in Seq(Tasks) /\ Grown(Len(blocks) + 1)
  <2> DEFINE b == Len(blocks) + 1
             nleft == Remaining(Size, r)
  <2>1. b \in Nat /\ nleft \in Nat
    BY <1>2, <1>4
  <2>2. /\ Retrying(b, nleft, queue) \in Seq(Tasks)
        /\ \/ Retrying(b, nleft, queue) = queue
           \/ /\ Retrying(b, nleft, queue) = <<Timer(b, nleft)>> \o queue
              /\ Timer(b, nleft) \in Tasks
              /\ Timer(b, nleft).kind = "timer" /\ Timer(b, nleft).block = b
    BY <1>1, <2>1, Retried
  <2> QED
    BY <1>3, <2>2 DEF Grown
<1>6. /\ wire' \in Seq((1 .. Len(blocks')) \X Int)
      /\ connected' \in BOOLEAN /\ stalls' \in 0 .. MaxStalls
      /\ refused' \in BOOLEAN
  <2>1. /\ Len(blocks) + 1 \in 1 .. Len(blocks) + 1 /\ Len(blocks) + 1 \in Nat
        /\ Len(blocks) <= Len(blocks) + 1 /\ Size \in Nat /\ 0 \in Int
    BY <1>2, BoundAssumption
  <2> QED
    BY <1>2, <1>3, <2>1, Write
<1> QED
  BY <1>2, <1>5, <1>6

-----------------------------------------------------------------------------
(* The saving tasks, while others come and go in the series.                *)

LEMMA SaveKinds ==
    /\ \A m \in 1 .. 3 : Saves[m] \notin {"idle", "lrange", "agent_wait", "timer"}
    /\ \A m, o \in 1 .. 3 : Saves[m] = Saves[o] => m = o
    /\ \A m \in 1 .. 3 : Saves[m] \in SaveSet
    /\ Idle.kind = "idle" /\ Task("lrange").kind = "lrange"
<1>1. Saves[1] = "rpush user" /\ Saves[2] = "rpush assistant" /\ Saves[3] = "ltrim"
  BY DEF Saves
<1>2. \A m \in 1 .. 3 : m = 1 \/ m = 2 \/ m = 3
  OBVIOUS
<1> QED
  BY <1>1, <1>2 DEF SaveSet, Idle, Task

\* The series has d tasks more in front, which are timers of a block.
Shifted(d, block) ==
    /\ Len(queue') = Len(queue) + d
    /\ \A i \in 1 .. Len(queue) : i + d \in 1 .. Len(queue') /\ queue'[i + d] = queue[i]
    /\ \A j \in 1 .. Len(queue') :
          \/ j > d /\ j - d \in 1 .. Len(queue) /\ queue'[j] = queue[j - d]
          \/ j <= d /\ queue'[j].kind = "timer" /\ queue'[j].block = block

LEMMA GrownShifted ==
    ASSUME queue \in Seq(Tasks), NEW block, Grown(block)
    PROVE  \E d \in {0, 1} : Shifted(d, block)
<1>1. Len(queue) \in Nat
  BY LenProperties
<1>2. CASE queue' = queue
  <2>1. \A i \in 1 .. Len(queue) : i + 0 = i /\ i - 0 = i
    BY <1>1
  <2>2. Shifted(0, block)
    BY <1>1, <1>2, <2>1 DEF Shifted
  <2> QED
    BY <2>2
<1>3. ASSUME NEW t \in Tasks, t.kind = "timer", t.block = block, queue' = <<t>> \o queue
      PROVE  Shifted(1, block)
  <2>1. /\ Len(queue') = Len(queue) + 1 /\ queue'[1] = t
        /\ \A i \in 1 .. Len(queue) : queue'[i + 1] = queue[i]
    BY <1>3, Front
  <2>2. \A j \in 1 .. Len(queue') :
           \/ j = 1
           \/ j > 1 /\ j - 1 \in 1 .. Len(queue) /\ (j - 1) + 1 = j
    BY <1>1, <2>1
  <2>3. \A i \in 1 .. Len(queue) : i + 1 \in 1 .. Len(queue')
    BY <1>1, <2>1
  <2> QED
    BY <1>3, <2>1, <2>2, <2>3 DEF Shifted
<1> QED
  BY <1>2, <1>3 DEF Grown

LEMMA SavesShift ==
    ASSUME NEW n \in 0 .. 3, Saving(n), commands \in Seq(SaveSet),
           queue \in Seq(Tasks), queue' \in Seq(Tasks),
           NEW d \in {0, 1}, NEW block, Shifted(d, block),
           current' = current \/ (current' = Idle /\ current.kind \notin SaveSet),
           commands' = commands
    PROVE  Saving(n)'
<1>1. Len(queue) \in Nat /\ Len(queue') \in Nat
  BY LenProperties
<1>2. \A j \in InSeries', m \in 1 .. 3 : At(j)'.kind = Saves[m] =>
         \/ j = 0 /\ current.kind = Saves[m]
         \/ j > d /\ j - d \in 1 .. Len(queue) /\ queue[j - d].kind = Saves[m]
  <2> SUFFICES ASSUME NEW j \in InSeries', NEW m \in 1 .. 3, At(j)'.kind = Saves[m]
               PROVE  \/ j = 0 /\ current.kind = Saves[m]
                      \/ /\ j > d /\ j - d \in 1 .. Len(queue)
                         /\ queue[j - d].kind = Saves[m]
    OBVIOUS
  <2>1. CASE j = 0
    <3>1. current'.kind = Saves[m]
      BY <2>1 DEF At
    <3> QED
      BY <2>1, <3>1, SaveKinds
  <2>2. CASE j # 0
    <3>1. j \in 1 .. Len(queue') /\ queue'[j].kind = Saves[m]
      BY <1>1, <2>2 DEF At, InSeries
    <3> QED
      BY <3>1, SaveKinds DEF Shifted
  <2> QED
    BY <2>1, <2>2
<1>3. \A i \in InSeries, m \in 1 .. 3 : At(i).kind = Saves[m] =>
         \E j \in InSeries' : At(j)'.kind = Saves[m]
  <2> SUFFICES ASSUME NEW i \in InSeries, NEW m \in 1 .. 3, At(i).kind = Saves[m]
               PROVE  \E j \in InSeries' : At(j)'.kind = Saves[m]
    OBVIOUS
  <2>1. CASE i = 0
    <3>1. 0 \in InSeries' /\ At(0)' = current
      BY <1>1, <2>1, SaveKinds DEF At, InSeries
    <3> QED
      BY <2>1, <3>1 DEF At
  <2>2. CASE i # 0
    <3>1. i \in 1 .. Len(queue) /\ i + d # 0
      BY <1>1, <2>2 DEF InSeries
    <3>2. i + d \in InSeries' /\ At(i + d)' = At(i)
      BY <1>1, <2>2, <3>1 DEF At, InSeries, Shifted
    <3> QED
      BY <3>2
  <2> QED
    BY <2>1, <2>2
<1>4. \A j \in InSeries', m \in 1 .. 3 : At(j)'.kind = Saves[m] =>
         m \in Len(commands) + 1 .. n
  <2> SUFFICES ASSUME NEW j \in InSeries', NEW m \in 1 .. 3, At(j)'.kind = Saves[m]
               PROVE  m \in Len(commands) + 1 .. n
    OBVIOUS
  <2>1. \A i \in InSeries : At(i).kind = Saves[m] => m \in Len(commands) + 1 .. n
    BY DEF Saving
  <2>2. CASE j = 0 /\ current.kind = Saves[m]
    BY <1>1, <2>1, <2>2 DEF At, InSeries
  <2>3. CASE j > d /\ j - d \in 1 .. Len(queue) /\ queue[j - d].kind = Saves[m]
    <3>1. j - d \in InSeries /\ At(j - d).kind = Saves[m]
      BY <1>1, <2>3 DEF At, InSeries
    <3> QED
      BY <2>1, <3>1
  <2> QED
    BY <1>2, <2>2, <2>3
<1>5. \A i, j \in InSeries', m, o \in 1 .. 3 :
         i < j /\ At(i)'.kind = Saves[m] /\ At(j)'.kind = Saves[o] => m < o
  <2> SUFFICES ASSUME NEW i \in InSeries', NEW j \in InSeries',
                      NEW m \in 1 .. 3, NEW o \in 1 .. 3, i < j,
                      At(i)'.kind = Saves[m], At(j)'.kind = Saves[o]
               PROVE  m < o
    OBVIOUS
  <2>1. j > d /\ j - d \in InSeries /\ At(j - d).kind = Saves[o] /\ j - d > 0
    BY <1>1, <1>2, SMTT(30) DEF At, InSeries
  <2>2. CASE i = 0
    <3>1. At(0).kind = Saves[m] /\ 0 \in InSeries
      BY <1>1, <1>2, <2>2, SMTT(30) DEF At, InSeries
    <3> QED
      BY <2>1, <3>1 DEF Saving
  <2>3. CASE i # 0
    <3>1. i - d \in InSeries /\ At(i - d).kind = Saves[m] /\ i - d < j - d
      BY <1>1, <1>2, <2>3, SMTT(30) DEF At, InSeries
    <3> QED
      BY <2>1, <3>1 DEF Saving
  <2> QED
    BY <2>2, <2>3
<1>6. \A m \in Len(commands) + 1 .. n : \E i \in InSeries' : At(i)'.kind = Saves[m]
  <2>1. \A m \in Len(commands) + 1 .. n : m \in 1 .. 3
    BY LenProperties
  <2> QED
    BY <1>3, <2>1 DEF Saving
<1> QED
  BY <1>4, <1>5, <1>6 DEF Saving

\* A further saving task, or none, is queued.
LEMMA SavesAppend ==
    ASSUME NEW n \in 0 .. 3, NEW e \in {n, n + 1}, e \in 0 .. 3, Saving(n),
           commands \in Seq(SaveSet), queue \in Seq(Tasks), NEW t \in Tasks, queue' = Append(queue, t),
           IF e = n THEN t.kind \notin SaveSet ELSE t.kind = Saves[e],
           current' = current \/ (current' = Idle /\ current.kind \notin SaveSet),
           commands' = commands
    PROVE  Saving(e)'
<1>1. /\ Len(queue) \in Nat /\ Len(queue') = Len(queue) + 1
      /\ \A i \in 1 .. Len(queue) : queue'[i] = queue[i]
      /\ queue'[Len(queue) + 1] = t
  BY AppendProperties, LenProperties
<1>0. PICK new \in Nat : new = Len(queue) + 1
  BY <1>1
<1>2. /\ \A i \in InSeries' : i \in InSeries \/ i = new
      /\ \A i \in InSeries : i \in InSeries' /\ i < new
      /\ new \in InSeries' /\ new # 0
  BY <1>0, <1>1 DEF InSeries
<1>3. At(new)' = t
  BY <1>0, <1>1, <1>2 DEF At
<1>4. \A i \in InSeries, m \in 1 .. 3 : At(i)'.kind = Saves[m] <=> At(i).kind = Saves[m]
  BY <1>1, SaveKinds DEF At, InSeries
<1>5. \A i \in InSeries', m \in 1 .. 3 : At(i)'.kind = Saves[m] =>
         \/ i \in InSeries /\ At(i).kind = Saves[m]
         \/ i = new /\ m = e /\ e = n + 1
  BY <1>2, <1>3, <1>4, SaveKinds
<1>6. \A i \in InSeries', m \in 1 .. 3 : At(i)'.kind = Saves[m] =>
         m \in Len(commands) + 1 .. e
  <2>1. Len(commands) \in Nat /\ Len(commands) <= n
    BY LenProperties DEF Saving
  <2> QED
    BY <1>5, <2>1 DEF Saving
<1>7. \A i, j \in InSeries', m, o \in 1 .. 3 :
         i < j /\ At(i)'.kind = Saves[m] /\ At(j)'.kind = Saves[o] => m < o
  <2> SUFFICES ASSUME NEW i \in InSeries', NEW j \in InSeries',
                      NEW m \in 1 .. 3, NEW o \in 1 .. 3, i < j,
                      At(i)'.kind = Saves[m], At(j)'.kind = Saves[o]
               PROVE  m < o
    OBVIOUS
  <2>1. i \in InSeries /\ At(i).kind = Saves[m]
    BY <1>0, <1>1, <1>2, <1>5 DEF InSeries
  <2>2. CASE j \in InSeries /\ At(j).kind = Saves[o]
    BY <2>1, <2>2 DEF Saving
  <2>3. CASE o = e /\ e = n + 1
    <3>1. m \in Len(commands) + 1 .. n
      BY <2>1 DEF Saving
    <3> QED
      BY <2>3, <3>1, LenProperties
  <2> QED
    BY <1>5, <2>2, <2>3
<1>8. \A m \in Len(commands) + 1 .. e : \E i \in InSeries' : At(i)'.kind = Saves[m]
  <2> SUFFICES ASSUME NEW m \in Len(commands) + 1 .. e
               PROVE  \E i \in InSeries' : At(i)'.kind = Saves[m]
    OBVIOUS
  <2>1. CASE m = n + 1
    BY <1>2, <1>3, <2>1
  <2>2. CASE m # n + 1
    <3>1. m \in Len(commands) + 1 .. n /\ m \in 1 .. 3
      BY <2>2, LenProperties
    <3>2. PICK i \in InSeries : At(i).kind = Saves[m]
      BY <3>1 DEF Saving
    <3> QED
      BY <1>2, <1>4, <3>1, <3>2
  <2> QED
    BY <2>1, <2>2
<1> QED
  BY <1>6, <1>7, <1>8 DEF Saving

\* The next task of the series starts.
LEMMA SavesNext ==
    ASSUME NEW n \in 0 .. 3, Saving(n), commands \in Seq(SaveSet),
           queue \in Seq(Tasks), queue # <<>>, current = Idle,
           current' = Head(queue), queue' = Tail(queue), commands' = commands
    PROVE  Saving(n)'
<1>1. /\ Len(queue) \in Nat \ {0} /\ Len(queue') = Len(queue) - 1
      /\ current' = queue[1] /\ \A i \in 1 .. Len(queue') : queue'[i] = queue[i + 1]
  BY HeadTailProperties, EmptySeq, LenProperties
<1>2. \A j \in InSeries' : j + 1 \in InSeries /\ At(j)' = At(j + 1)
  BY <1>1 DEF At, InSeries
<1>3. \A i \in InSeries, m \in 1 .. 3 : At(i).kind = Saves[m] =>
         i - 1 \in InSeries' /\ At(i - 1)'.kind = Saves[m]
  <2> SUFFICES ASSUME NEW i \in InSeries, NEW m \in 1 .. 3, At(i).kind = Saves[m]
               PROVE  i - 1 \in InSeries' /\ At(i - 1)'.kind = Saves[m]
    OBVIOUS
  <2>1. i # 0
    BY SaveKinds DEF At
  <2>2. i - 1 \in InSeries' /\ (i - 1) + 1 = i
    BY <1>1, <2>1 DEF InSeries
  <2> QED
    BY <1>2, <2>2
<1>4. \A j \in InSeries', m \in 1 .. 3 : At(j)'.kind = Saves[m] =>
         m \in Len(commands) + 1 .. n
  BY <1>2 DEF Saving
<1>5. \A i, j \in InSeries', m, o \in 1 .. 3 :
         i < j /\ At(i)'.kind = Saves[m] /\ At(j)'.kind = Saves[o] => m < o
  <2>1. \A i, j \in InSeries' : i < j => i + 1 < j + 1
    BY <1>1 DEF InSeries
  <2> QED
    BY <1>2, <2>1 DEF Saving
<1>6. \A m \in Len(commands) + 1 .. n : \E i \in InSeries' : At(i)'.kind = Saves[m]
  <2>1. \A m \in Len(commands) + 1 .. n : m \in 1 .. 3
    BY LenProperties
  <2> QED
    BY <1>3, <2>1 DEF Saving
<1> QED
  BY <1>4, <1>5, <1>6 DEF Saving

\* A saving task has run: it was the next one.
LEMMA SavesDone ==
    ASSUME NEW n \in 0 .. 3, Saving(n), commands \in Seq(SaveSet),
           queue \in Seq(Tasks), NEW m \in 1 .. 3, current.kind = Saves[m],
           current' = Idle, queue' = queue, commands' = Append(commands, current.kind)
    PROVE  Saving(n)' /\ commands' \in Seq(SaveSet)
<1>1. /\ Len(queue) \in Nat /\ Len(commands) \in Nat
      /\ commands' \in Seq(SaveSet) /\ Len(commands') = Len(commands) + 1
      /\ \A i \in 1 .. Len(commands) : commands'[i] = commands[i]
      /\ commands'[Len(commands) + 1] = Saves[m]
  BY AppendProperties, LenProperties, SaveKinds
<1>2. 0 \in InSeries /\ At(0).kind = Saves[m] /\ m \in Len(commands) + 1 .. n
  BY <1>1 DEF At, InSeries, Saving
<1>3. m = Len(commands) + 1
  <2> SUFFICES ASSUME m # Len(commands) + 1 PROVE FALSE
    OBVIOUS
  <2>1. PICK o \in 1 .. 3 : o = Len(commands) + 1 /\ o \in Len(commands) + 1 .. n /\ o < m
    BY <1>1, <1>2
  <2>2. PICK i \in InSeries : At(i).kind = Saves[o]
    BY <2>1 DEF Saving
  <2>3. i > 0
    BY <1>1, <1>2, <2>1, <2>2, SaveKinds DEF InSeries
  <2>4. m < o
    BY <1>2, <2>2, <2>3 DEF Saving
  <2> QED
    BY <2>1, <2>4
<1>4. \A i \in 1 .. Len(commands') : commands'[i] = Saves[i]
  BY <1>1, <1>3 DEF Saving
<1>5. \A i \in InSeries', o \in 1 .. 3 : At(i)'.kind = Saves[o] =>
         i \in InSeries /\ At(i).kind = Saves[o] /\ i > 0
  BY <1>1, SaveKinds DEF At, InSeries
<1>6. \A i \in InSeries, o \in 1 .. 3 : i # 0 /\ At(i).kind = Saves[o] =>
         i \in InSeries' /\ At(i)'.kind = Saves[o]
  BY <1>1 DEF At, InSeries
<1>7. \A i \in InSeries', o \in 1 .. 3 : At(i)'.kind = Saves[o] =>
         o \in Len(commands') + 1 .. n
  <2> SUFFICES ASSUME NEW i \in InSeries', NEW o \in 1 .. 3, At(i)'.kind = Saves[o]
               PROVE  o \in Len(commands') + 1 .. n
    OBVIOUS
  <2>1. m < o /\ o \in Len(commands) + 1 .. n
    BY <1>2, <1>5 DEF Saving
  <2> QED
    BY <1>1, <1>3, <2>1
<1>8. \A i, j \in InSeries', o, q \in 1 .. 3 :
         i < j /\ At(i)'.kind = Saves[o] /\ At(j)'.kind = Saves[q] => o < q
  BY <1>5 DEF Saving
<1>9. \A o \in Len(commands') + 1 .. n : \E i \in InSeries' : At(i)'.kind = Saves[o]
  <2> SUFFICES ASSUME NEW o \in Len(commands') + 1 .. n
               PROVE  \E i \in InSeries' : At(i)'.kind = Saves[o]
    OBVIOUS
  <2>1. o \in 1 .. 3 /\ o \in Len(commands) + 1 .. n /\ o # m
    BY <1>1, <1>3
  <2>2. PICK i \in InSeries : At(i).kind = Saves[o]
    BY <2>1 DEF Saving
  <2>3. i # 0
    BY <1>2, <2>1, <2>2, SaveKinds
  <2> QED
    BY <1>6, <2>1, <2>2, <2>3
<1>10. Len(commands') <= n
  BY <1>1, <1>2, <1>3
<1> QED
  BY <1>1, <1>4, <1>7, <1>8, <1>9, <1>10 DEF Saving

-----------------------------------------------------------------------------
(* The blocks, and the statements of the last callback.                     *)

LEMMA NextBlock ==
    ASSUME blocks \in Seq(BlockSet), NEW block \in BlockSet,
           blocks' = Append(blocks, block)
    PROVE  /\ Open /\ block.kind # "end" => Open'
           /\ Last(block.kind)'
           /\ Shape /\ Open /\ (block.kind = "header" <=> blocks = <<>>)
                 /\ (block.kind = "end" => Last("done"))
              => Shape'
<1>1. /\ Len(blocks) \in Nat /\ Len(blocks') = Len(blocks) + 1
      /\ \A i \in 1 .. Len(blocks) : blocks'[i] = blocks[i]
      /\ blocks'[Len(blocks')] = block /\ blocks' \in Seq(BlockSet)
  BY AppendProperties, LenProperties
<1>2. \A i \in 1 .. Len(blocks') : i \in 1 .. Len(blocks) \/ i = Len(blocks')
  BY <1>1
<1>3. blocks = <<>> <=> Len(blocks) = 0
  BY EmptySeq
<1>4. blocks' # <<>>
  BY <1>1, EmptySeq
<1>5. Open /\ block.kind # "end" => Open'
  BY <1>1, <1>2 DEF Open
<1>6. Last(block.kind)'
  BY <1>1, <1>4 DEF Last
<1>7. ASSUME Shape, Open, block.kind = "header" <=> blocks = <<>>,
             block.kind = "end" => Last("done")
      PROVE  Shape'
  <2>1. \A i \in 1 .. Len(blocks') : blocks'[i].kind = "header" <=> i = 1
    BY <1>1, <1>2, <1>3, <1>7 DEF Shape
  <2>2. ASSUME NEW i \in 1 .. Len(blocks'), blocks'[i].kind = "end"
        PROVE  /\ i = Len(blocks') /\ i - 1 \in 1 .. Len(blocks')
               /\ blocks'[i - 1].kind = "done"
    <3>1. i = Len(blocks')
      BY <1>1, <1>2, <1>7, <2>2 DEF Open
    <3>2. Last("done")
      BY <1>1, <1>7, <2>2, <3>1
    <3>3. i - 1 = Len(blocks) /\ Len(blocks) \in 1 .. Len(blocks)
      BY <1>1, <1>3, <3>1, <3>2 DEF Last
    <3> QED
      BY <1>1, <3>1, <3>2, <3>3 DEF Last
  <2> QED
    BY <2>1, <2>2 DEF Shape
<1> QED
  BY <1>5, <1>6, <1>7

LEMMA Bodies ==
    /\ CompleteBody \in Seq(Statements) /\ Len(CompleteBody) = 7
    /\ CompleteBody[1] = "done" /\ CompleteBody[2] = "end"
    /\ \A m \in 1 .. 3 : CompleteBody[m + 2] = Saves[m]
    /\ CompleteBody[6] = "delete" /\ CompleteBody[7] = "signal"
    /\ ErrorBody \in Seq(Statements) /\ Len(ErrorBody) = 5
    /\ ErrorBody[1] = "error" /\ ErrorBody[2] = "done" /\ ErrorBody[3] = "end"
    /\ ErrorBody[4] = "delete" /\ ErrorBody[5] = "signal"
<1>1. {"error", "done", "end", "delete", "signal", "rpush user",
       "rpush assistant", "ltrim"} \subseteq Statements
  <2>1. Saves[1] = "rpush user" /\ Saves[2] = "rpush assistant" /\ Saves[3] = "ltrim"
    BY DEF Saves
  <2>2. /\ Saves[1] \in {Saves[i] : i \in 1 .. 3}
        /\ Saves[2] \in {Saves[i] : i \in 1 .. 3}
        /\ Saves[3] \in {Saves[i] : i \in 1 .. 3}
    OBVIOUS
  <2> QED
    BY <2>1, <2>2 DEF Statements
<1>2. \A m \in 1 .. 3 : m = 1 \/ m = 2 \/ m = 3
  OBVIOUS
<1>3. /\ Len(CompleteBody) = 7
      /\ CompleteBody[1] = "done" /\ CompleteBody[2] = "end"
      /\ \A m \in 1 .. 3 : CompleteBody[m + 2] = Saves[m]
      /\ CompleteBody[6] = "delete" /\ CompleteBody[7] = "signal"
  BY <1>2 DEF CompleteBody, Saves
<1>4. CompleteBody \in Seq(Statements)
  <2>1. /\ "done" \in Statements /\ "end" \in Statements /\ "rpush user" \in Statements
        /\ "rpush assistant" \in Statements /\ "ltrim" \in Statements
        /\ "delete" \in Statements /\ "signal" \in Statements
    BY <1>1
  <2>2. \A i \in 1 .. 7 :
           \/ i = 1 \/ i = 2 \/ i = 3 \/ i = 4 \/ i = 5 \/ i = 6 \/ i = 7
    OBVIOUS
  <2>3. \A i \in 1 .. 7 : CompleteBody[i] \in Statements
    <3>1. /\ CompleteBody[1] = "done" /\ CompleteBody[2] = "end"
          /\ CompleteBody[3] = "rpush user" /\ CompleteBody[4] = "rpush assistant"
          /\ CompleteBody[5] = "ltrim" /\ CompleteBody[6] = "delete"
          /\ CompleteBody[7] = "signal"
      BY DEF CompleteBody
    <3> QED
      BY <2>1, <2>2, <3>1
  <2>4. CompleteBody = [i \in 1 .. 7 |-> CompleteBody[i]]
    BY DEF CompleteBody
  <2>5. [i \in 1 .. 7 |-> CompleteBody[i]] \in Seq(Statements)
    BY <2>3
  <2> QED
    BY <2>4, <2>5
<1>5. ErrorBody \in Seq(Statements)
  <2>1. /\ "error" \in Statements /\ "done" \in Statements /\ "end" \in Statements
        /\ "delete" \in Statements /\ "signal" \in Statements
    BY <1>1
  <2> QED
    BY <2>1 DEF ErrorBody
<1>6. /\ Len(ErrorBody) = 5
      /\ ErrorBody[1] = "error" /\ ErrorBody[2] = "done" /\ ErrorBody[3] = "end"
      /\ ErrorBody[4] = "delete" /\ ErrorBody[5] = "signal"
  BY DEF ErrorBody
<1> QED
  BY <1>3, <1>4, <1>5, <1>6

\* Where the callback stands.
LEMMA AtStatement ==
    ASSUME NEW body \in Seq(Statements), NEW k \in 1 .. Len(body) + 1,
           callback = SubSeq(body, k, Len(body))
    PROVE  /\ callback = <<>> <=> k = Len(body) + 1
           /\ callback # <<>> => /\ k \in 1 .. Len(body)
                                 /\ Head(callback) = body[k]
                                 /\ Tail(callback) = SubSeq(body, k + 1, Len(body))
<1>1. Len(body) \in Nat
  BY LenProperties
<1>2. CASE k = Len(body) + 1
  BY <1>1, <1>2, NoSuffix
<1>3. CASE k # Len(body) + 1
  <2>1. k \in 1 .. Len(body)
    BY <1>1, <1>3
  <2> QED
    BY <1>1, <2>1, Suffix
<1> QED
  BY <1>2, <1>3

\* The series during a push.
LEMMA PushSeries ==
    ASSUME IInv, NEW block \in BlockSet, PushWithRetry(block),
           current' = current, wg' = wg, commands' = commands,
           handler' = handler \/ handler' # "returned"
    PROVE  /\ TimersKnown' /\ WaitThere'
           /\ \A i \in 1 .. Len(queue') : queue'[i].kind \notin {"lrange", "idle"}
           /\ \A n \in 0 .. 3 : Saving(n) => Saving(n)'
<1>1. /\ queue \in Seq(Tasks) /\ queue' \in Seq(Tasks)
      /\ commands \in Seq(SaveSet) /\ Len(blocks) \in Nat
      /\ Len(blocks') = Len(blocks) + 1 /\ Grown(Len(blocks) + 1)
  BY Pushed DEF IInv, TypeOK, SaveSet
<1>2. Len(queue) \in Nat /\ Len(queue') \in Nat
  BY <1>1, LenProperties
<1>3. PICK d \in {0, 1} : Shifted(d, Len(blocks) + 1)
  BY <1>1, GrownShifted
<1>4. \A n \in 0 .. 3 : Saving(n) => Saving(n)'
  BY <1>1, <1>3, SavesShift
<1>5. TimersKnown'
  <2> SUFFICES ASSUME NEW j \in InSeries', At(j)'.kind = "timer"
               PROVE  At(j)'.block \in 1 .. Len(blocks')
    BY DEF TimersKnown
  <2>1. \A i \in InSeries : At(i).kind = "timer" => At(i).block \in 1 .. Len(blocks')
    BY <1>1 DEF IInv, TimersKnown
  <2>2. CASE j = 0
    BY <1>2, <2>1, <2>2 DEF At, InSeries
  <2>3. CASE j # 0
    <3>1. j \in 1 .. Len(queue') /\ At(j)' = queue'[j]
      BY <1>2, <2>3 DEF At, InSeries
    <3>2. CASE j > d /\ j - d \in 1 .. Len(queue) /\ queue'[j] = queue[j - d]
      <4>1. j - d \in InSeries /\ At(j - d) = queue'[j]
        BY <1>2, <3>2 DEF At, InSeries
      <4> QED
        BY <2>1, <3>1, <4>1
    <3>3. CASE queue'[j].block = Len(blocks) + 1
      BY <1>1, <3>1, <3>3
    <3> QED
      BY <1>3, <3>1, <3>2, <3>3 DEF Shifted
  <2> QED
    BY <2>2, <2>3
<1>6. WaitThere'
  <2> SUFFICES ASSUME handler' = "returned", wg' = 1
               PROVE  \E j \in InSeries' : At(j)'.kind = "agent_wait"
    BY DEF WaitThere
  <2>1. PICK i \in InSeries : At(i).kind = "agent_wait"
    BY DEF IInv, WaitThere
  <2>2. CASE i = 0
    <3>1. 0 \in InSeries' /\ At(0)' = At(i)
      BY <1>2, <2>2 DEF At, InSeries
    <3> QED
      BY <2>1, <3>1
  <2>3. CASE i # 0
    <3>1. i + d \in InSeries' /\ At(i + d)' = At(i)
      BY <1>2, <1>3, <2>3 DEF At, InSeries, Shifted
    <3> QED
      BY <2>1, <3>1
  <2> QED
    BY <2>2, <2>3
<1>7. \A i \in 1 .. Len(queue') : queue'[i].kind \notin {"lrange", "idle"}
  BY <1>3 DEF IInv, Handler, Shifted
<1> QED
  BY <1>4, <1>5, <1>6, <1>7

-----------------------------------------------------------------------------
(* The invariant, action by action.                                         *)

LEMMA InitIInv == Init => IInv
<1> SUFFICES ASSUME Init PROVE IInv
  OBVIOUS
<1>1. /\ queue = <<>> /\ blocks = <<>> /\ commands = <<>> /\ callback = <<>>
      /\ wire = <<>> /\ Len(queue) = 0 /\ Len(blocks) = 0 /\ Len(commands) = 0
      /\ current = Task("lrange") /\ current.kind = "lrange" /\ outcome = "idle"
      /\ handler = "load" /\ ~finished /\ wg = 1 /\ ctx = "live"
      /\ text = <<>> /\ reasoning = <<>> /\ turn = 1 /\ thoughts = 0 /\ chunks = 0
      /\ last_sent_len = 0 /\ last_reasoning_sent_len = 0 /\ stalls = 0
      /\ connected = TRUE /\ refused = FALSE /\ crashed = FALSE
  BY EmptySeq DEF Init, Task, Agent!ContractInit
<1>2. TypeOK
  <2>1. current \in Tasks
    BY <1>1 DEF Tasks, Task, Kinds
  <2>2. Agent!ContractTypeOK
    BY <1>1, EmptySeq DEF Agent!ContractTypeOK, Agent!Outcomes
  <2>3. \A S : <<>> \in Seq(S)
    BY EmptySeq
  <2>4. /\ turn \in 1 .. MaxTurns /\ chunks \in 0 .. MaxChunks
        /\ thoughts \in 0 .. MaxThoughts /\ stalls \in 0 .. MaxStalls
    BY <1>1, BoundAssumption
  <2>5. /\ callback \in Seq(Statements) /\ queue \in Seq(Tasks)
        /\ blocks \in Seq([kind : {"header", "chunk", "error", "done", "end"},
                            content : Seq(Token), reasoning : Seq(Token)])
        /\ wire \in Seq((1 .. Len(blocks)) \X Int)
        /\ commands \in Seq({Saves[i] : i \in 1 .. 3})
    BY <1>1, <2>3
  <2>6. /\ handler \in {"load", "run", "returned"} /\ ctx \in {"live", "freed"}
        /\ last_sent_len \in Nat /\ last_reasoning_sent_len \in Nat /\ wg \in {0, 1}
    BY <1>1
  <2>7. /\ finished \in BOOLEAN /\ connected \in BOOLEAN
        /\ refused \in BOOLEAN /\ crashed \in BOOLEAN
    BY DEF Init
  <2> QED
    BY <2>1, <2>2, <2>4, <2>5, <2>6, <2>7, Zenon DEF TypeOK
<1>3. TimersKnown
  BY <1>1 DEF TimersKnown, At, InSeries
<1>4. Handler /\ WaitThere /\ Shape
  BY <1>1 DEF Handler, WaitThere, Shape
<1>5. Phase
  <2>1. \A i \in InSeries : i = 0
    BY <1>1 DEF InSeries
  <2>2. Saving(0)
    BY <1>1, <2>1, SaveKinds DEF Saving, At
  <2> QED
    BY <1>1, <2>2 DEF Phase, NotEnded, Open
<1> QED
  BY <1>2, <1>3, <1>4, <1>5 DEF IInv

\* The types of what a push changes.
LEMMA PushTypes ==
    ASSUME TypeOK, NEW block \in BlockSet, PushWithRetry(block)
    PROVE  /\ queue' \in Seq(Tasks)
           /\ blocks' \in Seq([kind : {"header", "chunk", "error", "done", "end"},
                                content : Seq(Token), reasoning : Seq(Token)])
           /\ wire' \in Seq((1 .. Len(blocks')) \X Int)
           /\ connected' \in BOOLEAN /\ stalls' \in 0 .. MaxStalls
           /\ refused' \in BOOLEAN
  BY Pushed DEF BlockSet

LEMMA StartIInv == ASSUME IInv, StartAgent PROVE IInv'
<1> DEFINE block == Block("header")
<1>1. /\ handler = "load" /\ handler' = "run" /\ outcome = "idle" /\ outcome' = "running"
      /\ text' = text /\ reasoning' = reasoning /\ PushWithRetry(block)
      /\ UNCHANGED <<turn, thoughts, chunks, callback, ctx, lengths, wg, current,
                     finished, commands, crashed>>
  BY DEF StartAgent, Agent!Begin
<1>2. block \in BlockSet /\ block.kind = "header"
  BY EmptySeq DEF Block, Delta, BlockSet
<1>3. /\ blocks = <<>> /\ current = Task("lrange") /\ ~finished /\ NotEnded
  BY <1>1 DEF IInv, Handler, Phase, Completing, Failing
<1>4. /\ blocks \in Seq(BlockSet) /\ blocks' = Append(blocks, block)
      /\ Len(blocks) \in Nat /\ Len(blocks') = Len(blocks) + 1 /\ blocks' \in Seq(BlockSet)
  BY <1>1, <1>2, Pushed DEF IInv, TypeOK, BlockSet
<1>5. TypeOK'
  <2>1. Agent!ContractTypeOK'
    BY <1>1 DEF IInv, TypeOK, Agent!ContractTypeOK, Agent!Outcomes
  <2> QED
    BY <1>1, <1>2, <2>1, PushTypes DEF IInv, TypeOK, lengths
<1>6. /\ TimersKnown' /\ WaitThere' /\ Saving(0)'
      /\ \A i \in 1 .. Len(queue') : queue'[i].kind \notin {"lrange", "idle"}
  BY <1>1, <1>2, <1>3, PushSeries DEF NotEnded
<1>7. Open' /\ Shape'
  BY <1>2, <1>3, <1>4, NextBlock DEF NotEnded, IInv
<1>8. Handler'
  <2>1. blocks' # <<>>
    BY <1>4, EmptySeq
  <2> QED
    BY <1>1, <1>3, <1>6, <2>1 DEF Handler
<1>9. Phase'
  BY <1>1, <1>3, <1>6, <1>7 DEF Phase, NotEnded
<1> QED
  BY <1>5, <1>6, <1>7, <1>8, <1>9 DEF IInv

\* What is new of a message is text like the message.
LEMMA UnsentType ==
    ASSUME NEW T, NEW said \in Seq(T), NEW sent \in Nat
    PROVE  Unsent(said, sent) \in Seq(T)
<1>1. Len(said) \in Nat
  BY LenProperties
<1>2. CASE Len(said) < sent
  BY <1>2 DEF Unsent
<1>3. CASE ~(Len(said) < sent)
  <2>1. sent + 1 \in 1 .. Len(said) + 1 /\ Len(said) \in sent .. Len(said)
    BY <1>1, <1>3
  <2>2. SubSeq(said, sent + 1, Len(said)) \in Seq(T)
    BY <1>1, <2>1, SubSeqProperties
  <2> QED
    BY <1>3, <2>2 DEF Unsent
<1> QED
  BY <1>2, <1>3

\* A callback of the agent shows more of the text, or not, and reasoning.
LEMMA Shows ==
    ASSUME TypeOK, Shown
    PROVE  \E more, whole \in Seq(Token) :
              /\ text' = text \o more /\ text' \in Seq(Token)
              /\ reasoning' = reasoning \o whole /\ reasoning' \in Seq(Token)
              /\ more = <<>> \/ OfTurn(more, turn)
              /\ whole = <<>> \/ OfTurn(whole, turn)
<1>1. PICK more \in {<<>>, << <<turn, Len(text) + 1>> >>}, n \in thoughts .. MaxThoughts :
          /\ text' = text \o more
          /\ reasoning' = reasoning \o [i \in 1 .. n |-> <<turn, i>>]
  BY DEF Shown, Agent!Stream
<1> DEFINE whole == [i \in 1 .. n |-> <<turn, i>>]
<1>2. /\ text \in Seq(Token) /\ reasoning \in Seq(Token) /\ turn \in 1 .. MaxTurns
      /\ Len(text) \in Nat /\ n \in Nat
  BY BoundAssumption, LenProperties DEF TypeOK, Agent!ContractTypeOK
<1>3. more \in Seq(Token) /\ (more = <<>> \/ OfTurn(more, turn))
  <2>1. <<turn, Len(text) + 1>> \in Token
    BY <1>2 DEF Token
  <2>2. CASE more = <<>>
    BY <2>2, EmptySeq
  <2>3. CASE more = << <<turn, Len(text) + 1>> >>
    <3>1. more \in Seq(Token)
      BY <2>1, <2>3
    <3>2. 1 \in DOMAIN more /\ more[1][1] = turn
      BY <2>3
    <3> QED
      BY <3>1, <3>2 DEF OfTurn
  <2> QED
    BY <2>2, <2>3
<1>4. /\ whole \in Seq(Token) /\ Len(whole) = n
      /\ n # 0 => OfTurn(whole, turn)
  <2>1. \A i \in 1 .. n : <<turn, i>> \in Token
    BY <1>2 DEF Token
  <2>2. whole \in [1 .. n -> Token]
    BY <2>1
  <2>3. whole \in Seq(Token) /\ Len(whole) = n
    BY <1>2, <2>2, SeqDef, LenProperties
  <2>4. n # 0 => 1 \in DOMAIN whole /\ whole[1][1] = turn
    BY <1>2
  <2> QED
    BY <2>3, <2>4 DEF OfTurn
<1>5. whole = <<>> \/ OfTurn(whole, turn)
  BY <1>4, EmptySeq
<1> QED
  BY <1>1, <1>2, <1>3, <1>4, <1>5, ConcatProperties

LEMMA ChunkIInv == ASSUME IInv, Chunk PROVE IInv'
<1>1. /\ callback = <<>> /\ outcome = "running" /\ outcome' = "running"
      /\ chunks < MaxChunks /\ chunks' = chunks + 1
      /\ last_sent_len' = Len(text') /\ last_reasoning_sent_len' = Len(reasoning')
      /\ UNCHANGED <<turn, handler, callback, ctx, wg, current, finished,
                     commands, crashed>>
  BY DEF Chunk, Shown, Agent!Stream
<1>2. NotEnded /\ ~finished /\ blocks # <<>> /\ handler # "load"
  <2>1. NotEnded
    BY <1>1 DEF IInv, Phase, Completing, Failing
  <2> QED
    BY <1>1, <2>1 DEF IInv, Handler, NotEnded
<1>3. /\ text' \in Seq(Token) /\ reasoning' \in Seq(Token)
      /\ chunks' \in 0 .. MaxChunks /\ thoughts' \in 0 .. MaxThoughts
      /\ last_sent_len' \in Nat /\ last_reasoning_sent_len' \in Nat
  <2>1. text' \in Seq(Token) /\ reasoning' \in Seq(Token)
    BY Shows DEF Chunk, IInv
  <2>2. chunks' \in 0 .. MaxChunks /\ thoughts' \in 0 .. MaxThoughts
    BY BoundAssumption DEF Chunk, Shown, IInv, TypeOK
  <2> QED
    BY <1>1, <2>1, <2>2, LenProperties
<1>4. Agent!ContractTypeOK'
  BY <1>1, <1>3 DEF Agent!ContractTypeOK, Agent!Outcomes
<1> DEFINE content == Unsent(text', last_sent_len)
           reasoned == Unsent(reasoning', last_reasoning_sent_len)
           block == Delta(content, reasoned)
<1>5. CASE content # <<>> \/ reasoned # <<>>
  <2>1. PushWithRetry(block)
    BY <1>5 DEF Chunk, PushDelta
  <2>2. content \in Seq(Token) /\ reasoned \in Seq(Token)
    BY <1>3, UnsentType DEF IInv, TypeOK
  <2> HIDE DEF content, reasoned
  <2>3. block \in BlockSet /\ block.kind = "chunk"
    BY <2>2 DEF Delta, BlockSet
  <2> HIDE DEF block
  <2>4. /\ blocks \in Seq(BlockSet) /\ blocks' = Append(blocks, block)
        /\ Len(blocks) \in Nat /\ Len(blocks') = Len(blocks) + 1
        /\ blocks' \in Seq(BlockSet)
    BY <2>1, <2>3, Pushed DEF IInv, TypeOK, BlockSet
  <2>5. TypeOK'
    BY <1>1, <1>3, <1>4, <2>1, <2>3, PushTypes DEF IInv, TypeOK
  <2>6. /\ TimersKnown' /\ WaitThere' /\ Saving(0)'
        /\ \A i \in 1 .. Len(queue') : queue'[i].kind \notin {"lrange", "idle"}
    BY <1>1, <1>2, <2>1, <2>3, PushSeries DEF NotEnded
  <2>7. Open' /\ Shape'
    BY <1>2, <2>3, <2>4, NextBlock DEF NotEnded, IInv
  <2>8. Handler'
    <3>1. blocks' # <<>>
      BY <2>4, EmptySeq
    <3> QED
      BY <1>1, <1>2, <2>6, <3>1 DEF Handler, IInv
  <2>9. Phase'
    BY <1>1, <1>2, <2>6, <2>7 DEF Phase, NotEnded
  <2> QED
    BY <2>5, <2>6, <2>7, <2>8, <2>9 DEF IInv
<1>6. CASE ~(content # <<>> \/ reasoned # <<>>)
  <2>1. UNCHANGED <<socket, queue>>
    BY <1>6 DEF Chunk, PushDelta
  <2>2. TypeOK'
    BY <1>1, <1>3, <1>4, <2>1 DEF IInv, TypeOK, socket
  <2>3. TimersKnown' /\ WaitThere' /\ Shape' /\ Handler'
    BY <1>1, <2>1
       DEF IInv, TimersKnown, WaitThere, Shape, Handler, At, InSeries, socket
  <2>4. Phase'
    BY <1>1, <1>2, <2>1 DEF Phase, NotEnded, Open, Saving, At, InSeries, socket
  <2> QED
    BY <2>2, <2>3, <2>4 DEF IInv
<1> QED
  BY <1>5, <1>6

\* The agent goes on, or calls the callback that is its last.
LEMMA AgentIInv == ASSUME IInv, NewTurn \/ Completes \/ Fails PROVE IInv'
<1>1. /\ callback = <<>> /\ outcome \in {"running", "idle"}
      /\ UNCHANGED <<chunks, handler, ctx, lengths, wg, series, socket,
                     commands, crashed>>
      /\ NotEnded /\ outcome = "running" /\ handler # "load"
  <2>1. outcome = "running" /\ callback = <<>>
    BY DEF NewTurn, Completes, Fails, Agent!NewTurn
  <2> QED
    BY <2>1 DEF NewTurn, Completes, Fails, IInv, Phase, Completing, Failing, Handler
<1>2. TimersKnown' /\ WaitThere' /\ Shape' /\ Open' /\ Saving(0)'
  BY <1>1 DEF IInv, TimersKnown, WaitThere, Shape, NotEnded, Open, Saving, At,
              InSeries, series, socket
<1>3. Handler'
  <2>1. outcome' # "idle"
    BY <1>1 DEF NewTurn, Completes, Fails, Agent!NewTurn, Agent!Complete, Agent!Fail
  <2> QED
    BY <1>1, <2>1 DEF IInv, Handler, series, socket
<1>4. Agent!ContractTypeOK'
  <2>1. text \in Seq(Token) /\ reasoning \in Seq(Token) /\ <<>> \in Seq(Token)
    BY EmptySeq DEF IInv, TypeOK, Agent!ContractTypeOK
  <2>2. /\ text' \in {text, <<>>} /\ reasoning' \in {reasoning, <<>>}
        /\ outcome' \in {"running", "complete", "error"}
    BY <1>1 DEF NewTurn, Completes, Fails, Agent!NewTurn, Agent!Complete, Agent!Fail
  <2> QED
    BY <2>1, <2>2 DEF Agent!ContractTypeOK, Agent!Outcomes
<1>5. CASE NewTurn
  <2>1. turn' = turn + 1 /\ turn < MaxTurns /\ outcome' = "running" /\ callback' = <<>>
    BY <1>1, <1>5 DEF NewTurn, Agent!NewTurn
  <2>2. turn' \in 1 .. MaxTurns /\ thoughts' \in 0 .. MaxThoughts
    BY <1>5, <2>1, BoundAssumption DEF NewTurn, IInv, TypeOK
  <2>3. TypeOK'
    BY <1>1, <1>4, <1>5, <2>2 DEF NewTurn, IInv, TypeOK, lengths, series, socket
  <2>4. Phase'
    BY <1>1, <1>2, <2>1 DEF Phase, NotEnded
  <2> QED
    BY <1>2, <1>3, <2>3, <2>4 DEF IInv
<1>6. CASE Completes
  <2>1. turn' = turn /\ thoughts' = thoughts /\ outcome' = "complete" /\ callback' = CompleteBody
    BY <1>6 DEF Completes, Agent!Complete
  <2>2. TypeOK'
    BY <1>1, <1>4, <2>1, Bodies DEF IInv, TypeOK, lengths, series, socket
  <2>3. Doing(CompleteBody, 1, 1)'
    <3>1. callback' = SubSeq(CompleteBody, 1, Len(CompleteBody))
      BY <2>1, Bodies, NoSuffix
    <3> QED
      BY <1>1, <1>2, <3>1, Bodies DEF Doing, NotEnded
  <2>4. Completing(1)'
    BY <1>2, <2>1, <2>3 DEF Completing, Queued
  <2> QED
    BY <1>2, <1>3, <2>2, <2>4 DEF IInv, Phase
<1>7. CASE Fails
  <2>1. turn' = turn /\ thoughts' = thoughts /\ outcome' = "error" /\ callback' = ErrorBody
    BY <1>7 DEF Fails, Agent!Fail
  <2>2. TypeOK'
    BY <1>1, <1>4, <2>1, Bodies DEF IInv, TypeOK, lengths, series, socket
  <2>3. Doing(ErrorBody, 1, 2)'
    <3>1. callback' = SubSeq(ErrorBody, 1, Len(ErrorBody))
      BY <2>1, Bodies, NoSuffix
    <3> QED
      BY <1>1, <1>2, <3>1, Bodies DEF Doing, NotEnded
  <2>4. Failing(1)'
    BY <1>2, <2>1, <2>3 DEF Failing
  <2> QED
    BY <1>2, <1>3, <2>2, <2>4 DEF IInv, Phase
<1> QED
  BY <1>5, <1>6, <1>7

\* A callback with statements left is the complete or the error callback.
LEMMA InCallback ==
    ASSUME IInv, callback # <<>>
    PROVE  /\ wg = 1 /\ ~finished /\ outcome # "idle" /\ blocks # <<>>
           /\ handler # "load" /\ Tail(callback) \in Seq(Statements)
           /\ \/ \E k \in 1 .. 7 :
                    /\ Completing(k) /\ Head(callback) = CompleteBody[k]
                    /\ Tail(callback) = SubSeq(CompleteBody, k + 1, Len(CompleteBody))
              \/ \E k \in 1 .. 5 :
                    /\ Failing(k) /\ Head(callback) = ErrorBody[k]
                    /\ Tail(callback) = SubSeq(ErrorBody, k + 1, Len(ErrorBody))
<1>1. Tail(callback) \in Seq(Statements)
  BY HeadTailProperties DEF IInv, TypeOK
<1>2. ASSUME NEW k \in 1 .. 8, Completing(k)
      PROVE  /\ k \in 1 .. 7 /\ wg = 1 /\ Head(callback) = CompleteBody[k]
             /\ Tail(callback) = SubSeq(CompleteBody, k + 1, Len(CompleteBody))
  <2>1. callback = SubSeq(CompleteBody, k, Len(CompleteBody))
    BY <1>2 DEF Completing, Doing
  <2>2. /\ k \in 1 .. Len(CompleteBody) /\ Head(callback) = CompleteBody[k]
        /\ Tail(callback) = SubSeq(CompleteBody, k + 1, Len(CompleteBody))
    BY <2>1, AtStatement, Bodies
  <2> QED
    BY <1>2, <2>2, Bodies DEF Completing, Doing
<1>3. ASSUME NEW k \in 1 .. 6, Failing(k)
      PROVE  /\ k \in 1 .. 5 /\ wg = 1 /\ Head(callback) = ErrorBody[k]
             /\ Tail(callback) = SubSeq(ErrorBody, k + 1, Len(ErrorBody))
  <2>1. callback = SubSeq(ErrorBody, k, Len(ErrorBody))
    BY <1>3 DEF Failing, Doing
  <2>2. /\ k \in 1 .. Len(ErrorBody) /\ Head(callback) = ErrorBody[k]
        /\ Tail(callback) = SubSeq(ErrorBody, k + 1, Len(ErrorBody))
    BY <2>1, AtStatement, Bodies
  <2> QED
    BY <1>3, <2>2, Bodies DEF Failing, Doing
<1>4. \/ \E k \in 1 .. 8 : Completing(k)
      \/ \E k \in 1 .. 6 : Failing(k)
  BY DEF IInv, Phase, NotEnded
<1>5. wg = 1 /\ outcome # "idle"
  BY <1>2, <1>3, <1>4 DEF Completing, Failing
<1>6. ~finished /\ blocks # <<>> /\ handler # "load"
  BY <1>5 DEF IInv, Handler
<1> QED
  BY <1>1, <1>2, <1>3, <1>4, <1>5, <1>6

\* The statement "error", "done" or "end" is the next one of its body.
LEMMA PushedNext ==
    ASSUME IInv, PushStatement
    PROVE  /\ Open /\ (Head(callback) = "end" => Last("done"))
           /\ \/ \E k \in 1 .. 2 :
                    /\ Completing(k) /\ Head(callback) = CompleteBody[k]
                    /\ callback' = SubSeq(CompleteBody, k + 1, Len(CompleteBody))
              \/ \E k \in 1 .. 3 :
                    /\ Failing(k) /\ Head(callback) = ErrorBody[k]
                    /\ callback' = SubSeq(ErrorBody, k + 1, Len(ErrorBody))
<1>1. /\ callback # <<>> /\ Head(callback) \in {"error", "done", "end"}
      /\ callback' = Tail(callback)
  BY DEF PushStatement
<1>2. ASSUME NEW k \in 1 .. 7, Completing(k), Head(callback) = CompleteBody[k]
      PROVE  k \in 1 .. 2 /\ Open /\ (Head(callback) = "end" => Last("done"))
  <2>1. \A m \in 1 .. 3 : Saves[m] \notin {"error", "done", "end"}
    <3>1. Saves[1] = "rpush user" /\ Saves[2] = "rpush assistant" /\ Saves[3] = "ltrim"
      BY DEF Saves
    <3>2. \A m \in 1 .. 3 : m = 1 \/ m = 2 \/ m = 3
      OBVIOUS
    <3> QED
      BY <3>1, <3>2
  <2>2. k \notin {3, 4, 5}
    <3>1. 3 = 1 + 2 /\ 4 = 2 + 2 /\ 5 = 3 + 2
      OBVIOUS
    <3> QED
      BY <1>1, <1>2, <2>1, <3>1, Bodies
  <2>3. k \in 1 .. 2
    BY <1>1, <1>2, <2>2, Bodies
  <2> QED
    BY <1>2, <2>3, Bodies DEF Completing, Doing
<1>3. ASSUME NEW k \in 1 .. 5, Failing(k), Head(callback) = ErrorBody[k]
      PROVE  k \in 1 .. 3 /\ Open /\ (Head(callback) = "end" => Last("done"))
  <2>1. k \in 1 .. 3
    BY <1>1, <1>3, Bodies
  <2> QED
    BY <1>3, <2>1, Bodies DEF Failing, Doing
<1> QED
  BY <1>1, <1>2, <1>3, InCallback

LEMMA PushStatementIInv == ASSUME IInv, PushStatement PROVE IInv'
<1> DEFINE block == Block(Head(callback))
<1>1. /\ callback # <<>> /\ Head(callback) \in {"error", "done", "end"}
      /\ callback' = Tail(callback) /\ PushWithRetry(block)
      /\ UNCHANGED <<agent, handler, ctx, lengths, wg, current, finished,
                     commands, crashed>>
  BY DEF PushStatement
<1>2. block \in BlockSet /\ block.kind = Head(callback)
  BY <1>1, EmptySeq DEF Block, Delta, BlockSet
<1>3. /\ wg = 1 /\ ~finished /\ outcome # "idle" /\ blocks # <<>> /\ handler # "load"
      /\ Tail(callback) \in Seq(Statements)
  BY <1>1, InCallback
<1>4. /\ blocks \in Seq(BlockSet) /\ blocks' = Append(blocks, block)
      /\ Len(blocks) \in Nat /\ Len(blocks') = Len(blocks) + 1 /\ blocks' \in Seq(BlockSet)
  BY <1>1, <1>2, Pushed DEF IInv, TypeOK, BlockSet
<1>5. TypeOK'
  <2>1. Agent!ContractTypeOK'
    BY <1>1 DEF IInv, TypeOK, Agent!ContractTypeOK, agent
  <2> QED
    BY <1>1, <1>2, <1>3, <2>1, PushTypes DEF IInv, TypeOK, lengths, agent
<1>6. /\ TimersKnown' /\ WaitThere' /\ \A n \in 0 .. 3 : Saving(n) => Saving(n)'
      /\ \A i \in 1 .. Len(queue') : queue'[i].kind \notin {"lrange", "idle"}
  BY <1>1, <1>2, PushSeries
<1>7. Handler'
  <2>1. blocks' # <<>>
    BY <1>4, EmptySeq
  <2> QED
    BY <1>1, <1>3, <1>6, <2>1 DEF Handler, IInv, agent
<1>8. /\ Shape' /\ (Head(callback) # "end" => Open')
      /\ blocks' # <<>> /\ blocks'[Len(blocks')].kind = Head(callback)
  <2>1. Open /\ (Head(callback) = "end" => Last("done"))
    BY PushedNext
  <2>2. PICK b \in BlockSet : b = block
    BY <1>2
  <2>3. b.kind # "header"
    BY <1>1, <1>2, <2>2
  <2>4. (b.kind # "end" => Open') /\ Shape'
    BY <1>2, <1>3, <1>4, <2>1, <2>2, <2>3, NextBlock DEF IInv
  <2>5. blocks' # <<>> /\ blocks'[Len(blocks')] = block
    BY <1>2, <1>4, AppendProperties, EmptySeq
  <2> QED
    BY <1>2, <2>2, <2>4, <2>5
<1>9. Phase'
  <2>1. ASSUME NEW k \in 1 .. 2, Completing(k), Head(callback) = CompleteBody[k],
               callback' = SubSeq(CompleteBody, k + 1, Len(CompleteBody))
        PROVE  Completing(k + 1)'
    <3>1. Queued(k) = 0 /\ Queued(k + 1) = 0
      BY DEF Queued
    <3>2. Saving(0)'
      BY <1>6, <2>1, <3>1 DEF Completing
    <3>3. /\ k = 1 => Open' /\ blocks' # <<>> /\ blocks'[Len(blocks')].kind = "done"
          /\ k = 2 => blocks' # <<>> /\ blocks'[Len(blocks')].kind = "end"
      BY <1>8, <2>1, Bodies
    <3>4. Doing(CompleteBody, k + 1, 1)'
      BY <1>1, <1>3, <2>1, <3>3, Bodies DEF Doing, Last, Completing
    <3> QED
      BY <1>1, <2>1, <3>1, <3>2, <3>4 DEF Completing, agent
  <2>2. ASSUME NEW k \in 1 .. 3, Failing(k), Head(callback) = ErrorBody[k],
               callback' = SubSeq(ErrorBody, k + 1, Len(ErrorBody))
        PROVE  Failing(k + 1)'
    <3>1. Saving(0)'
      BY <1>6, <2>2 DEF Failing
    <3>2. /\ k = 1 => Open'
          /\ k = 2 => Open' /\ blocks' # <<>> /\ blocks'[Len(blocks')].kind = "done"
          /\ k = 3 => blocks' # <<>> /\ blocks'[Len(blocks')].kind = "end"
      BY <1>8, <2>2, Bodies
    <3>3. Doing(ErrorBody, k + 1, 2)'
      BY <1>1, <1>3, <2>2, <3>2, Bodies DEF Doing, Last, Failing
    <3> QED
      BY <1>1, <2>2, <3>1, <3>3 DEF Failing, agent
  <2>3. \A k \in 1 .. 2 : k + 1 \in 1 .. 8
    OBVIOUS
  <2>4. \A k \in 1 .. 3 : k + 1 \in 1 .. 6
    OBVIOUS
  <2> QED
    BY <2>1, <2>2, <2>3, <2>4, PushedNext DEF Phase
<1> QED
  BY <1>5, <1>6, <1>7, <1>8, <1>9 DEF IInv

\* A saving task is queued: the next one.
LEMMA SaveStatementIInv == ASSUME IInv, SaveStatement PROVE IInv'
<1>1. /\ callback # <<>> /\ callback' = Tail(callback)
      /\ queue' = Append(queue, Task(Head(callback)))
      /\ UNCHANGED <<agent, handler, ctx, lengths, wg, current, finished,
                     socket, commands, crashed>>
  BY DEF SaveStatement
<1>2. PICK m \in 1 .. 3 : Head(callback) = Saves[m]
  BY DEF SaveStatement
<1>3. /\ wg = 1 /\ ~finished /\ outcome # "idle" /\ blocks # <<>> /\ handler # "load"
      /\ Tail(callback) \in Seq(Statements)
  BY <1>1, InCallback
<1>4. PICK t \in Tasks : t = Task(Head(callback)) /\ t.kind = Saves[m]
  <2>1. Task(Saves[m]).kind = Saves[m] /\ Task(Saves[m]) \in Tasks
    BY DEF Task, Tasks, Kinds
  <2> QED
    BY <1>2, <2>1
<1>5. /\ queue \in Seq(Tasks) /\ commands \in Seq(SaveSet) /\ queue' \in Seq(Tasks)
      /\ Len(queue) \in Nat /\ Len(queue') = Len(queue) + 1
      /\ \A i \in 1 .. Len(queue) : queue'[i] = queue[i]
      /\ \A i \in 1 .. Len(queue') : i \in 1 .. Len(queue) \/ queue'[i] = t
  <2>1. queue \in Seq(Tasks) /\ commands \in Seq(SaveSet)
    BY DEF IInv, TypeOK, SaveSet
  <2> QED
    BY <1>1, <1>4, <2>1, AppendProperties, LenProperties
<1>6. TypeOK'
  <2>1. Agent!ContractTypeOK'
    BY <1>1 DEF IInv, TypeOK, Agent!ContractTypeOK, agent
  <2> QED
    BY <1>1, <1>3, <1>5, <2>1 DEF IInv, TypeOK, lengths, agent, socket
<1>7. /\ \A j \in InSeries' : (j \in InSeries /\ At(j)' = At(j)) \/ At(j)' = t
      /\ \A i \in InSeries : i \in InSeries' /\ At(i)' = At(i)
  BY <1>1, <1>5 DEF At, InSeries
<1>8. TimersKnown' /\ WaitThere' /\ Shape'
  <2>1. TimersKnown'
    BY <1>1, <1>4, <1>7, SaveKinds DEF IInv, TimersKnown, socket
  <2>2. WaitThere'
    BY <1>1, <1>7 DEF IInv, WaitThere
  <2> QED
    BY <1>1, <2>1, <2>2 DEF IInv, Shape, socket
<1>9. Handler'
  BY <1>1, <1>3, <1>4, <1>5, SaveKinds DEF IInv, Handler, agent, socket
<1>10. Phase'
  <2>1. ASSUME NEW k \in 1 .. 7, Completing(k), Head(callback) = CompleteBody[k],
               Tail(callback) = SubSeq(CompleteBody, k + 1, Len(CompleteBody))
        PROVE  k + 1 \in 1 .. 8 /\ Completing(k + 1)'
    <3>1. Saves[m] \notin {"done", "end", "delete", "signal"}
      <4>1. /\ Saves[1] = "rpush user" /\ Saves[2] = "rpush assistant"
            /\ Saves[3] = "ltrim"
        BY DEF Saves
      <4>2. m = 1 \/ m = 2 \/ m = 3
        OBVIOUS
      <4> QED
        BY <4>1, <4>2
    <3>2. k \in 3 .. 5
      BY <1>2, <2>1, <3>1, Bodies
    <3>3. k = m + 2
      <4>1. k - 2 \in 1 .. 3 /\ (k - 2) + 2 = k
        BY <3>2
      <4>2. CompleteBody[k] = Saves[k - 2]
        BY <4>1, Bodies
      <4>3. k - 2 = m
        BY <1>2, <2>1, <4>1, <4>2, SaveKinds
      <4> QED
        BY <3>2, <4>3
    <3>4. Queued(k) = m - 1 /\ Queued(k + 1) = m
      BY <3>2, <3>3 DEF Queued
    <3>5. PICK n \in 0 .. 2 : n = m - 1 /\ m = n + 1
      OBVIOUS
    <3>6. Saving(n)
      BY <2>1, <3>4, <3>5 DEF Completing
    <3>7. Saving(m)'
      <4>1. n \in 0 .. 3 /\ m \in {n, n + 1} /\ m \in 0 .. 3 /\ m # n
        BY <3>5
      <4> QED
        BY <1>1, <1>4, <1>5, <3>5, <3>6, <4>1, SavesAppend
    <3>8. Doing(CompleteBody, k + 1, 1)'
      <4>1. ctx' = ctx /\ wg' = wg /\ blocks' = blocks /\ callback' = Tail(callback)
        BY <1>1 DEF socket
      <4>2. Doing(CompleteBody, k, 1)
        BY <2>1 DEF Completing
      <4> QED
        BY <2>1, <3>2, <4>1, <4>2, Bodies DEF Doing, Last
    <3> QED
      BY <1>1, <2>1, <3>2, <3>4, <3>7, <3>8 DEF Completing, agent
  <2>2. ASSUME NEW k \in 1 .. 5, Head(callback) = ErrorBody[k] PROVE FALSE
    <3>1. Saves[m] \notin {"error", "done", "end", "delete", "signal"}
      <4>1. /\ Saves[1] = "rpush user" /\ Saves[2] = "rpush assistant"
            /\ Saves[3] = "ltrim"
        BY DEF Saves
      <4>2. m = 1 \/ m = 2 \/ m = 3
        OBVIOUS
      <4> QED
        BY <4>1, <4>2
    <3> QED
      BY <1>2, <2>2, <3>1, Bodies
  <2> QED
    BY <1>1, <2>1, <2>2, InCallback DEF Phase
<1> QED
  BY <1>6, <1>8, <1>9, <1>10 DEF IInv

\* The last two statements free the context and signal agent_wait.
LEMMA EndStatementIInv ==
    ASSUME IInv, DeleteStatement \/ SignalStatement PROVE IInv'
<1>1. /\ callback # <<>> /\ callback' = Tail(callback)
      /\ \/ Head(callback) = "delete" /\ ctx' = "freed" /\ wg' = wg
         \/ Head(callback) = "signal" /\ ctx' = ctx /\ wg' = wg - 1
      /\ UNCHANGED <<agent, handler, lengths, series, socket, commands, crashed>>
  BY DEF DeleteStatement, SignalStatement
<1>2. /\ wg = 1 /\ ~finished /\ outcome # "idle" /\ Tail(callback) \in Seq(Statements)
  BY <1>1, InCallback
<1>3. TypeOK'
  <2>1. Agent!ContractTypeOK'
    BY <1>1 DEF IInv, TypeOK, Agent!ContractTypeOK, agent
  <2>2. ctx' \in {"live", "freed"} /\ wg' \in {0, 1}
    BY <1>1, <1>2 DEF IInv, TypeOK
  <2> QED
    BY <1>1, <1>2, <2>1, <2>2 DEF IInv, TypeOK, lengths, agent, series, socket
<1>4. TimersKnown' /\ WaitThere' /\ Shape' /\ Handler'
  BY <1>1, <1>2 DEF IInv, TimersKnown, WaitThere, Shape, Handler, At, InSeries,
                    agent, series, socket
<1>5. \A n : Saving(n) => Saving(n)'
  BY <1>1 DEF Saving, At, InSeries, series
<1>6. (Open => Open') /\ \A kind : Last(kind) => Last(kind)'
  BY <1>1 DEF Open, Last, socket
<1>7. Phase'
  <2>1. ASSUME NEW k \in 1 .. 7, Completing(k), Head(callback) = CompleteBody[k],
               Tail(callback) = SubSeq(CompleteBody, k + 1, Len(CompleteBody))
        PROVE  k + 1 \in 1 .. 8 /\ Completing(k + 1)'
    <3>1. k \in {6, 7} /\ (k = 6 <=> Head(callback) = "delete")
      <4>1. /\ Saves[1] = "rpush user" /\ Saves[2] = "rpush assistant"
            /\ Saves[3] = "ltrim"
        BY DEF Saves
      <4>2. CompleteBody[3] = Saves[1] /\ CompleteBody[4] = Saves[2]
            /\ CompleteBody[5] = Saves[3]
        <5>1. 3 = 1 + 2 /\ 4 = 2 + 2 /\ 5 = 3 + 2
          OBVIOUS
        <5> QED
          BY <5>1, Bodies
      <4>3. CompleteBody[k] \in {"delete", "signal"}
        BY <1>1, <2>1
      <4>4. k \notin {3, 4, 5}
        BY <4>1, <4>2, <4>3
      <4>5. k \notin {1, 2}
        BY <4>3, Bodies
      <4>6. k \in {6, 7}
        BY <4>4, <4>5
      <4> QED
        BY <2>1, <4>6, Bodies
    <3>2. Queued(k) = 3 /\ Queued(k + 1) = 3
      BY <3>1 DEF Queued
    <3>3. Doing(CompleteBody, k + 1, 1)'
      BY <1>1, <1>2, <1>6, <2>1, <3>1, Bodies DEF Doing, Completing
    <3>4. Saving(3)'
      BY <1>5, <2>1, <3>2 DEF Completing
    <3> QED
      BY <1>1, <2>1, <3>1, <3>2, <3>3, <3>4 DEF Completing, agent
  <2>2. ASSUME NEW k \in 1 .. 5, Failing(k), Head(callback) = ErrorBody[k],
               Tail(callback) = SubSeq(ErrorBody, k + 1, Len(ErrorBody))
        PROVE  k + 1 \in 1 .. 6 /\ Failing(k + 1)'
    <3>1. k \in {4, 5} /\ (k = 4 <=> Head(callback) = "delete")
      BY <1>1, <2>2, Bodies
    <3>2. Doing(ErrorBody, k + 1, 2)'
      BY <1>1, <1>2, <1>6, <2>2, <3>1, Bodies DEF Doing, Failing
    <3> QED
      BY <1>1, <1>5, <2>2, <3>1, <3>2 DEF Failing, agent
  <2> QED
    BY <1>1, <2>1, <2>2, InCallback DEF Phase
<1> QED
  BY <1>3, <1>4, <1>7 DEF IInv

\* A step that leaves the agent and the blocks alone leaves the phase alone,
\* if the saving tasks stay in order.
LEMMA SamePhase ==
    ASSUME IInv, \A n \in 0 .. 3 : Saving(n) => Saving(n)',
           UNCHANGED <<agent, callback, ctx, wg, blocks>>
    PROVE  Phase' /\ Shape'
<1>1. Open => Open' /\ \A kind : Last(kind) => Last(kind)'
  BY DEF Open, Last
<1>2. NotEnded => NotEnded'
  BY <1>1 DEF NotEnded, Open, agent
<1>3. \A k \in 1 .. 8 : Completing(k) => Completing(k)'
  <2>1. \A k \in 1 .. 8 : Queued(k) \in 0 .. 3
    BY DEF Queued
  <2> QED
    BY <2>1 DEF Completing, Doing, Open, Last, agent
<1>4. \A k \in 1 .. 6 : Failing(k) => Failing(k)'
  BY DEF Failing, Doing, Open, Last, agent
<1>5. Shape'
  BY DEF IInv, Shape
<1> QED
  BY <1>2, <1>3, <1>4, <1>5 DEF IInv, Phase

\* The LRANGE callback returns; agent_wait is in the series.
LEMMA QueueWaitIInv == ASSUME IInv, QueueWait PROVE IInv'
<1>1. /\ handler = "run" /\ handler' = "returned" /\ current' = Idle
      /\ queue' = Append(queue, Task("agent_wait"))
      /\ UNCHANGED <<agent, callback, ctx, lengths, wg, finished, socket,
                     commands, crashed>>
  BY DEF QueueWait
<1>2. PICK t \in Tasks : t = Task("agent_wait") /\ t.kind = "agent_wait"
  <2>1. Task("agent_wait") \in Tasks /\ Task("agent_wait").kind = "agent_wait"
    BY DEF Task, Tasks, Kinds
  <2> QED
    BY <2>1
<1>3. current = Task("lrange") /\ current.kind = "lrange" /\ ~finished
  BY <1>1, SaveKinds DEF IInv, Handler
<1>4. /\ queue \in Seq(Tasks) /\ commands \in Seq(SaveSet) /\ queue' \in Seq(Tasks)
      /\ Len(queue) \in Nat /\ Len(queue') = Len(queue) + 1
      /\ \A i \in 1 .. Len(queue) : queue'[i] = queue[i]
      /\ \A i \in 1 .. Len(queue') : i \in 1 .. Len(queue) \/ queue'[i] = t
      /\ queue'[Len(queue')] = t
  <2>1. queue \in Seq(Tasks) /\ commands \in Seq(SaveSet)
    BY DEF IInv, TypeOK, SaveSet
  <2> QED
    BY <1>1, <1>2, <2>1, AppendProperties, LenProperties
<1>5. TypeOK'
  <2>1. Agent!ContractTypeOK'
    BY <1>1 DEF IInv, TypeOK, Agent!ContractTypeOK, agent
  <2>2. Idle \in Tasks
    BY DEF Idle, Task, Tasks, Kinds
  <2> QED
    BY <1>1, <1>4, <2>1, <2>2 DEF IInv, TypeOK, lengths, agent, socket
<1>6. TimersKnown'
  <2>1. \A j \in InSeries' : (j \in InSeries /\ At(j)' = At(j)) \/ At(j)'.kind # "timer"
    BY <1>1, <1>2, <1>4, SaveKinds DEF At, InSeries
  <2> QED
    BY <1>1, <2>1 DEF IInv, TimersKnown, socket
<1>7. WaitThere'
  <2>1. PICK k \in Nat : k = Len(queue')
    BY <1>4
  <2>2. k \in InSeries' /\ At(k)' = t
    BY <1>4, <2>1 DEF At, InSeries
  <2> QED
    BY <1>2, <2>2 DEF WaitThere
<1>8. Shape' /\ Handler'
  BY <1>1, <1>2, <1>3, <1>4, SaveKinds DEF IInv, Shape, Handler, agent, socket
<1>9. \A n \in 0 .. 3 : Saving(n) => Saving(n)'
  <2>1. t.kind \notin SaveSet /\ current.kind \notin SaveSet
    BY <1>2, <1>3, SaveKinds DEF SaveSet
  <2> QED
    BY <1>1, <1>2, <1>4, <2>1, SavesAppend
<1>10. Phase'
  BY <1>1, <1>9, SamePhase DEF socket
<1> QED
  BY <1>5, <1>6, <1>7, <1>8, <1>10 DEF IInv

\* The next task of the series.
LEMMA NextTaskIInv == ASSUME IInv, NextTask PROVE IInv'
<1>1. /\ current = Idle /\ queue # <<>> /\ current' = Head(queue) /\ queue' = Tail(queue)
      /\ UNCHANGED <<agent, handler, callback, ctx, lengths, wg, finished,
                     socket, commands, crashed>>
  BY DEF NextTask
<1>2. queue \in Seq(Tasks) /\ commands \in Seq(SaveSet)
  BY DEF IInv, TypeOK, SaveSet
<1>3. /\ Len(queue) \in Nat \ {0} /\ Len(queue') = Len(queue) - 1
      /\ current' = queue[1] /\ \A i \in 1 .. Len(queue') : queue'[i] = queue[i + 1]
      /\ queue' \in Seq(Tasks) /\ current' \in Tasks
  BY <1>1, <1>2, HeadTailProperties, EmptySeq, LenProperties
<1>4. \A j \in InSeries' : j + 1 \in InSeries /\ At(j)' = At(j + 1)
  BY <1>3 DEF At, InSeries
<1>5. TypeOK'
  <2>1. Agent!ContractTypeOK'
    BY <1>1 DEF IInv, TypeOK, Agent!ContractTypeOK, agent
  <2> QED
    BY <1>1, <1>3, <2>1 DEF IInv, TypeOK, lengths, agent, socket
<1>6. TimersKnown'
  BY <1>1, <1>4 DEF IInv, TimersKnown, socket
<1>7. WaitThere'
  <2> SUFFICES ASSUME handler' = "returned", wg' = 1
               PROVE  \E j \in InSeries' : At(j)'.kind = "agent_wait"
    BY DEF WaitThere
  <2>1. PICK i \in InSeries : At(i).kind = "agent_wait"
    BY <1>1 DEF IInv, WaitThere
  <2>2. i # 0
    BY <1>1, <2>1, SaveKinds DEF At
  <2>3. i - 1 \in InSeries' /\ (i - 1) + 1 = i
    BY <1>3, <2>2 DEF InSeries
  <2> QED
    BY <1>4, <2>1, <2>3
<1>8. Handler'
  <2>1. handler = "returned" /\ ~finished
    BY <1>1, SaveKinds DEF IInv, Handler
  <2>2. current'.kind \notin {"lrange", "idle"}
    BY <1>3 DEF IInv, Handler
  <2>3. \A i \in 1 .. Len(queue') : queue'[i].kind \notin {"lrange", "idle"}
    BY <1>3 DEF IInv, Handler
  <2> QED
    BY <1>1, <2>1, <2>2, <2>3 DEF IInv, Handler, agent, socket
<1>9. Phase' /\ Shape'
  BY <1>1, <1>2, SavesNext, SamePhase DEF socket
<1> QED
  BY <1>5, <1>6, <1>7, <1>8, <1>9 DEF IInv

\* A task of the series has ended; a retry may have put another in front.
LEMMA TaskEnds ==
    ASSUME IInv, current' = Idle, current.kind # "lrange", current # Idle,
           queue' \in Seq(Tasks), NEW block \in 1 .. Len(blocks), NEW d \in {0, 1},
           Shifted(d, block), current.kind = "agent_wait" => wg = 0,
           \A n \in 0 .. 3 : Saving(n) => Saving(n)',
           UNCHANGED <<agent, handler, callback, ctx, lengths, wg, finished,
                       blocks, crashed>>
    PROVE  TimersKnown' /\ WaitThere' /\ Handler' /\ Phase' /\ Shape'
<1>1. Len(queue) \in Nat /\ Len(queue') \in Nat
  BY LenProperties DEF IInv, TypeOK
<1>2. handler = "returned" /\ ~finished
  BY SaveKinds DEF IInv, Handler
<1>3. \A j \in InSeries' :
         \/ j = 0 /\ At(j)'.kind = "idle"
         \/ j - d \in InSeries /\ At(j)' = At(j - d)
         \/ At(j)'.kind = "timer" /\ At(j)'.block = block
  <2> SUFFICES ASSUME NEW j \in InSeries', j # 0
               PROVE  \/ j - d \in InSeries /\ At(j)' = At(j - d)
                      \/ At(j)'.kind = "timer" /\ At(j)'.block = block
    BY SaveKinds DEF At
  <2>1. j \in 1 .. Len(queue') /\ At(j)' = queue'[j]
    BY <1>1 DEF At, InSeries
  <2> QED
    BY <1>1, <2>1 DEF Shifted, At, InSeries
<1>4. TimersKnown'
  BY <1>3 DEF IInv, TimersKnown
<1>5. WaitThere'
  <2> SUFFICES ASSUME handler' = "returned", wg' = 1
               PROVE  \E j \in InSeries' : At(j)'.kind = "agent_wait"
    BY DEF WaitThere
  <2>1. PICK i \in InSeries : At(i).kind = "agent_wait"
    BY DEF IInv, WaitThere
  <2>2. i # 0
    BY <2>1 DEF At
  <2>3. i + d \in InSeries' /\ At(i + d)' = At(i)
    BY <1>1, <2>2 DEF At, InSeries, Shifted
  <2> QED
    BY <2>1, <2>3
<1>6. Handler'
  BY <1>2, SaveKinds DEF IInv, Handler, Shifted, agent
<1> QED
  BY <1>4, <1>5, <1>6, SamePhase

LEMMA SeriesIInv ==
    ASSUME IInv, WaitReturns \/ Retry \/ Saved
    PROVE  IInv'
<1>1. /\ current' = Idle /\ current # Idle /\ current.kind # "lrange"
      /\ UNCHANGED <<agent, handler, callback, ctx, lengths, wg, finished,
                     blocks, crashed>>
  BY SaveKinds DEF WaitReturns, Retry, Saved, socket, Idle, Task
<1>2. /\ queue \in Seq(Tasks) /\ commands \in Seq(SaveSet) /\ Len(queue) \in Nat
      /\ Idle \in Tasks /\ current \in Tasks /\ Len(blocks) \in Nat
  BY LenProperties DEF IInv, TypeOK, SaveSet, Idle, Task, Tasks, Kinds
<1>3. Agent!ContractTypeOK'
  BY <1>1 DEF IInv, TypeOK, Agent!ContractTypeOK, agent
<1>4. 1 \in 1 .. Len(blocks)
  <2>1. handler # "load"
    BY <1>1, SaveKinds DEF IInv, Handler
  <2> QED
    BY <1>2, <2>1, EmptySeq DEF IInv, Handler
<1>5. ASSUME queue' = queue PROVE Shifted(0, 1)
  BY <1>2, <1>5 DEF Shifted
<1>6. CASE WaitReturns
  <2>1. /\ current.kind = "agent_wait" /\ wg = 0 /\ UNCHANGED <<queue, socket, commands>>
    BY <1>6 DEF WaitReturns
  <2>2. current.kind \notin SaveSet
    BY <2>1, SaveKinds DEF SaveSet
  <2>3. \A n \in 0 .. 3 : Saving(n) => Saving(n)'
    BY <1>1, <1>2, <1>5, <2>1, <2>2, SavesShift
  <2>4. TypeOK'
    BY <1>1, <1>2, <1>3, <2>1 DEF IInv, TypeOK, lengths, agent, socket
  <2> QED
    BY <1>1, <1>2, <1>4, <1>5, <2>1, <2>3, <2>4, TaskEnds DEF IInv
<1>7. CASE Saved
  <2>1. /\ commands' = Append(commands, current.kind) /\ UNCHANGED <<queue, socket>>
    BY <1>7 DEF Saved
  <2>2. PICK m \in 1 .. 3 : current.kind = Saves[m]
    BY <1>7 DEF Saved
  <2>3. \A n \in 0 .. 3 : Saving(n) => Saving(n)'
    BY <1>1, <1>2, <2>1, <2>2, SavesDone
  <2>4. commands' \in Seq(SaveSet)
    BY <1>2, <2>1, <2>2, AppendProperties, SaveKinds
  <2>5. TypeOK'
    BY <1>1, <1>2, <1>3, <2>1, <2>4 DEF IInv, TypeOK, lengths, agent, socket, SaveSet
  <2>6. current.kind # "agent_wait"
    BY <2>2, SaveKinds
  <2> QED
    BY <1>1, <1>2, <1>4, <1>5, <2>1, <2>3, <2>5, <2>6, TaskEnds DEF IInv
<1>8. CASE Retry
  <2>1. current.kind = "timer" /\ commands' = commands
    BY <1>8 DEF Retry
  <2>2. /\ current.block \in 1 .. Len(blocks) /\ current.nleft \in Nat
        /\ current.block \in Nat
    <3>1. 0 \in InSeries /\ At(0) = current
      BY <1>2 DEF InSeries, At
    <3> QED
      BY <1>2, <2>1, <3>1 DEF IInv, TimersKnown, Tasks
  <2> DEFINE pos == Offset(Wrap(Size - current.nleft))
  <2>3. pos \in Int
    <3>1. Wrap(Size - current.nleft) \in Nat
      BY <2>2, BoundAssumption DEF Wrap
    <3> QED
      BY <3>1, BoundAssumption DEF Offset
  <2>4. PICK r \in -1 .. current.nleft :
            /\ HttpPush(current.block, pos, current.nleft, r)
            /\ queue' = Retrying(current.block, Remaining(current.nleft, r), queue)
    BY <1>8 DEF Retry
  <2>5. Remaining(current.nleft, r) \in Nat /\ r \in Int
    <3>1. r \in Int
      BY <2>2
    <3> QED
      BY <2>2, <3>1, RemainingType
  <2>6. /\ queue' \in Seq(Tasks) /\ Grown(current.block)
    <3> DEFINE nleft == Remaining(current.nleft, r)
    <3>1. /\ Retrying(current.block, nleft, queue) \in Seq(Tasks)
          /\ \/ Retrying(current.block, nleft, queue) = queue
             \/ /\ Retrying(current.block, nleft, queue) = <<Timer(current.block, nleft)>> \o queue
                /\ Timer(current.block, nleft) \in Tasks
                /\ Timer(current.block, nleft).kind = "timer"
                /\ Timer(current.block, nleft).block = current.block
      BY <1>2, <2>2, <2>5, Retried
    <3> QED
      BY <2>4, <3>1 DEF Grown
  <2>7. PICK d \in {0, 1} : Shifted(d, current.block)
    BY <1>2, <2>6, GrownShifted
  <2>8. \A n \in 0 .. 3 : Saving(n) => Saving(n)'
    <3>1. current.kind \notin SaveSet
      BY <2>1, SaveKinds DEF SaveSet
    <3> QED
      BY <1>1, <1>2, <2>1, <2>6, <2>7, <3>1, SavesShift
  <2>9. TypeOK'
    <3>1. /\ wire' \in Seq((1 .. Len(blocks)) \X Int)
          /\ connected' \in BOOLEAN /\ stalls' \in 0 .. MaxStalls
          /\ refused' \in BOOLEAN
      <4>1. Len(blocks) <= Len(blocks)
        BY <1>2
      <4> QED
        BY <1>2, <2>2, <2>3, <2>4, <4>1, Write DEF IInv
    <3> QED
      BY <1>1, <1>2, <1>3, <2>1, <2>6, <3>1 DEF IInv, TypeOK, lengths, agent
  <2> QED
    BY <1>1, <1>2, <2>1, <2>2, <2>6, <2>7, <2>8, <2>9, TaskEnds DEF IInv
<1> QED
  BY <1>6, <1>7, <1>8

\* The end of the series, and of the process.
LEMMA EndIInv ==
    ASSUME IInv, Finish \/ UseAfterFree \/ UNCHANGED vars PROVE IInv'
<1>1. /\ UNCHANGED <<agent, handler, callback, ctx, lengths, wg, current, queue,
                     socket, commands>>
      /\ finished' \in {finished, TRUE} /\ crashed' \in {crashed, TRUE}
      /\ finished' # finished => current = Idle /\ queue = <<>>
  BY DEF Finish, UseAfterFree, series, vars
<1>2. TypeOK'
  <2>1. Agent!ContractTypeOK'
    BY <1>1 DEF IInv, TypeOK, Agent!ContractTypeOK, agent
  <2>2. finished' \in BOOLEAN /\ crashed' \in BOOLEAN
    BY <1>1 DEF IInv, TypeOK
  <2> QED
    BY <1>1, <2>1, <2>2 DEF IInv, TypeOK, lengths, agent, socket
<1>3. TimersKnown' /\ WaitThere'
  BY <1>1 DEF IInv, TimersKnown, WaitThere, At, InSeries, socket
<1>4. \A n \in 0 .. 3 : Saving(n) => Saving(n)'
  BY <1>1, SMTT(30) DEF Saving, At, InSeries
<1>5. Phase' /\ Shape'
  BY <1>1, <1>4, SamePhase DEF socket
<1>6. Handler'
  <2>1. finished' # finished => handler = "returned" /\ wg = 0
    <3> SUFFICES ASSUME current = Idle, queue = <<>>
                 PROVE  handler = "returned" /\ wg = 0
      BY <1>1
    <3>1. handler = "returned"
      BY SaveKinds DEF IInv, Handler
    <3>2. \A i \in InSeries : At(i).kind = "idle"
      BY EmptySeq, SaveKinds DEF InSeries, At
    <3> QED
      BY <3>1, <3>2 DEF IInv, WaitThere, TypeOK
  <2> QED
    BY <1>1, <2>1 DEF IInv, Handler, agent, socket
<1> QED
  BY <1>2, <1>3, <1>5, <1>6 DEF IInv

LEMMA NextIInv == IInv /\ [Next]_vars => IInv'
<1> SUFFICES ASSUME IInv, [Next]_vars PROVE IInv'
  OBVIOUS
<1>1. CASE StartAgent \/ Chunk \/ NewTurn \/ Completes \/ Fails
  BY <1>1, StartIInv, ChunkIInv, AgentIInv
<1>2. CASE LLMThread
  BY <1>2, PushStatementIInv, SaveStatementIInv, EndStatementIInv DEF LLMThread
<1>3. CASE QueueWait \/ NextTask
  BY <1>3, QueueWaitIInv, NextTaskIInv
<1>4. CASE WaitReturns \/ Retry \/ Saved
  BY <1>4, SeriesIInv
<1>5. CASE Finish \/ UseAfterFree \/ Terminated \/ UNCHANGED vars
  BY <1>5, EndIInv DEF Terminated
<1> QED
  BY <1>1, <1>2, <1>3, <1>4, <1>5 DEF Next, SeriesThread

LEMMA Invariance == Spec => []IInv
  BY InitIInv, NextIInv, PTL DEF Spec

-----------------------------------------------------------------------------
(* Theorems.                                                                *)

\* Every variable keeps its type.
THEOREM TypeCorrect == Spec => []TypeOK
<1>1. IInv => TypeOK
  BY DEF IInv
<1> QED
  BY <1>1, Invariance, PTL

\* What holds when the series is over: the last callback has returned.
LEMMA AtTheEnd ==
    ASSUME IInv, finished
    PROVE  /\ callback = <<>> /\ ctx = "freed" /\ Last("end") /\ queue = <<>>
           /\ current = Idle
           /\ Completing(8) \/ Failing(6)
<1>1. wg = 0 /\ queue = <<>> /\ current = Idle
  BY DEF IInv, Handler
<1>2. Completing(8) \/ Failing(6)
  BY <1>1, Bodies DEF IInv, Phase, NotEnded, Completing, Failing, Doing
<1>3. CASE Completing(8)
  <2>1. callback = SubSeq(CompleteBody, Len(CompleteBody) + 1, Len(CompleteBody))
    BY <1>3, Bodies DEF Completing, Doing
  <2> QED
    BY <1>1, <1>3, <2>1, Bodies, NoSuffix DEF Completing, Doing
<1>4. CASE Failing(6)
  <2>1. callback = SubSeq(ErrorBody, Len(ErrorBody) + 1, Len(ErrorBody))
    BY <1>4, Bodies DEF Failing, Doing
  <2> QED
    BY <1>1, <1>4, <2>1, Bodies, NoSuffix DEF Failing, Doing
<1> QED
  BY <1>2, <1>3, <1>4

\* Whatever the socket does and however often it does it: the series is there
\* as long as a callback of the agent may come (Callback.cc:507-511).
THEOREM SeriesOutlives == Spec => []SeriesOutlivesRun
<1>1. IInv => SeriesOutlivesRun
  BY AtTheEnd DEF SeriesOutlivesRun, Completing, Failing
<1> QED
  BY <1>1, Invariance, PTL

\* The ChatContext is freed by the last callback only, and always
\* (Callback.cc:490, 503).
THEOREM ContextLives == Spec => []ContextLifetime
<1>1. ASSUME IInv, ctx = "freed"
      PROVE  outcome \in {"complete", "error"} /\ callback \in {<<>>, <<"signal">>}
  <2>1. CASE callback = <<>>
    BY <1>1, <2>1 DEF IInv, Phase, NotEnded, Completing, Failing
  <2>2. CASE callback # <<>>
    <3>1. ASSUME NEW k \in 1 .. 7, Completing(k)
          PROVE  callback = <<"signal">>
      <4>1. k = 7
        BY <1>1, <3>1, Bodies DEF Completing, Doing
      <4>2. callback = SubSeq(CompleteBody, 7, 7)
        BY <3>1, <4>1, Bodies DEF Completing, Doing
      <4>3. SubSeq(CompleteBody, 7, 7) = <<CompleteBody[7]>>
        <5>1. CompleteBody \in Seq(Statements) /\ 7 \in 1 .. Len(CompleteBody)
          BY Bodies
        <5> QED
          BY <5>1, LastOne
      <4> QED
        BY <4>2, <4>3, Bodies
    <3>2. ASSUME NEW k \in 1 .. 5, Failing(k)
          PROVE  callback = <<"signal">>
      <4>1. k = 5
        BY <1>1, <3>2, Bodies DEF Failing, Doing
      <4>2. callback = SubSeq(ErrorBody, 5, 5)
        BY <3>2, <4>1, Bodies DEF Failing, Doing
      <4>3. SubSeq(ErrorBody, 5, 5) = <<ErrorBody[5]>>
        <5>1. ErrorBody \in Seq(Statements) /\ 5 \in 1 .. Len(ErrorBody)
          BY Bodies
        <5> QED
          BY <5>1, LastOne
      <4> QED
        BY <4>2, <4>3, Bodies
    <3> QED
      BY <1>1, <2>2, <3>1, <3>2, InCallback DEF Completing, Failing
  <2> QED
    BY <2>1, <2>2
<1>2. IInv => ContextLifetime
  BY <1>1, AtTheEnd DEF ContextLifetime
<1> QED
  BY <1>2, Invariance, PTL

\* The stream is well formed, whatever the number of chunks and of retries
\* (Callback.cc:404, 457, 499).
THEOREM StreamWellFormed == Spec => []StreamShape
<1>1. ASSUME IInv PROVE StreamShape
  <2>1. DOMAIN blocks = 1 .. Len(blocks)
    BY <1>1 DEF IInv, TypeOK
  <2>2. finished => blocks[Len(blocks)].kind = "end"
    BY <1>1, AtTheEnd DEF Last
  <2> QED
    BY <1>1, <2>1, <2>2 DEF IInv, Shape, StreamShape
<1> QED
  BY <1>1, Invariance, PTL

\* The context is saved in order and whole, or not at all (Callback.cc:484).
THEOREM SavesInOrder == Spec => []SavedInOrder
<1>1. ASSUME IInv PROVE SavedInOrder
  <2>1. PICK n \in 0 .. 3 :
            Saving(n) /\ (Completing(8) => n = 3) /\ (Failing(6) => n = 0)
    <3>1. CASE NotEnded
      BY <3>1 DEF NotEnded, Completing, Failing
    <3>2. ASSUME NEW k \in 1 .. 8, Completing(k)
          PROVE  \E n \in 0 .. 3 :
                    Saving(n) /\ (Completing(8) => n = 3) /\ (Failing(6) => n = 0)
      <4>1. Completing(8) => Saving(3)
        <5>1. Queued(8) = 3
          BY DEF Queued
        <5> QED
          BY <5>1 DEF Completing
      <4>2. Queued(k) \in 0 .. 3 /\ Saving(Queued(k)) /\ ~Failing(6)
        BY <3>2 DEF Completing, Queued, Failing
      <4> QED
        BY <4>1, <4>2
    <3>3. ASSUME NEW k \in 1 .. 6, Failing(k)
          PROVE  Saving(0) /\ ~Completing(8)
      BY <3>3 DEF Failing, Completing
    <3> QED
      BY <1>1, <3>1, <3>2, <3>3 DEF IInv, Phase
  <2>2. /\ commands \in Seq(SaveSet) /\ Len(commands) \in Nat /\ Len(commands) <= n
        /\ \A i \in 1 .. Len(commands) : commands[i] = Saves[i]
    <3>1. commands \in Seq(SaveSet)
      BY <1>1 DEF IInv, TypeOK, SaveSet
    <3>2. Len(commands) \in Nat
      BY <3>1, LenProperties
    <3>3. /\ Len(commands) <= n
          /\ \A i \in 1 .. Len(commands) : commands[i] = Saves[i]
      BY <2>1 DEF Saving
    <3> QED
      BY <3>1, <3>2, <3>3
  <2>3. Saves \in Seq(SaveSet) /\ Len(Saves) = 3
    <3>1. Saves = [m \in 1 .. 3 |-> Saves[m]] /\ Len(Saves) = 3
      BY DEF Saves
    <3>2. [m \in 1 .. 3 |-> Saves[m]] \in Seq(SaveSet)
      BY SaveKinds
    <3> QED
      BY <3>1, <3>2
  <2>4. commands = SubSeq(Saves, 1, Len(commands))
    <3>1. /\ SubSeq(Saves, 1, Len(commands)) \in Seq(SaveSet)
          /\ Len(SubSeq(Saves, 1, Len(commands))) = Len(commands)
          /\ \A i \in 1 .. Len(commands) : SubSeq(Saves, 1, Len(commands))[i] = Saves[i]
      BY <2>1, <2>2, <2>3, SubSeqProperties
    <3> QED
      BY <2>2, <3>1, SeqEqual
  <2>5. ASSUME finished PROVE Len(commands) = n
    <3>1. \A i \in InSeries : At(i).kind = "idle"
      BY <1>1, <2>5, AtTheEnd, EmptySeq, SaveKinds DEF InSeries, At
    <3>2. \A m \in Len(commands) + 1 .. n : FALSE
      <4>1. \A m \in Len(commands) + 1 .. n : m \in 1 .. 3
        BY <2>2
      <4> QED
        BY <2>1, <3>1, <4>1, SaveKinds DEF Saving
    <3> QED
      BY <2>2, <3>2
  <2>6. ASSUME finished
        PROVE  commands = IF outcome = "complete" THEN Saves ELSE <<>>
    <3>1. CASE Completing(8)
      BY <2>1, <2>3, <2>4, <2>5, <2>6, <3>1, NoSuffix DEF Completing
    <3>2. CASE Failing(6)
      <4>1. Len(commands) = 0 /\ outcome = "error"
        BY <2>1, <2>5, <2>6, <3>2 DEF Failing
      <4> QED
        BY <2>2, <4>1, EmptySeq
    <3> QED
      BY <1>1, <2>6, <3>1, <3>2, AtTheEnd
  <2> QED
    BY <2>4, <2>6 DEF SavedInOrder
<1> QED
  BY <1>1, Invariance, PTL

-----------------------------------------------------------------------------
(***************************************************************************)
(* Delivery.  For every size of the blocks, every range of size_t that is   *)
(* large enough and every way the socket may cut and refuse the writes:     *)
(* PushWithRetry and its retries bring every byte of the stream to the      *)
(* socket.                                                                  *)
(***************************************************************************)

(***************************************************************************)
(* The inductive invariant.  Of a block with l bytes left there is one timer *)
(* task with that l if l > 0, and none otherwise.  All bytes but the last l  *)
(* have been written.  After a refused write l may be larger than the block. *)
(***************************************************************************)
MaxLeft == Size + MaxStalls

Pending(b, l) == current = Timer(b, l) \/ Holds(queue, Timer(b, l))

Alone(b, l) ==
    /\ Single(queue, Timer(b, l))
    /\ ~(current = Timer(b, l) /\ Holds(queue, Timer(b, l)))

\* All bytes but the last l have been written, at least or exactly once.
WrittenBut(b, l) ==
    /\ \A o \in 1 .. Size : o <= Size - l => Holds(wire, <<b, o>>)
    /\ ~refused =>
          /\ l <= Size
          /\ \A o \in 1 .. Size :
                /\ Single(wire, <<b, o>>)
                /\ o > Size - l => ~Holds(wire, <<b, o>>)

Left(b, l) ==
    /\ \A m \in Nat : Pending(b, m) <=> m = l /\ l > 0
    /\ Alone(b, l)
    /\ WrittenBut(b, l)

DInv == \A b \in 1 .. Len(blocks) : \E l \in 0 .. MaxLeft : Left(b, l)

-----------------------------------------------------------------------------
(* size_t.                                                                  *)

\* nwritten as a size_t, for both kinds of result (Callback.cc:52-60).
LEMMA LeftOver ==
    ASSUME NEW n \in 1 .. MaxLeft, NEW r \in -1 .. n
    PROVE  /\ Remaining(n, r) \in 0 .. MaxLeft
           /\ r >= 0 => Remaining(n, r) = n - r
           /\ r = -1 => Remaining(n, r) >= n
<1>1. /\ MaxLeft \in Nat /\ SizeMod \in Nat /\ SizeMod > 4 * MaxLeft
      /\ Size \in Nat \ {0} /\ MaxStalls \in Nat /\ MaxLeft = Size + MaxStalls
  BY BoundAssumption DEF MaxLeft
<1>2. CASE r >= 0
  <2>1. Wrap(r) = r
    BY <1>1, <1>2 DEF Wrap
  <2>2. n - r \in Nat /\ n - r < SizeMod /\ n - r <= MaxLeft
    BY <1>1, <1>2
  <2>3. Wrap(n - r) = n - r
    BY <1>1, <2>2 DEF Wrap
  <2>4. Remaining(n, r) = n - r
    BY <1>1, <2>1, <2>2, <2>3 DEF Remaining
  <2> QED
    BY <1>1, <1>2, <2>2, <2>4
<1>3. CASE r = -1
  <2>1. Wrap(r) = SizeMod - 1
    BY <1>1, <1>3 DEF Wrap
  <2>2. n - (SizeMod - 1) = (n + 1) - SizeMod /\ n + 1 \in Nat /\ n + 1 < SizeMod
    BY <1>1
  <2>3. Wrap(n - (SizeMod - 1)) = n + 1
    BY <1>1, <2>2 DEF Wrap
  <2>4. Remaining(n, r) = IF n + 1 > MaxLeft THEN MaxLeft ELSE n + 1
    BY <1>1, <2>1, <2>3 DEF Remaining, MaxLeft
  <2> QED
    BY <1>1, <1>3, <2>4
<1>4. r >= 0 \/ r = -1
  OBVIOUS
<1> QED
  BY <1>2, <1>3, <1>4

\* A retry goes on at the byte behind the last one written, also when more is
\* left than the block has (Callback.cc:71-90).
LEMMA Position ==
    ASSUME NEW n \in 1 .. MaxLeft
    PROVE  Offset(Wrap(Size - n)) = Size - n
<1>1. /\ MaxLeft \in Nat /\ SizeMod \in Nat /\ SizeMod > 4 * MaxLeft
      /\ Size \in Nat \ {0} /\ MaxStalls \in Nat /\ MaxLeft = Size + MaxStalls
  BY BoundAssumption DEF MaxLeft
<1>2. CASE n <= Size
  <2>1. Size - n \in Nat /\ 2 * (Size - n) < SizeMod
    BY <1>1, <1>2
  <2>2. Wrap(Size - n) = Size - n
    BY <1>1, <2>1 DEF Wrap
  <2> QED
    BY <2>1, <2>2 DEF Offset
<1>3. CASE n > Size
  <2>1. PICK k \in 1 .. MaxStalls : n = Size + k
    <3>1. n - Size \in 1 .. MaxStalls /\ n = Size + (n - Size)
      BY <1>1, <1>3
    <3> QED
      BY <3>1
  <2>2. Size - n = -k /\ SizeMod - k \in 1 .. SizeMod - 1 /\ 2 * (SizeMod - k) >= SizeMod
    BY <1>1, <2>1
  <2>3. Wrap(-k) = SizeMod - k
    BY <1>1, <2>1, <2>2 DEF Wrap
  <2> QED
    BY <1>1, <2>1, <2>2, <2>3 DEF Offset
<1> QED
  BY <1>1, <1>2, <1>3

-----------------------------------------------------------------------------
(* Writes.                                                                  *)

\* The bytes of one write.
LEMMA BytesType ==
    ASSUME NEW m \in Nat, NEW b \in 1 .. m, NEW pos \in Int, NEW k \in Nat
    PROVE  Bytes(b, pos, k) \in Seq((1 .. m) \X Int)
<1>1. \A i \in 1 .. k : <<b, pos + i>> \in (1 .. m) \X Int
  OBVIOUS
<1> QED
  BY <1>1 DEF Bytes

LEMMA BytesHold ==
    ASSUME NEW b, NEW pos \in Int, NEW k \in Nat, NEW c, NEW o \in Int
    PROVE  /\ Holds(Bytes(b, pos, k), <<c, o>>) <=> c = b /\ o \in pos + 1 .. pos + k
           /\ Single(Bytes(b, pos, k), <<c, o>>)
<1> DEFINE s == Bytes(b, pos, k)
           x == <<c, o>>
<1>1. s = [i \in 1 .. k |-> <<b, pos + i>>]
  BY DEF Bytes
<1>2. Len(s) = k
  <2> DEFINE All == {<<b, pos + i>> : i \in 1 .. k}
  <2>1. \A i \in 1 .. k : <<b, pos + i>> \in All
    OBVIOUS
  <2> HIDE DEF s, All
  <2> QED
    BY <1>1, <2>1
<1>3. \A i \in 1 .. k : s[i] = <<b, pos + i>>
  <2> HIDE DEF s
  <2> QED
    BY <1>1
<1> HIDE DEF s
<1>4. \A i \in 1 .. k : s[i] = x <=> c = b /\ o = pos + i
  BY <1>3
<1> HIDE DEF x
<1>5. Single(s, x)
  <2> SUFFICES ASSUME NEW i \in 1 .. k, NEW j \in 1 .. k,
                      s[i] = x, s[j] = x
               PROVE  i = j
    BY <1>2 DEF Single
  <2>1. o = pos + i /\ o = pos + j
    BY <1>4
  <2> QED
    BY <2>1
<1>6. ASSUME c = b, o \in pos + 1 .. pos + k PROVE Holds(s, x)
  <2>1. o - pos \in 1 .. k /\ o = pos + (o - pos)
    BY <1>6
  <2> QED
    BY <1>2, <1>4, <1>6, <2>1 DEF Holds
<1>7. ASSUME Holds(s, x) PROVE c = b /\ o \in pos + 1 .. pos + k
  <2>1. PICK i \in 1 .. k : s[i] = x
    BY <1>2, <1>7 DEF Holds
  <2>2. c = b /\ o = pos + i
    BY <1>4, <2>1
  <2> QED
    BY <2>2
<1> QED
  BY <1>5, <1>6, <1>7 DEF s, x

\* What a write of the n bytes a block has left does to that block and to the
\* others.
LEMMA WritesMore ==
    ASSUME TypeOK, NEW m \in Nat, Len(blocks) <= m, NEW b \in 1 .. m,
           NEW n \in 1 .. MaxLeft, NEW r \in -1 .. n,
           NEW pos, pos = Size - n, HttpPush(b, pos, n, r),
           NEW new, new = Remaining(n, r)
    PROVE  /\ new \in 0 .. MaxLeft
           /\ WrittenBut(b, n) => WrittenBut(b, new)'
           /\ \A c \in 1 .. m : \A l \in Nat :
                 c # b /\ WrittenBut(c, l) => WrittenBut(c, l)'
<1>1. /\ Size \in Nat \ {0} /\ MaxLeft \in Nat /\ pos \in Int
  BY BoundAssumption DEF MaxLeft
<1>2. /\ new \in 0 .. MaxLeft
      /\ r >= 0 => new = n - r
      /\ r = -1 => new >= n
  BY LeftOver
<1>3. wire \in Seq((1 .. m) \X Int)
  <2>1. wire \in Seq((1 .. Len(blocks)) \X Int) /\ Len(blocks) \in Nat
    BY LenProperties DEF TypeOK
  <2>2. (1 .. Len(blocks)) \X Int \subseteq (1 .. m) \X Int
    BY <2>1
  <2> QED
    BY <2>1, <2>2
<1>4. CASE r \in 0 .. n /\ wire' = wire \o Bytes(b, pos, r) /\ refused' = refused
  <2>1. ASSUME NEW c \in 1 .. m, NEW o \in Int
        PROVE  /\ Holds(wire', <<c, o>>) <=>
                     \/ Holds(wire, <<c, o>>)
                     \/ c = b /\ o \in pos + 1 .. pos + r
               /\ Single(wire', <<c, o>>) <=>
                     /\ Single(wire, <<c, o>>)
                     /\ ~(Holds(wire, <<c, o>>) /\ c = b /\ o \in pos + 1 .. pos + r)
    <3> DEFINE more == Bytes(b, pos, r)
    <3>1. /\ more \in Seq((1 .. m) \X Int) /\ Single(more, <<c, o>>)
          /\ Holds(more, <<c, o>>) <=> c = b /\ o \in pos + 1 .. pos + r
      <4>1. r \in Nat /\ pos \in Int
        BY <1>1, <1>4
      <4>2. more \in Seq((1 .. m) \X Int)
        BY <4>1, BytesType
      <4>3. Single(more, <<c, o>>)
        BY <4>1, BytesHold
      <4>4. Holds(more, <<c, o>>) <=> c = b /\ o \in pos + 1 .. pos + r
        BY <4>1, BytesHold
      <4> QED
        BY <4>2, <4>3, <4>4
    <3>2. wire' = wire \o more
      BY <1>4
    <3> HIDE DEF more
    <3>3. /\ Holds(wire \o more, <<c, o>>) <=>
                Holds(wire, <<c, o>>) \/ Holds(more, <<c, o>>)
          /\ Single(wire \o more, <<c, o>>) <=>
                /\ Single(wire, <<c, o>>) /\ Single(more, <<c, o>>)
                /\ ~(Holds(wire, <<c, o>>) /\ Holds(more, <<c, o>>))
      BY <1>3, <3>1, HoldsConcat
    <3> QED
      BY <3>1, <3>2, <3>3
  <2>2. ASSUME NEW c \in 1 .. m, NEW l \in Nat, c # b, WrittenBut(c, l)
        PROVE  WrittenBut(c, l)'
    BY <1>4, <2>1, <2>2 DEF WrittenBut
  <2>3. ASSUME WrittenBut(b, n)
        PROVE  WrittenBut(b, new)'
    <3>1. new = n - r /\ pos = Size - n
      BY <1>2, <1>4
    <3>2. ASSUME NEW o \in 1 .. Size, o <= Size - new
          PROVE  Holds(wire', <<b, o>>)
      <4>1. o <= Size - n \/ o \in pos + 1 .. pos + r
        BY <1>1, <1>4, <3>1, <3>2
      <4> QED
        BY <2>1, <2>3, <4>1 DEF WrittenBut
    <3>3. ASSUME ~refused, NEW o \in 1 .. Size
          PROVE  /\ new <= Size /\ Single(wire', <<b, o>>)
                 /\ o > Size - new => ~Holds(wire', <<b, o>>)
      <4>1. /\ n <= Size /\ Single(wire, <<b, o>>)
            /\ o > Size - n => ~Holds(wire, <<b, o>>)
        BY <2>3, <3>3 DEF WrittenBut
      <4>2. /\ o \in pos + 1 .. pos + r => o > Size - n
            /\ o > Size - new => o > Size - n /\ o \notin pos + 1 .. pos + r
            /\ new <= Size
        BY <1>1, <1>4, <3>1, <4>1
      <4> QED
        BY <2>1, <4>1, <4>2
    <3>4. ~refused => new <= Size
      BY <1>1, <1>4, <2>3, <3>1 DEF WrittenBut
    <3> QED
      BY <1>4, <3>2, <3>3, <3>4 DEF WrittenBut
  <2> QED
    BY <1>2, <2>2, <2>3
<1>5. CASE r = -1 /\ wire' = wire /\ refused' = TRUE
  <2>1. \A o \in 1 .. Size : o <= Size - new => o <= Size - n
    BY <1>1, <1>2, <1>5
  <2>2. WrittenBut(b, n) => WrittenBut(b, new)'
    BY <1>5, <2>1 DEF WrittenBut
  <2>3. \A c \in 1 .. m : \A l \in Nat : WrittenBut(c, l) => WrittenBut(c, l)'
    BY <1>5 DEF WrittenBut
  <2> QED
    BY <1>2, <2>2, <2>3
<1>6. \/ r \in 0 .. n /\ wire' = wire \o Bytes(b, pos, r) /\ refused' = refused
      \/ r = -1 /\ wire' = wire /\ refused' = TRUE
  <2>1. n \in 0 .. n /\ \A k \in 1 .. n - 1 : k \in 0 .. n
    BY <1>1
  <2> QED
    BY <2>1 DEF HttpPush
<1> QED
  BY <1>4, <1>5, <1>6

-----------------------------------------------------------------------------
(* The series.                                                              *)

LEMMA Timers ==
    ASSUME NEW b \in Nat, NEW l \in Nat
    PROVE  /\ Timer(b, l) \in Tasks /\ Timer(b, l).kind = "timer"
           /\ Timer(b, l).block = b /\ Timer(b, l).nleft = l
           /\ Timer(b, l) # Idle
           /\ \A c, m : Timer(b, l) = Timer(c, m) <=> b = c /\ l = m
BY DEF Timer, Tasks, Kinds, Idle, Task

\* The timer task for what is left of a block.
LEMMA RetryingHolds ==
    ASSUME NEW s \in Seq(Tasks), NEW b \in Nat, NEW new \in Nat,
           NEW c \in Nat, NEW l \in Nat
    PROVE  /\ Holds(Retrying(b, new, s), Timer(c, l)) <=>
                 \/ Holds(s, Timer(c, l))
                 \/ new > 0 /\ c = b /\ l = new
           /\ Single(Retrying(b, new, s), Timer(c, l)) <=>
                 /\ Single(s, Timer(c, l))
                 /\ ~(Holds(s, Timer(c, l)) /\ new > 0 /\ c = b /\ l = new)
<1> DEFINE one == <<Timer(b, new)>>
           x == Timer(c, l)
<1>1. one \in Seq(Tasks)
  BY Timers
<1>2. (Holds(one, x) <=> x = Timer(b, new)) /\ Single(one, x)
  BY HoldsOne
<1>3. x = Timer(b, new) <=> c = b /\ l = new
  BY Timers
<1>4. Retrying(b, new, s) = IF new > 0 THEN one \o s ELSE s
  BY DEF Retrying
<1> HIDE DEF one, x
<1>5. /\ Holds(one \o s, x) <=> Holds(one, x) \/ Holds(s, x)
      /\ Single(one \o s, x) <=> /\ Single(one, x) /\ Single(s, x)
                                 /\ ~(Holds(one, x) /\ Holds(s, x))
  BY <1>1, HoldsConcat
<1>6. /\ Holds(Retrying(b, new, s), x) <=>
             \/ Holds(s, x)
             \/ new > 0 /\ c = b /\ l = new
      /\ Single(Retrying(b, new, s), x) <=>
             /\ Single(s, x)
             /\ ~(Holds(s, x) /\ new > 0 /\ c = b /\ l = new)
  <2>1. CASE new > 0
    BY <1>2, <1>3, <1>4, <1>5, <2>1
  <2>2. CASE ~(new > 0)
    BY <1>4, <2>2
  <2> QED
    BY <2>1, <2>2
<1> QED
  BY <1>6 DEF x

-----------------------------------------------------------------------------
(* Steps.                                                                   *)

\* A step that writes nothing and keeps the timers keeps the invariant.
LEMMA SameDInv ==
    ASSUME DInv, UNCHANGED <<wire, refused, blocks>>,
           \A b \in 1 .. Len(blocks), l \in Nat :
              /\ Pending(b, l)' <=> Pending(b, l)
              /\ Alone(b, l) => Alone(b, l)'
    PROVE  DInv'
<1>1. ASSUME NEW b \in 1 .. Len(blocks), NEW l \in Nat, Left(b, l)
      PROVE  Left(b, l)'
  <2>1. WrittenBut(b, l)'
    BY <1>1 DEF Left, WrittenBut
  <2> QED
    BY <1>1, <2>1 DEF Left
<1>2. \A l \in 0 .. MaxLeft : l \in Nat
  BY BoundAssumption DEF MaxLeft
<1> QED
  BY <1>1, <1>2 DEF DInv

\* A new block is written, as far as the socket takes it.
LEMMA PushDInv ==
    ASSUME IInv, DInv, NEW block, PushWithRetry(block), current' = current
    PROVE  DInv'
<1>1. /\ TypeOK /\ queue \in Seq(Tasks) /\ current \in Tasks
      /\ wire \in Seq((1 .. Len(blocks)) \X Int)
      /\ Len(blocks) \in Nat /\ Len(blocks') = Len(blocks) + 1
  <2>1. /\ TypeOK /\ queue \in Seq(Tasks) /\ current \in Tasks
        /\ wire \in Seq((1 .. Len(blocks)) \X Int)
        /\ blocks \in Seq(BlockSet) /\ blocks' = Append(blocks, block)
    BY DEF IInv, TypeOK, BlockSet, PushWithRetry
  <2>2. PICK Any : BlockSet \subseteq Any /\ block \in Any
    <3>1. BlockSet \subseteq BlockSet \cup {block} /\ block \in BlockSet \cup {block}
      OBVIOUS
    <3> QED
      BY <3>1
  <2>3. blocks \in Seq(Any)
    BY <2>1, <2>2
  <2> QED
    BY <2>1, <2>2, <2>3, AppendProperties, LenProperties
<1>2. PICK b \in Nat : b = Len(blocks) + 1
  BY <1>1
<1>3. PICK r \in -1 .. Size :
          /\ HttpPush(b, 0, Size, r)
          /\ queue' = Retrying(b, Remaining(Size, r), queue)
  BY <1>2 DEF PushWithRetry
<1>4. PICK new : new = Remaining(Size, r)
  OBVIOUS
<1>5. Size \in 1 .. MaxLeft /\ 0 = Size - Size /\ b \in 1 .. b /\ Len(blocks) <= b
  BY <1>1, <1>2, BoundAssumption DEF MaxLeft
<1>6. /\ new \in 0 .. MaxLeft
      /\ WrittenBut(b, Size) => WrittenBut(b, new)'
      /\ \A c \in 1 .. b : \A l \in Nat :
            c # b /\ WrittenBut(c, l) => WrittenBut(c, l)'
  BY <1>1, <1>3, <1>4, <1>5, WritesMore
<1>7. WrittenBut(b, Size)
  <2>1. \A o : ~Holds(wire, <<b, o>>)
    BY <1>1, <1>2 DEF Holds
  <2>2. \A o \in 1 .. Size : ~(o <= Size - Size)
    BY <1>5
  <2> QED
    BY <1>5, <2>1, <2>2 DEF WrittenBut, Holds, Single
<1>8. \A m \in Nat : current # Timer(b, m) /\ ~Holds(queue, Timer(b, m))
  <2> SUFFICES ASSUME NEW m \in Nat, NEW t, t = Timer(b, m)
               PROVE  current # t /\ ~Holds(queue, t)
    OBVIOUS
  <2>1. t.kind = "timer" /\ t.block = b /\ b \notin 1 .. Len(blocks)
    BY <1>1, <1>2, Timers
  <2>2. \A i \in InSeries : At(i) # t
    BY <2>1 DEF IInv, TimersKnown
  <2>3. /\ 0 \in InSeries /\ At(0) = current
        /\ \A i \in 1 .. Len(queue) : i \in InSeries /\ At(i) = queue[i]
    BY <1>1, LenProperties DEF InSeries, At
  <2> QED
    BY <2>2, <2>3 DEF Holds
<1>9. \A c \in 1 .. b, l \in Nat :
        /\ Holds(queue', Timer(c, l)) <=>
              \/ Holds(queue, Timer(c, l))
              \/ new > 0 /\ c = b /\ l = new
        /\ Single(queue', Timer(c, l)) <=>
              /\ Single(queue, Timer(c, l))
              /\ ~(Holds(queue, Timer(c, l)) /\ new > 0 /\ c = b /\ l = new)
  <2>1. new \in Nat
    BY <1>6
  <2>2. \A c \in 1 .. b : c \in Nat
    OBVIOUS
  <2> QED
    BY <1>1, <1>2, <1>3, <1>4, <2>1, <2>2, RetryingHolds
<1>10. Left(b, new)'
  <2>1. b \in 1 .. b /\ new \in Nat
    BY <1>5, <1>6
  <2>2. \A m \in Nat : Pending(b, m)' <=> m = new /\ new > 0
    BY <1>8, <1>9, <2>1 DEF Pending
  <2>3. Single(queue, Timer(b, new))
    BY <1>8, <2>1 DEF Holds, Single
  <2>4. Alone(b, new)'
    BY <1>8, <1>9, <2>1, <2>3 DEF Alone
  <2> QED
    BY <1>6, <1>7, <2>2, <2>4 DEF Left
<1>11. ASSUME NEW c \in 1 .. Len(blocks)
       PROVE  \E l \in 0 .. MaxLeft : Left(c, l)'
  <2>1. PICK l \in 0 .. MaxLeft : Left(c, l)
    BY DEF DInv
  <2>2. c \in 1 .. b /\ c # b /\ l \in Nat
    BY <1>1, <1>2, <2>1
  <2>3. WrittenBut(c, l)'
    BY <1>6, <2>1, <2>2 DEF Left
  <2>4. \A m \in Nat : Pending(c, m)' <=> Pending(c, m)
    BY <1>9, <2>2 DEF Pending
  <2>5. Alone(c, l)'
    BY <1>9, <2>1, <2>2 DEF Alone, Left
  <2> QED
    BY <2>1, <2>3, <2>4, <2>5 DEF Left
<1>12. \A c \in 1 .. Len(blocks') : c \in 1 .. Len(blocks) \/ c = b
  BY <1>1, <1>2
<1> QED
  BY <1>6, <1>10, <1>11, <1>12 DEF DInv

\* A retry writes on where the one before stopped.
LEMMA RetryDInv == ASSUME IInv, DInv, Retry PROVE DInv'
<1>1. /\ TypeOK /\ queue \in Seq(Tasks) /\ current \in Tasks
      /\ current.kind = "timer" /\ current' = Idle /\ blocks' = blocks
      /\ Len(blocks) \in Nat
  BY LenProperties DEF IInv, TypeOK, Retry
<1>2. PICK b \in 1 .. Len(blocks), n \in Nat :
          b = current.block /\ n = current.nleft
  <2>1. 0 \in InSeries /\ At(0) = current
    BY <1>1, LenProperties DEF InSeries, At
  <2> QED
    BY <1>1, <2>1 DEF IInv, TimersKnown, Tasks
<1>3. current = Timer(b, n)
  BY <1>1, <1>2 DEF Tasks, Timer
<1>4. PICK l \in 0 .. MaxLeft : Left(b, l)
  BY DEF DInv
<1>5. n = l /\ n \in 1 .. MaxLeft
  <2>1. Pending(b, n)
    BY <1>3 DEF Pending
  <2> QED
    BY <1>4, <2>1 DEF Left
<1>6. PICK r \in -1 .. n :
          /\ HttpPush(b, Size - n, n, r)
          /\ queue' = Retrying(b, Remaining(n, r), queue)
  BY <1>2, <1>5, Position DEF Retry
<1>7. PICK new : new = Remaining(n, r)
  OBVIOUS
<1>8. /\ new \in 0 .. MaxLeft
      /\ WrittenBut(b, n) => WrittenBut(b, new)'
      /\ \A c \in 1 .. Len(blocks) : \A k \in Nat :
            c # b /\ WrittenBut(c, k) => WrittenBut(c, k)'
  <2>1. Len(blocks) <= Len(blocks)
    BY <1>1
  <2> QED
    BY <1>1, <1>5, <1>6, <1>7, <2>1, WritesMore
<1>9. \A c \in 1 .. Len(blocks), k \in Nat :
        /\ Holds(queue', Timer(c, k)) <=>
              \/ Holds(queue, Timer(c, k))
              \/ new > 0 /\ c = b /\ k = new
        /\ Single(queue', Timer(c, k)) <=>
              /\ Single(queue, Timer(c, k))
              /\ ~(Holds(queue, Timer(c, k)) /\ new > 0 /\ c = b /\ k = new)
  <2>1. new \in Nat /\ b \in Nat
    BY <1>8
  <2>2. \A c \in 1 .. Len(blocks) : c \in Nat
    OBVIOUS
  <2> QED
    BY <1>1, <1>6, <1>7, <2>1, <2>2, RetryingHolds
<1>10. \A c \in 1 .. Len(blocks), k \in Nat :
         /\ current' # Timer(c, k)
         /\ current = Timer(c, k) <=> c = b /\ k = n
  <2>1. \A c \in 1 .. Len(blocks), k \in Nat :
          /\ Timer(c, k) # Idle
          /\ Timer(b, n) = Timer(c, k) <=> b = c /\ n = k
    <3>1. \A c \in 1 .. Len(blocks) : c \in Nat
      OBVIOUS
    <3> QED
      BY <3>1, Timers
  <2> QED
    BY <1>1, <1>3, <2>1
<1>11. \A k \in Nat : ~Holds(queue, Timer(b, k))
  <2> SUFFICES ASSUME NEW k \in Nat, Holds(queue, Timer(b, k))
               PROVE  FALSE
    OBVIOUS
  <2>1. k = n
    BY <1>4, <1>5 DEF Left, Pending
  <2> QED
    BY <1>3, <1>4, <1>5, <2>1 DEF Left, Alone
<1>12. Left(b, new)'
  <2>1. new \in Nat
    BY <1>8
  <2>2. \A m \in Nat : Pending(b, m)' <=> m = new /\ new > 0
    BY <1>9, <1>10, <1>11, <2>1 DEF Pending
  <2>3. Single(queue, Timer(b, new))
    BY <1>11, <2>1 DEF Holds, Single
  <2>4. Alone(b, new)'
    BY <1>9, <1>10, <1>11, <2>1, <2>3 DEF Alone
  <2>5. WrittenBut(b, new)'
    BY <1>4, <1>5, <1>8 DEF Left
  <2> QED
    BY <2>2, <2>4, <2>5 DEF Left
<1>13. ASSUME NEW c \in 1 .. Len(blocks), c # b
       PROVE  \E k \in 0 .. MaxLeft : Left(c, k)'
  <2>1. PICK k \in 0 .. MaxLeft : Left(c, k)
    BY DEF DInv
  <2>2. k \in Nat
    OBVIOUS
  <2>3. WrittenBut(c, k)'
    BY <1>8, <1>13, <2>1, <2>2 DEF Left
  <2>4. \A m \in Nat : Pending(c, m)' <=> Pending(c, m)
    BY <1>9, <1>10, <1>13 DEF Pending
  <2>5. Alone(c, k)'
    BY <1>9, <1>10, <1>13, <2>1, <2>2 DEF Alone, Left
  <2> QED
    BY <2>1, <2>3, <2>4, <2>5 DEF Left
<1> QED
  BY <1>1, <1>8, <1>12, <1>13 DEF DInv

\* What is no timer comes and goes.
LEMMA MovedDInv ==
    ASSUME DInv, UNCHANGED <<wire, refused, blocks, queue>>,
           current.kind # "timer", current'.kind # "timer"
    PROVE  DInv'
<1>1. \A b, l : current # Timer(b, l) /\ current' # Timer(b, l)
  BY DEF Timer
<1> QED
  BY <1>1, SameDInv DEF Pending, Alone

\* A task that is no timer is queued; the running one may end.
LEMMA QueuedDInv ==
    ASSUME IInv, DInv, UNCHANGED <<wire, refused, blocks>>,
           NEW t \in Tasks, t.kind # "timer", queue' = Append(queue, t),
           \/ current' = current
           \/ current.kind # "timer" /\ current'.kind # "timer"
    PROVE  DInv'
<1> DEFINE one == <<t>>
<1>1. queue \in Seq(Tasks) /\ one \in Seq(Tasks) /\ queue' = queue \o one
  BY AppendIsConcat DEF IInv, TypeOK
<1>2. \A x : (Holds(one, x) <=> x = t) /\ Single(one, x)
  BY HoldsOne
<1> HIDE DEF one
<1>3. \A x : /\ Holds(queue', x) <=> Holds(queue, x) \/ x = t
             /\ Single(queue', x) <=> Single(queue, x) /\ ~(Holds(queue, x) /\ x = t)
  BY <1>1, <1>2, HoldsConcat
<1>4. \A b, l : /\ Timer(b, l) # t
                /\ current' = Timer(b, l) <=> current = Timer(b, l)
  BY DEF Timer
<1> QED
  BY <1>3, <1>4, SameDInv DEF Pending, Alone

\* The next task of the series may be a timer.
LEMMA NextTaskDInv == ASSUME IInv, DInv, NextTask PROVE DInv'
<1>1. /\ current = Idle /\ queue # <<>> /\ queue \in Seq(Tasks)
      /\ current' = Head(queue) /\ queue' = Tail(queue)
      /\ UNCHANGED <<wire, refused, blocks>>
  BY DEF NextTask, IInv, TypeOK, socket
<1>2. \A x : /\ Holds(queue, x) <=> x = current' \/ Holds(queue', x)
             /\ Single(queue, x) <=> /\ Single(queue', x)
                                     /\ ~(Holds(queue', x) /\ x = current')
  BY <1>1, HoldsHead
<1>3. \A b, l : Timer(b, l) # current
  BY <1>1 DEF Timer, Idle, Task
<1> QED
  BY <1>1, <1>2, <1>3, SameDInv DEF Pending, Alone

LEMMA NextDInv == IInv /\ DInv /\ [Next]_vars => DInv'
<1> SUFFICES ASSUME IInv, DInv, [Next]_vars PROVE DInv'
  OBVIOUS
<1>1. ASSUME UNCHANGED <<current, queue, wire, refused, blocks>> PROVE DInv'
  BY <1>1, SameDInv DEF Pending, Alone
<1>2. CASE StartAgent \/ PushStatement
  BY <1>2, PushDInv DEF StartAgent, PushStatement
<1>3. CASE Chunk
  <2>1. CASE \E block : PushWithRetry(block)
    BY <1>3, <2>1, PushDInv DEF Chunk
  <2>2. CASE UNCHANGED <<socket, queue>>
    BY <1>1, <1>3, <2>2 DEF Chunk, socket
  <2> QED
    BY <1>3, <2>1, <2>2 DEF Chunk, PushDelta
<1>4. CASE QueueWait
  <2>1. current.kind # "timer" /\ current'.kind # "timer"
    BY <1>4, SaveKinds DEF QueueWait, IInv, Handler
  <2>2. Task("agent_wait") \in Tasks /\ Task("agent_wait").kind # "timer"
    BY DEF Task, Tasks, Kinds
  <2> QED
    BY <1>4, <2>1, <2>2, QueuedDInv DEF QueueWait, socket
<1>5. CASE SaveStatement
  <2>1. PICK t : t = Task(Head(callback))
    OBVIOUS
  <2>2. t \in Tasks /\ t.kind # "timer"
    BY <1>5, <2>1, SaveKinds DEF SaveStatement, Task, Tasks, Kinds
  <2> QED
    BY <1>5, <2>1, <2>2, QueuedDInv DEF SaveStatement, socket
<1>6. CASE NextTask
  BY <1>6, NextTaskDInv
<1>7. CASE WaitReturns \/ Saved
  <2>1. current.kind # "timer" /\ current'.kind # "timer"
    BY <1>7, SaveKinds DEF WaitReturns, Saved
  <2> QED
    BY <1>7, <2>1, MovedDInv DEF WaitReturns, Saved, socket
<1>8. CASE Retry
  BY <1>8, RetryDInv
<1>9. CASE \/ NewTurn \/ Completes \/ Fails \/ DeleteStatement
           \/ SignalStatement \/ Finish \/ UseAfterFree \/ UNCHANGED vars
  BY <1>1, <1>9
     DEF NewTurn, Completes, Fails, DeleteStatement, SignalStatement, Finish,
         UseAfterFree, vars, series, socket
<1> QED
  BY <1>2, <1>3, <1>4, <1>5, <1>6, <1>7, <1>8, <1>9
     DEF Next, LLMThread, SeriesThread, Terminated

LEMMA InitDInv == Init => DInv
<1>1. \A b \in 1 .. 0 : FALSE
  OBVIOUS
<1>2. Init => Len(blocks) = 0
  BY DEF Init
<1> QED
  BY <1>1, <1>2 DEF DInv

-----------------------------------------------------------------------------

\* How often something was written, in numbers.
LEMMA Counted ==
    ASSUME NEW S, wire \in Seq(S), NEW b, NEW o, Holds(wire, <<b, o>>)
    PROVE  /\ Written(b, o) \in Nat /\ Written(b, o) >= 1
           /\ Single(wire, <<b, o>>) => Written(b, o) = 1
<1> DEFINE at == {i \in DOMAIN wire : wire[i] = <<b, o>>}
<1>1. Len(wire) \in Nat /\ DOMAIN wire = 1 .. Len(wire)
  BY LenProperties
<1>2. IsFiniteSet(at)
  <2>1. IsFiniteSet(1 .. Len(wire)) /\ at \in SUBSET (1 .. Len(wire))
    BY <1>1, FS_Interval
  <2> HIDE DEF at
  <2> QED
    BY <2>1, FS_Subset
<1>3. PICK i : i \in at
  BY <1>1 DEF Holds
<1>4. Single(wire, <<b, o>>) => at = {i}
  BY <1>1, <1>3 DEF Single
<1>5. Written(b, o) = Cardinality(at)
  BY DEF Written
<1> HIDE DEF at
<1> QED
  BY <1>2, <1>3, <1>4, <1>5, FS_CardinalityType, FS_EmptySet, FS_Singleton

\* However the socket cuts and refuses the writes: when the request is over
\* every byte of every block has been written, and once if none was refused
\* (Callback.cc:44-90).
THEOREM EveryByteDelivered == Spec => []Delivered
<1>1. ASSUME IInv, DInv, finished,
             NEW b \in DOMAIN blocks, NEW offset \in 1 .. Size
      PROVE  /\ Written(b, offset) >= 1
             /\ ~refused => Written(b, offset) = 1
  <2>1. b \in 1 .. Len(blocks)
    BY <1>1 DEF IInv, TypeOK
  <2>2. PICK l \in 0 .. MaxLeft : Left(b, l)
    BY <1>1, <2>1 DEF DInv
  <2>3. \A m \in Nat : ~Pending(b, m)
    <3>1. current = Idle /\ queue = <<>>
      BY <1>1, AtTheEnd
    <3> QED
      BY <3>1, HoldsNothing DEF Pending, Timer, Idle, Task
  <2>4. l = 0
    BY <2>2, <2>3 DEF Left
  <2>5. /\ Holds(wire, <<b, offset>>)
        /\ ~refused => Single(wire, <<b, offset>>)
    <3>1. offset <= Size - l
      BY <2>4, BoundAssumption
    <3> QED
      BY <2>2, <3>1 DEF Left, WrittenBut
  <2>6. wire \in Seq((1 .. Len(blocks)) \X Int)
    BY <1>1 DEF IInv, TypeOK
  <2> QED
    BY <2>5, <2>6, Counted
<1>2. IInv /\ DInv => Delivered
  BY <1>1 DEF Delivered
<1>3. Init => DInv
  BY InitDInv
<1>4. IInv /\ DInv /\ [Next]_vars => DInv'
  BY NextDInv
<1> QED
  BY <1>2, <1>3, <1>4, Invariance, PTL DEF Spec

-----------------------------------------------------------------------------
(***************************************************************************)
(* The first LLM call.  As long as it streams, each of the two lengths is   *)
(* that of what the agent has accumulated: no callback finds a message that *)
(* is shorter, and what is new by length is what the agent has put behind   *)
(* what it had.                                                             *)
(***************************************************************************)
FirstInv ==
    turn = 1 /\ outcome \in {"idle", "running"} =>
        /\ last_sent_len = Len(text) /\ Cut(Contents, text, 1)
        /\ last_reasoning_sent_len = Len(reasoning) /\ Cut(Reasonings, reasoning, 1)

\* A delta more that says the more there is to say, perhaps nothing.
LEMMA SentMore ==
    ASSUME NEW T, NEW deltas \in Seq(Seq(T)), NEW said \in Seq(T), NEW n,
           NEW more \in Seq(T), more = <<>> \/ OfTurn(more, n),
           Cut(deltas, said, n)
    PROVE  Cut(Append(deltas, more), said \o more, n)
<1> DEFINE deltas2 == Append(deltas, more)
           text2 == said \o more
           l == Len(deltas)
           m == Len(said)
           d == Len(more)
<1>1. PICK sent \in [0 .. Len(deltas) -> 0 .. Len(said)] :
        /\ sent[0] = 0 /\ sent[Len(deltas)] = Len(said)
        /\ \A i \in DOMAIN deltas :
              IF OfTurn(deltas[i], n)
              THEN deltas[i] = SubSeq(said, sent[i - 1] + 1, sent[i])
              ELSE sent[i] = sent[i - 1]
  BY DEF Cut, OfTurn
<1>2. /\ l \in Nat /\ Len(deltas2) = l + 1 /\ DOMAIN deltas2 = 1 .. l + 1
      /\ DOMAIN deltas = 1 .. l
      /\ deltas2[l + 1] = more /\ \A i \in 1 .. l : deltas2[i] = deltas[i]
  BY LenProperties, AppendProperties
<1>3. /\ m \in Nat /\ d \in Nat /\ Len(text2) = m + d /\ text2 \in Seq(T)
      /\ \A i \in 1 .. m : text2[i] = said[i]
      /\ \A i \in 1 .. d : text2[m + i] = more[i]
  <2>1. m \in Nat /\ d \in Nat
    BY LenProperties
  <2>2. /\ text2 \in Seq(T) /\ Len(text2) = m + d
        /\ \A i \in 1 .. m + d : text2[i] = IF i <= m THEN said[i] ELSE more[i - m]
    BY ConcatProperties
  <2> HIDE DEF m, d, text2
  <2>3. ASSUME NEW i \in 1 .. m PROVE text2[i] = said[i]
    BY <2>1, <2>2
  <2>4. ASSUME NEW i \in 1 .. d PROVE text2[m + i] = more[i]
    <3>1. m + i \in 1 .. m + d /\ ~(m + i <= m) /\ (m + i) - m = i
      BY <2>1
    <3> QED
      BY <2>2, <3>1
  <2> QED
    BY <2>1, <2>2, <2>3, <2>4
<1>4. /\ sent \in [0 .. l -> 0 .. m] /\ sent[0] = 0 /\ sent[l] = m
      /\ \A i \in 1 .. l : IF OfTurn(deltas[i], n)
                           THEN deltas[i] = SubSeq(said, sent[i - 1] + 1, sent[i])
                           ELSE sent[i] = sent[i - 1]
  BY <1>1, <1>2 DEF Cut, OfTurn
<1>5. \A a, b \in 0 .. m : SubSeq(text2, a + 1, b) = SubSeq(said, a + 1, b)
  <2> SUFFICES ASSUME NEW a \in 0 .. m, NEW b \in 0 .. m
               PROVE  SubSeq(text2, a + 1, b) = SubSeq(said, a + 1, b)
    OBVIOUS
  <2> HIDE DEF text2, m
  <2> DEFINE x == a + 1
             p == SubSeq(text2, x, b)
             q == SubSeq(said, x, b)
  <2>1. x \in Int /\ b \in Int /\ x >= 1 /\ b <= m
    BY <1>3
  <2>2. \A i \in x .. b : text2[i] = said[i] /\ said[i] \in T /\ text2[i] \in T
    <3> SUFFICES ASSUME NEW i \in x .. b
                 PROVE  text2[i] = said[i] /\ said[i] \in T
      OBVIOUS
    <3>1. i \in 1 .. m
      BY <1>3, <2>1
    <3>2. said[i] \in T
      BY <3>1, ElementOfSeq DEF m
    <3> QED
      BY <1>3, <3>1, <3>2
  <2> HIDE DEF x
  <2>3. /\ p \in Seq(T) /\ Len(p) = (IF x <= b THEN b - x + 1 ELSE 0)
        /\ \A i \in 1 .. b - x + 1 : p[i] = text2[x + i - 1]
    BY <2>1, <2>2, SubSeqProperties
  <2>4. /\ q \in Seq(T) /\ Len(q) = (IF x <= b THEN b - x + 1 ELSE 0)
        /\ \A i \in 1 .. b - x + 1 : q[i] = said[x + i - 1]
    BY <2>1, <2>2, SubSeqProperties
  <2> HIDE DEF p, q
  <2>5. \A i \in 1 .. Len(p) : p[i] = q[i]
    <3> SUFFICES ASSUME NEW i \in 1 .. Len(p) PROVE p[i] = q[i]
      OBVIOUS
    <3>1. i \in 1 .. b - x + 1 /\ x + i - 1 \in x .. b
      BY <2>1, <2>3
    <3> QED
      BY <2>2, <2>3, <2>4, <3>1
  <2>6. p = q
    BY <2>3, <2>4, <2>5, SeqEqual
  <2> QED
    BY <2>6 DEF p, q, x
<1>6. more = <<>> \/ more = SubSeq(text2, m + 1, m + d)
  <2> HIDE DEF m, d, text2
  <2> DEFINE x == m + 1
             y == m + d
             p == SubSeq(text2, x, y)
  <2>1. x \in Int /\ y \in Int /\ y - x + 1 = d
    BY <1>3
  <2>2. \A i \in x .. y : text2[i] \in T
    <3> SUFFICES ASSUME NEW i \in x .. y PROVE text2[i] \in T
      OBVIOUS
    <3>1. i \in 1 .. Len(text2)
      BY <1>3
    <3> QED
      BY <1>3, <3>1, ElementOfSeq
  <2> HIDE DEF x, y
  <2>3. /\ p \in Seq(T) /\ Len(p) = (IF x <= y THEN y - x + 1 ELSE 0)
        /\ \A i \in 1 .. y - x + 1 : p[i] = text2[x + i - 1]
    BY <2>1, <2>2, SubSeqProperties
  <2> HIDE DEF p
  <2>4. Len(p) = d
    BY <1>3, <2>1, <2>3
  <2>5. \A i \in 1 .. d : more[i] = p[i]
    <3> SUFFICES ASSUME NEW i \in 1 .. d PROVE more[i] = p[i]
      OBVIOUS
    <3>1. x + i - 1 = m + i /\ i \in 1 .. y - x + 1
      BY <1>3, <2>1 DEF x
    <3> QED
      BY <1>3, <2>3, <3>1
  <2>6. more = p
    BY <2>3, <2>4, <2>5, SeqEqual DEF d
  <2> QED
    BY <2>6 DEF p, x, y
<1>7. more = <<>> => d = 0 /\ ~OfTurn(more, n)
  BY EmptySeq DEF OfTurn
<1> HIDE DEF l, m, d, deltas2, text2
<1> DEFINE new == [i \in 0 .. l + 1 |-> IF i = l + 1 THEN m + d ELSE sent[i]]
<1>8. \A i \in 0 .. l : new[i] = sent[i] /\ sent[i] \in 0 .. m
  BY <1>2, <1>4
<1>9. new[l + 1] = m + d
  BY <1>2
<1>10. new \in [0 .. l + 1 -> 0 .. m + d]
  <2>1. \A i \in 0 .. l + 1 : new[i] \in 0 .. m + d
    <3> SUFFICES ASSUME NEW i \in 0 .. l + 1 PROVE new[i] \in 0 .. m + d
      OBVIOUS
    <3> HIDE DEF new
    <3>1. i = l + 1 \/ i \in 0 .. l
      BY <1>2
    <3>2. CASE i = l + 1
      BY <1>3, <1>9, <3>2
    <3>3. CASE i \in 0 .. l
      <4>1. new[i] \in 0 .. m
        BY <1>8, <3>3
      <4> QED
        BY <1>3, <4>1
    <3> QED
      BY <3>1, <3>2, <3>3
  <2> QED
    BY <2>1
<1> HIDE DEF new
<1>11. new[0] = 0
  BY <1>2, <1>4, <1>8
<1>12. ASSUME NEW i \in 1 .. l + 1
       PROVE  IF OfTurn(deltas2[i], n)
              THEN deltas2[i] = SubSeq(text2, new[i - 1] + 1, new[i])
              ELSE new[i] = new[i - 1]
  <2>1. CASE i = l + 1
    <3>1. deltas2[i] = more /\ i - 1 = l /\ new[i] = m + d /\ new[i - 1] = m
      BY <1>2, <1>4, <1>8, <1>9, <2>1
    <3>2. CASE more = <<>>
      BY <1>3, <1>7, <3>1, <3>2
    <3>3. CASE more # <<>>
      BY <1>6, <3>1, <3>3
    <3> QED
      BY <3>2, <3>3
  <2>2. CASE i \in 1 .. l
    <3>1. i \in 0 .. l /\ i - 1 \in 0 .. l
      BY <1>2, <2>2
    <3>2. new[i] = sent[i] /\ new[i - 1] = sent[i - 1] /\ deltas2[i] = deltas[i]
      BY <1>2, <1>8, <2>2, <3>1
    <3>3. SubSeq(text2, sent[i - 1] + 1, sent[i]) = SubSeq(said, sent[i - 1] + 1, sent[i])
      BY <1>5, <1>8, <3>1
    <3> QED
      BY <1>4, <2>2, <3>2, <3>3
  <2> QED
    BY <1>2, <2>1, <2>2
<1>13. Cut(deltas2, text2, n)
  <2>1. new \in [0 .. Len(deltas2) -> 0 .. Len(text2)]
    BY <1>2, <1>3, <1>10
  <2>2. new[0] = 0 /\ new[Len(deltas2)] = Len(text2)
    BY <1>2, <1>3, <1>9, <1>11
  <2>3. \A i \in DOMAIN deltas2 :
          IF \E k \in DOMAIN deltas2[i] : deltas2[i][k][1] = n
          THEN deltas2[i] = SubSeq(text2, new[i - 1] + 1, new[i])
          ELSE new[i] = new[i - 1]
    BY <1>2, <1>12 DEF OfTurn
  <2> QED
    BY <2>1, <2>2, <2>3 DEF Cut
<1> QED
  BY <1>13 DEF deltas2, text2

\* And what is new by length is that.
LEMMA UnsentMore ==
    ASSUME NEW T, NEW said \in Seq(T), NEW more \in Seq(T)
    PROVE  Unsent(said \o more, Len(said)) = more
<1> DEFINE grown == said \o more
           x == Len(said) + 1
           y == Len(grown)
           p == SubSeq(grown, x, y)
<1>1. /\ Len(said) \in Nat /\ Len(more) \in Nat /\ grown \in Seq(T)
      /\ Len(grown) = Len(said) + Len(more)
      /\ \A i \in 1 .. Len(said) + Len(more) :
            grown[i] = IF i <= Len(said) THEN said[i] ELSE more[i - Len(said)]
  BY LenProperties, ConcatProperties
<1> HIDE DEF grown
<1>2. x \in Int /\ y \in Int /\ y - x + 1 = Len(more)
  BY <1>1
<1>3. \A i \in x .. y : grown[i] \in T
  <2> SUFFICES ASSUME NEW i \in x .. y PROVE grown[i] \in T
    OBVIOUS
  <2>1. i \in 1 .. Len(grown)
    BY <1>1
  <2> QED
    BY <1>1, <2>1, ElementOfSeq
<1>4. \A i \in 1 .. Len(more) : grown[x + i - 1] = more[i]
  <2> SUFFICES ASSUME NEW i \in 1 .. Len(more) PROVE grown[x + i - 1] = more[i]
    OBVIOUS
  <2>1. /\ x + i - 1 \in 1 .. Len(said) + Len(more) /\ ~(x + i - 1 <= Len(said))
        /\ (x + i - 1) - Len(said) = i
    BY <1>1
  <2> QED
    BY <1>1, <2>1
<1> HIDE DEF x, y
<1>5. /\ p \in Seq(T) /\ Len(p) = (IF x <= y THEN y - x + 1 ELSE 0)
      /\ \A i \in 1 .. y - x + 1 : p[i] = grown[x + i - 1]
  BY <1>2, <1>3, SubSeqProperties
<1> HIDE DEF p
<1>6. Len(p) = Len(more)
  BY <1>1, <1>2, <1>5
<1>7. \A i \in 1 .. Len(more) : p[i] = more[i]
  BY <1>2, <1>4, <1>5
<1>8. p = more
  BY <1>5, <1>6, <1>7, SeqEqual
<1>9. ~(Len(grown) < Len(said))
  BY <1>1
<1> QED
  BY <1>8, <1>9 DEF Unsent, p, x, y, grown

\* A function on 1 .. n is a sequence of length n.
LEMMA FunctionSeq ==
    ASSUME NEW S, NEW n \in Nat, NEW f \in [1 .. n -> S]
    PROVE  f \in Seq(S) /\ Len(f) = n
<1>1. f \in Seq(S)
  BY SeqDef
<1>2. Len(f) \in Nat /\ 1 .. Len(f) = 1 .. n
  BY <1>1, LenProperties
<1>3. ~(Len(f) < n) /\ ~(n < Len(f))
  <2>1. ~(Len(f) < n)
    <3>1. Len(f) < n => n \in 1 .. n /\ n \notin 1 .. Len(f)
      BY <1>2
    <3> QED
      BY <1>2, <3>1
  <2>2. ~(n < Len(f))
    <3>1. n < Len(f) => Len(f) \in 1 .. Len(f) /\ Len(f) \notin 1 .. n
      BY <1>2
    <3> QED
      BY <1>2, <3>1
  <2> QED
    BY <2>1, <2>2
<1> QED
  BY <1>1, <1>2, <1>3

\* A sequence that is another one and an element more.
LEMMA IsAppend ==
    ASSUME NEW S, NEW s \in Seq(S), NEW e \in S, NEW t \in Seq(S),
           Len(t) = Len(s) + 1, t[Len(s) + 1] = e,
           \A i \in 1 .. Len(s) : t[i] = s[i]
    PROVE  t = Append(s, e)
<1> DEFINE r == Append(s, e)
<1>1. /\ r \in Seq(S) /\ Len(r) = Len(s) + 1 /\ r[Len(s) + 1] = e
      /\ Len(s) \in Nat /\ \A i \in 1 .. Len(s) : r[i] = s[i]
  BY AppendProperties, LenProperties
<1> HIDE DEF r
<1>2. ASSUME NEW i \in 1 .. Len(t) PROVE t[i] = r[i]
  <2>1. i = Len(s) + 1 \/ i \in 1 .. Len(s)
    BY <1>1
  <2> QED
    BY <1>1, <2>1
<1>3. t = r
  BY <1>1, <1>2, SeqEqual
<1> QED
  BY <1>3 DEF r

\* The deltas of one more block.
LEMMA DeltasMore ==
    ASSUME blocks \in Seq(BlockSet), NEW block \in BlockSet,
           blocks' = Append(blocks, block)
    PROVE  /\ Contents \in Seq(Seq(Token)) /\ Reasonings \in Seq(Seq(Token))
           /\ Contents' = Append(Contents, block.content)
           /\ Reasonings' = Append(Reasonings, block.reasoning)
<1>1. /\ Len(blocks) \in Nat /\ DOMAIN blocks = 1 .. Len(blocks)
      /\ blocks' \in Seq(BlockSet) /\ Len(blocks') = Len(blocks) + 1
      /\ DOMAIN blocks' = 1 .. Len(blocks) + 1 /\ blocks'[Len(blocks) + 1] = block
      /\ \A i \in 1 .. Len(blocks) : blocks'[i] = blocks[i] /\ blocks[i] \in BlockSet
      /\ \A i \in 1 .. Len(blocks) + 1 : blocks'[i] \in BlockSet
  BY LenProperties, AppendProperties, ElementOfSeq
<1>2. \A b \in BlockSet : b.content \in Seq(Token) /\ b.reasoning \in Seq(Token)
  BY DEF BlockSet
<1>3. /\ Contents \in [1 .. Len(blocks) -> Seq(Token)]
      /\ Reasonings \in [1 .. Len(blocks) -> Seq(Token)]
      /\ Contents' \in [1 .. Len(blocks) + 1 -> Seq(Token)]
      /\ Reasonings' \in [1 .. Len(blocks) + 1 -> Seq(Token)]
  BY <1>1, <1>2 DEF Contents, Reasonings
<1>4. /\ Contents \in Seq(Seq(Token)) /\ Len(Contents) = Len(blocks)
      /\ Reasonings \in Seq(Seq(Token)) /\ Len(Reasonings) = Len(blocks)
  BY <1>1, <1>3, FunctionSeq
<1>5. /\ Contents' \in Seq(Seq(Token)) /\ Len(Contents') = Len(blocks) + 1
      /\ Reasonings' \in Seq(Seq(Token)) /\ Len(Reasonings') = Len(blocks) + 1
  <2>1. Len(blocks) + 1 \in Nat
    BY <1>1
  <2> QED
    BY <1>3, <2>1, FunctionSeq
<1>6. /\ Contents'[Len(blocks) + 1] = block.content
      /\ Reasonings'[Len(blocks) + 1] = block.reasoning
      /\ \A i \in 1 .. Len(blocks) : /\ Contents'[i] = Contents[i]
                                     /\ Reasonings'[i] = Reasonings[i]
  <2>1. Len(blocks) + 1 \in 1 .. Len(blocks) + 1
    BY <1>1
  <2>2. \A i \in 1 .. Len(blocks) : i \in 1 .. Len(blocks) + 1
    BY <1>1
  <2> QED
    BY <1>1, <2>1, <2>2 DEF Contents, Reasonings
<1>7. block.content \in Seq(Token) /\ block.reasoning \in Seq(Token)
  BY <1>2
<1>8. Contents' = Append(Contents, block.content)
  BY <1>4, <1>5, <1>6, <1>7, IsAppend
<1>9. Reasonings' = Append(Reasonings, block.reasoning)
  BY <1>4, <1>5, <1>6, <1>7, IsAppend
<1> QED
  BY <1>4, <1>8, <1>9

LEMMA InitFirst == Init => FirstInv
<1> SUFFICES ASSUME Init PROVE FirstInv
  OBVIOUS
<1>1. /\ blocks = <<>> /\ text = <<>> /\ reasoning = <<>>
      /\ last_sent_len = 0 /\ last_reasoning_sent_len = 0
      /\ Len(<<>>) = 0 /\ DOMAIN <<>> = {}
  BY EmptySeq DEF Init, Agent!ContractInit
<1>2. DOMAIN Contents = {} /\ DOMAIN Reasonings = {}
  BY <1>1 DEF Contents, Reasonings
<1>3. Contents = <<>> /\ Reasonings = <<>>
  BY <1>1 DEF Contents, Reasonings
<1> DEFINE sent == [i \in 0 .. 0 |-> 0]
<1>4. sent \in [0 .. 0 -> 0 .. 0] /\ sent[0] = 0
  OBVIOUS
<1> HIDE DEF sent
<1>5. Cut(<<>>, <<>>, 1)
  BY <1>1, <1>4 DEF Cut
<1> QED
  BY <1>1, <1>3, <1>5 DEF FirstInv

LEMMA NextFirst == IInv /\ FirstInv /\ [Next]_vars => FirstInv'
<1> SUFFICES ASSUME IInv, FirstInv, [Next]_vars PROVE FirstInv'
  OBVIOUS
<1>1. /\ blocks \in Seq(BlockSet) /\ turn \in 1 .. MaxTurns
      /\ text \in Seq(Token) /\ reasoning \in Seq(Token)
  BY DEF IInv, TypeOK, BlockSet, Agent!ContractTypeOK
<1>2. CASE StartAgent
  <2> DEFINE block == Block("header")
             none == <<>>
  <2>1. /\ block \in BlockSet /\ none \in Seq(Token)
        /\ block.content = none /\ block.reasoning = none
    BY EmptySeq DEF Block, Delta, BlockSet
  <2>2. /\ outcome = "idle" /\ text' = text /\ reasoning' = reasoning
        /\ blocks' = Append(blocks, block)
        /\ UNCHANGED <<turn, last_sent_len, last_reasoning_sent_len>>
    BY <1>2, <2>1, Pushed DEF StartAgent, Agent!Begin, IInv, lengths
  <2>3. text \o none = text /\ reasoning \o none = reasoning
    BY <1>1, ConcatEmptySeq
  <2>4. none = <<>>
    OBVIOUS
  <2> HIDE DEF block, none
  <2>5. /\ Contents \in Seq(Seq(Token)) /\ Reasonings \in Seq(Seq(Token))
        /\ Contents' = Append(Contents, none) /\ Reasonings' = Append(Reasonings, none)
    BY <1>1, <2>1, <2>2, DeltasMore
  <2>6. Cut(Contents, text, 1) => Cut(Contents', text', 1)
    BY <1>1, <2>1, <2>2, <2>3, <2>4, <2>5, SentMore
  <2>7. Cut(Reasonings, reasoning, 1) => Cut(Reasonings', reasoning', 1)
    BY <1>1, <2>1, <2>2, <2>3, <2>4, <2>5, SentMore
  <2> QED
    BY <2>2, <2>6, <2>7 DEF FirstInv
<1>3. CASE Chunk
  <2> SUFFICES ASSUME turn = 1
               PROVE  Cut(Contents, text, 1)' /\ Cut(Reasonings, reasoning, 1)'
    BY <1>3 DEF FirstInv, Chunk, Shown
  <2>1. /\ last_sent_len = Len(text) /\ Cut(Contents, text, 1)
        /\ last_reasoning_sent_len = Len(reasoning) /\ Cut(Reasonings, reasoning, 1)
    BY <1>3 DEF FirstInv, Chunk, Shown, Agent!Stream
  <2>2. PICK more \in Seq(Token), whole \in Seq(Token) :
           /\ text' = text \o more /\ reasoning' = reasoning \o whole
           /\ more = <<>> \/ OfTurn(more, 1)
           /\ whole = <<>> \/ OfTurn(whole, 1)
    BY <1>3, Shows DEF Chunk, IInv
  <2>3. /\ Unsent(text', last_sent_len) = more
        /\ Unsent(reasoning', last_reasoning_sent_len) = whole
    BY <1>1, <2>1, <2>2, UnsentMore
  <2>4. PushDelta(more, whole)
    BY <1>3, <2>3 DEF Chunk
  <2>5. CASE more # <<>> \/ whole # <<>>
    <3> DEFINE block == Delta(more, whole)
    <3>1. /\ block \in BlockSet /\ block.content = more /\ block.reasoning = whole
      BY DEF Delta, BlockSet
    <3>2. PushWithRetry(block)
      BY <2>4, <2>5 DEF PushDelta
    <3> HIDE DEF block
    <3>3. /\ Contents \in Seq(Seq(Token)) /\ Reasonings \in Seq(Seq(Token))
          /\ Contents' = Append(Contents, more) /\ Reasonings' = Append(Reasonings, whole)
      BY <1>1, <3>1, <3>2, Pushed, DeltasMore DEF IInv
    <3>4. Cut(Append(Contents, more), text \o more, 1)
      BY <1>1, <2>1, <2>2, <3>3, SentMore
    <3>5. Cut(Append(Reasonings, whole), reasoning \o whole, 1)
      BY <1>1, <2>1, <2>2, <3>3, SentMore
    <3> QED
      BY <2>2, <3>3, <3>4, <3>5
  <2>6. CASE more = <<>> /\ whole = <<>>
    <3>1. blocks' = blocks
      BY <2>4, <2>6 DEF PushDelta, socket
    <3>2. text' = text /\ reasoning' = reasoning
      BY <1>1, <2>2, <2>6, ConcatEmptySeq
    <3>3. Contents' = Contents /\ Reasonings' = Reasonings
      BY <3>1 DEF Contents, Reasonings
    <3> QED
      BY <2>1, <3>2, <3>3
  <2> QED
    BY <2>5, <2>6
<1>4. CASE NewTurn
  <2>1. turn' # 1
    BY <1>1, <1>4 DEF NewTurn
  <2> QED
    BY <2>1 DEF FirstInv
<1>5. CASE Completes \/ Fails
  BY <1>5 DEF Completes, Fails, Agent!Complete, Agent!Fail, FirstInv
<1>6. CASE PushStatement
  <2>1. outcome \in {"complete", "error"} /\ outcome' = outcome
    BY <1>6, InCallback DEF PushStatement, agent, Completing, Failing
  <2> QED
    BY <2>1 DEF FirstInv
<1>7. CASE \/ QueueWait \/ UseAfterFree \/ SaveStatement \/ DeleteStatement
           \/ SignalStatement \/ SeriesThread \/ UNCHANGED vars
  <2>1. UNCHANGED <<turn, outcome, text, reasoning, last_sent_len,
                    last_reasoning_sent_len, blocks>>
    BY <1>7 DEF QueueWait, UseAfterFree, SaveStatement, DeleteStatement,
                SignalStatement, SeriesThread, NextTask, WaitReturns, Retry, Saved,
                Finish, vars, agent, lengths, socket
  <2> QED
    BY <2>1 DEF FirstInv, Contents, Reasonings
<1> QED
  BY <1>2, <1>3, <1>4, <1>5, <1>6, <1>7 DEF Next, LLMThread, Terminated

\* While the run is in its first LLM call, the content in what was handed to
\* PushWithRetry is, put together, the content the agent has shown, and the
\* reasoning is what the agent has accumulated (Callback.cc:413-440).
THEOREM FirstTurnGoesOut == Spec => []FirstTurnSent
<1>1. FirstInv => FirstTurnSent
  BY DEF FirstInv, FirstTurnSent
<1> QED
  BY <1>1, InitFirst, NextFirst, Invariance, PTL DEF Spec
=============================================================================
