-------------------------- MODULE McpProcess_proofs --------------------------
(***************************************************************************)
(* For any number of threads and requests and any size of the read buffer:  *)
(* as long as the server answers in time and writes nothing unasked, the    *)
(* next line in the pipe is the answer to the request just written; and     *)
(* whatever it does, no answer of the server is given to two calls.         *)
(***************************************************************************)
EXTENDS McpProcess, SequenceFacts, TLAPS

Bytes == JsonBytes \cup {Newline}

-----------------------------------------------------------------------------
(***************************************************************************)
(* The inductive invariant.  What is on its way from the server to the      *)
(* caller is the part of a line that the caller has read, the rest of it in *)
(* the pipe, and what the server has still to write.                        *)
(***************************************************************************)
Way == (line \o stdout) \o taken

\* The holder of the mutex is the one thread that uses the pipes.
MutualExclusion ==
    \A t \in Threads : pc[t] \in {"write", "read"} <=> mutex = t

\* Before the handshake is over only its own thread has anything to do.
Handshaking ==
    /\ stage \in {"initialize", "list"} =>
          \A t \in Threads : t # Main => pc[t] = "idle"
    /\ stage \in {"failed", "stopped"} => \A t \in Threads : pc[t] = "idle"
    /\ stage = "initialize" => requests = 1

Asked == \A t \in Threads : pc[t] # "idle" => request[t] \in 1 .. MaxRequests

\* A part of a line is kept during the reading only; a dead server has nothing
\* more to write.
NothingKept ==
    /\ \A t \in Threads : pc[t] = "write" => line = <<>>
    /\ mutex = NoThread => line = <<>>
    /\ server = "dead" => taken = <<>>

Empty == stdin = <<>> /\ taken = <<>> /\ stdout = <<>>

\* The request of a thread that reads has not been taken, or a line is on its
\* way that answers it; of a dead server's line perhaps a part.
Untaken(t) == server = "running" /\ stdin = <<request[t]>> /\ Way = <<>>

OnItsWay(t, kind) ==
    /\ Len(Way) <= 3
    /\ \A i \in 1 .. Len(Way) : Way[i] = Line(request[t], kind)[i]
    /\ server = "running" => stdin = <<>> /\ Len(Way) = 3

InPipes ==
    ~disturbed /\ ~crashed =>
        \A t \in Threads :
            /\ pc[t] = "write" /\ server = "running" => Empty
            /\ pc[t] = "read" => Untaken(t) \/ \E k \in Kinds : OnItsWay(t, k)

IInv ==
    /\ TypeOK /\ MutualExclusion /\ Handshaking /\ Asked /\ NothingKept
    /\ InPipes /\ PipesClean /\ MatchesUndisturbed

-----------------------------------------------------------------------------
(* Lines and bytes.                                                         *)

LEMMA Lines ==
    ASSUME NEW n \in 0 .. MaxRequests, NEW k \in Kinds
    PROVE  /\ JsonText(n, k) \in Texts
           /\ Line(n, k) \in Seq(Bytes) /\ Len(Line(n, k)) = 3
           /\ Line(n, k)[1] = <<n, k, 1>> /\ Line(n, k)[2] = <<n, k, 2>>
           /\ Line(n, k)[3] = Newline
           /\ <<n, k, 1>> \in JsonBytes /\ <<n, k, 2>> \in JsonBytes
<1>1. JsonText(n, k) \in Texts
  BY DEF Texts
<1>2. /\ JsonText(n, k)[1] = <<n, k, 1>> /\ JsonText(n, k)[2] = <<n, k, 2>>
      /\ 1 \in 1 .. 2 /\ 2 \in 1 .. 2
  BY DEF JsonText
<1>3. JsonText(n, k)[1] \in JsonBytes /\ JsonText(n, k)[2] \in JsonBytes
  BY <1>1, <1>2 DEF JsonBytes
<1>4. JsonText(n, k) \in Seq(Bytes) /\ Len(JsonText(n, k)) = 2 /\ Newline \in Bytes
  <2>1. <<n, k, 1>> \in Bytes /\ <<n, k, 2>> \in Bytes
    BY <1>2, <1>3 DEF Bytes
  <2> QED
    BY <2>1 DEF JsonText, Bytes
<1>5. /\ Line(n, k) \in Seq(Bytes) /\ Len(Line(n, k)) = 3
      /\ \A i \in 1 .. 2 : Line(n, k)[i] = JsonText(n, k)[i]
      /\ Line(n, k)[3] = Newline
  <2>1. ASSUME NEW s \in Seq(Bytes), Len(s) = 2, NEW b \in Bytes
        PROVE  /\ Append(s, b) \in Seq(Bytes) /\ Len(Append(s, b)) = 3
               /\ \A i \in 1 .. 2 : Append(s, b)[i] = s[i]
               /\ Append(s, b)[3] = b
    <3>1. /\ Append(s, b) \in Seq(Bytes) /\ Len(Append(s, b)) = Len(s) + 1
          /\ \A i \in 1 .. Len(s) : Append(s, b)[i] = s[i]
          /\ Append(s, b)[Len(s) + 1] = b
      BY AppendProperties
    <3> QED
      BY <2>1, <3>1
  <2> QED
    BY <1>4, <2>1 DEF Line
<1> QED
  BY <1>1, <1>2, <1>3, <1>5

LEMMA NewlineIsNoJson == Newline \notin JsonBytes
<1> SUFFICES ASSUME Newline \in JsonBytes PROVE FALSE
  OBVIOUS
<1>1. PICK n \in 0 .. MaxRequests, k \in Kinds, i \in 1 .. 2 : Newline = JsonText(n, k)[i]
  BY DEF JsonBytes, Texts
<1>2. Newline = <<n, k, 1>> \/ Newline = <<n, k, 2>>
  <2>1. JsonText(n, k)[1] = <<n, k, 1>> /\ JsonText(n, k)[2] = <<n, k, 2>>
    BY DEF JsonText
  <2> QED
    BY <1>1, <2>1
<1>3. Len(Newline) = 1
  BY DEF Newline
<1>4. Len(<<n, k, 1>>) = 3 /\ Len(<<n, k, 2>>) = 3
  OBVIOUS
<1> QED
  BY <1>2, <1>3, <1>4

\* What parses is known by its first byte.
LEMMA TextIs ==
    ASSUME NEW text, Parses(text)
    PROVE  /\ text # <<>> /\ Parsed(text).request \in 0 .. MaxRequests
           /\ \A n \in 0 .. MaxRequests, k \in Kinds :
                 text[1] = <<n, k, 1>> => Parsed(text).request = n
<1>1. PICK m \in 0 .. MaxRequests, j \in Kinds : text = JsonText(m, j)
  BY DEF Parses, Texts
<1>2. text = <<<<m, j, 1>>, <<m, j, 2>>>>
  BY <1>1 DEF JsonText
<1>3. text[1] = <<m, j, 1>> /\ text[1][1] = m /\ Len(text) = 2
  BY <1>2
<1>4. Parsed(text).request = m
  BY <1>3 DEF Parsed, Json
<1>5. ASSUME NEW n \in 0 .. MaxRequests, NEW k \in Kinds, text[1] = <<n, k, 1>>
      PROVE  n = m
  BY <1>3, <1>5
<1>6. text # <<>>
  BY <1>2
<1> QED
  BY <1>4, <1>5, <1>6

\* What is read and what is left of a pipe.
LEMMA Split ==
    ASSUME NEW S, NEW s \in Seq(S), NEW n \in 0 .. Len(s)
    PROVE  /\ SubSeq(s, 1, n) \in Seq(S) /\ SubSeq(s, n + 1, Len(s)) \in Seq(S)
           /\ Len(SubSeq(s, 1, n)) = n
           /\ \A i \in 1 .. n : SubSeq(s, 1, n)[i] = s[i]
           /\ Len(SubSeq(s, n + 1, Len(s))) = Len(s) - n
           /\ SubSeq(s, 1, n) \o SubSeq(s, n + 1, Len(s)) = s
<1>1. Len(s) \in Nat /\ n \in Nat /\ n <= Len(s)
  BY LenProperties
<1>2. /\ SubSeq(s, 1, n) \in Seq(S)
      /\ Len(SubSeq(s, 1, n)) = IF 1 <= n THEN n - 1 + 1 ELSE 0
      /\ \A i \in 1 .. n - 1 + 1 : SubSeq(s, 1, n)[i] = s[1 + i - 1]
  <2>1. \A i \in 1 .. n : s[i] \in S
    BY <1>1, LenProperties
  <2> QED
    BY <2>1, <1>1, SubSeqProperties
<1>3. /\ SubSeq(s, n + 1, Len(s)) \in Seq(S)
      /\ Len(SubSeq(s, n + 1, Len(s)))
            = IF n + 1 <= Len(s) THEN Len(s) - (n + 1) + 1 ELSE 0
  <2>1. \A i \in n + 1 .. Len(s) : s[i] \in S
    BY <1>1, LenProperties
  <2>2. n + 1 \in Int /\ Len(s) \in Int
    BY <1>1
  <2> QED
    BY <2>1, <2>2, SubSeqProperties
<1>4. SubSeq(s, 1, n) \o SubSeq(s, n + 1, Len(s)) = SubSeq(s, 1, Len(s))
  <2>1. /\ 1 \in 1 .. Len(s) + 1 /\ n \in 1 - 1 .. Len(s)
        /\ Len(s) \in n .. Len(s)
    BY <1>1
  <2> QED
    BY <2>1, ConcatAdjacentSubSeq
<1>5. SubSeq(s, 1, Len(s)) = s
  BY SubSeqFull
<1>6. Len(SubSeq(s, 1, n)) = n
  BY <1>1, <1>2
<1>7. ASSUME NEW i \in 1 .. n PROVE SubSeq(s, 1, n)[i] = s[i]
  <2>1. i \in 1 .. n - 1 + 1 /\ 1 + i - 1 = i
    BY <1>1
  <2> QED
    BY <2>1, <1>2
<1>8. Len(SubSeq(s, n + 1, Len(s))) = Len(s) - n
  BY <1>1, <1>3
<1> QED
  BY <1>2, <1>3, <1>4, <1>5, <1>6, <1>7, <1>8

\* The bytes on the way, by place.
LEMMA Places ==
    ASSUME NEW S, NEW a \in Seq(S), NEW b \in Seq(S), NEW c \in Seq(S)
    PROVE  /\ (a \o b) \o c \in Seq(S)
           /\ Len((a \o b) \o c) = Len(a) + Len(b) + Len(c)
           /\ \A i \in 1 .. Len(a) : ((a \o b) \o c)[i] = a[i]
           /\ \A i \in 1 .. Len(b) : ((a \o b) \o c)[Len(a) + i] = b[i]
           /\ \A i \in 1 .. Len(a) + Len(b) : ((a \o b) \o c)[i] = (a \o b)[i]
           /\ \A d \in Seq(S) : ((a \o b) \o d) \o c = (a \o (b \o d)) \o c
           /\ \A d \in Seq(S) : (a \o (b \o d)) \o c = (a \o b) \o (d \o c)
<1>1. Len(a) \in Nat /\ Len(b) \in Nat /\ Len(c) \in Nat
  BY LenProperties
<1>2. /\ a \o b \in Seq(S) /\ Len(a \o b) = Len(a) + Len(b)
      /\ \A i \in 1 .. Len(a) + Len(b) :
            (a \o b)[i] = IF i <= Len(a) THEN a[i] ELSE b[i - Len(a)]
  BY ConcatProperties
<1>3. /\ (a \o b) \o c \in Seq(S) /\ Len((a \o b) \o c) = Len(a \o b) + Len(c)
      /\ \A i \in 1 .. Len(a \o b) + Len(c) :
            ((a \o b) \o c)[i] = IF i <= Len(a \o b) THEN (a \o b)[i]
                                 ELSE c[i - Len(a \o b)]
  BY <1>2, ConcatProperties
<1>4. \A i \in 1 .. Len(a) + Len(b) : ((a \o b) \o c)[i] = (a \o b)[i]
  BY <1>1, <1>2, <1>3
<1>5. \A i \in 1 .. Len(a) : (a \o b)[i] = a[i]
  BY <1>1, <1>2
<1>6. \A i \in 1 .. Len(b) : (a \o b)[Len(a) + i] = b[i]
  BY <1>1, <1>2
<1>7. /\ \A i \in 1 .. Len(a) : i \in 1 .. Len(a) + Len(b)
      /\ \A i \in 1 .. Len(b) : Len(a) + i \in 1 .. Len(a) + Len(b)
  BY <1>1
<1>8. ASSUME NEW d \in Seq(S)
      PROVE  /\ (a \o b) \o d = a \o (b \o d)
             /\ ((a \o b) \o d) \o c = (a \o b) \o (d \o c)
  <2>1. (a \o b) \o d = a \o (b \o d)
    BY ConcatAssociative, SMTT(60)
  <2>2. ((a \o b) \o d) \o c = (a \o b) \o (d \o c)
    BY <1>2, ConcatAssociative, SMTT(60)
  <2> QED
    BY <2>1, <2>2
<1>9. ASSUME NEW d \in Seq(S)
      PROVE  /\ ((a \o b) \o d) \o c = (a \o (b \o d)) \o c
             /\ (a \o (b \o d)) \o c = (a \o b) \o (d \o c)
  BY <1>8
<1>10. /\ \A i \in 1 .. Len(a) : ((a \o b) \o c)[i] = a[i]
       /\ \A i \in 1 .. Len(b) : ((a \o b) \o c)[Len(a) + i] = b[i]
  BY <1>4, <1>5, <1>6, <1>7
<1>11. Len((a \o b) \o c) = Len(a) + Len(b) + Len(c)
  BY <1>2, <1>3
<1> QED
  BY <1>3, <1>4, <1>9, <1>10, <1>11

LEMMA Associative ==
    ASSUME NEW a \in Seq(Bytes), NEW b \in Seq(Bytes), NEW c \in Seq(Bytes)
    PROVE  (a \o b) \o c = a \o (b \o c)
<1>1. \A S : \A u, v, w \in Seq(S) : (u \o v) \o w = u \o (v \o w)
  BY ConcatAssociative
<1> QED
  BY <1>1

-----------------------------------------------------------------------------
(* The steps.                                                               *)

LEMMA InitIInv == Init => IInv
<1> SUFFICES ASSUME Init PROVE IInv
  OBVIOUS
<1> USE ThreadAssumption, BoundAssumption
<1>1. /\ taken = <<>> /\ stdout = <<>> /\ line = <<>> /\ stdin = <<>>
      /\ \A t \in Threads : results[t] = <<>>
  BY DEF Init
<1>2. TypeOK
  <2>1. /\ request \in [Threads -> 0 .. MaxRequests] /\ requests \in 1 .. MaxRequests
        /\ pc \in [Threads -> {"idle", "lock", "write", "read"}]
        /\ notices \in 0 .. MaxNotices
    BY DEF Init
  <2>2. results \in [Threads -> Seq((1 .. MaxRequests) \X (0 .. MaxRequests))]
    BY EmptySeq DEF Init
  <2>3. /\ taken \in Seq(JsonBytes \cup {Newline})
        /\ stdout \in Seq(JsonBytes \cup {Newline})
        /\ line \in Seq(JsonBytes) /\ stdin \in Seq(1 .. MaxRequests)
    BY <1>1, EmptySeq
  <2>4. disturbed \in BOOLEAN /\ crashed \in BOOLEAN
    BY DEF Init
  <2>5. /\ stage \in {"initialize", "list", "registered", "failed", "stopped"}
        /\ pid \in {"child", "none"} /\ server \in {"running", "dead"}
        /\ mutex \in Threads \cup {NoThread}
    BY DEF Init
  <2> QED
    BY <2>1, <2>2, <2>3, <2>4, <2>5 DEF TypeOK
<1>3. MutualExclusion /\ Handshaking /\ Asked
  BY DEF Init, MutualExclusion, Handshaking, Asked
<1>4. NothingKept /\ InPipes /\ PipesClean
  BY <1>1 DEF Init, NothingKept, InPipes, PipesClean
<1>5. MatchesUndisturbed
  BY <1>1 DEF MatchesUndisturbed, AnswerMatches
<1> QED
  BY <1>2, <1>3, <1>4, <1>5 DEF IInv

\* The part of the type invariant that a return of Transact is about.
CallerType ==
    /\ stage \in {"initialize", "list", "registered", "failed", "stopped"}
    /\ mutex \in Threads \cup {NoThread}
    /\ pc \in [Threads -> {"idle", "lock", "write", "read"}]
    /\ request \in [Threads -> 0 .. MaxRequests]
    /\ line \in Seq(JsonBytes)
    /\ requests \in 1 .. MaxRequests
    /\ results \in [Threads -> Seq((1 .. MaxRequests) \X (0 .. MaxRequests))]

WireType ==
    /\ pid \in {"child", "none"} /\ server \in {"running", "dead"}
    /\ taken \in Seq(JsonBytes \cup {Newline})
    /\ stdout \in Seq(JsonBytes \cup {Newline})
    /\ stdin \in Seq(1 .. MaxRequests)
    /\ notices \in 0 .. MaxNotices
    /\ disturbed \in BOOLEAN /\ crashed \in BOOLEAN

LEMMA TypeParts == TypeOK <=> CallerType /\ WireType
BY DEF TypeOK, CallerType, WireType

\* Transact gives its caller a response, its own unless the process has been
\* disturbed, and leaves the pipes of a running server empty.
LEMMA ReturnIInv ==
    ASSUME IInv, NEW t \in Threads, pc[t] \in {"write", "read"},
           NEW response, Return(t, response),
           response.request \in 0 .. MaxRequests,
           response.kind = "result" /\ ~disturbed' => response.request = request[t],
           disturbed => disturbed',
           ~disturbed' /\ server' = "running" =>
               stdin' = <<>> /\ taken' = <<>> /\ stdout' = <<>>,
           server' = "dead" => taken' = <<>>,
           WireType'
    PROVE  IInv'
<1> USE ThreadAssumption, BoundAssumption
<1>1. CallerType /\ WireType
  BY TypeParts DEF IInv
<1>2. /\ mutex' = NoThread /\ line' = <<>> /\ mutex = t
      /\ \A u \in Threads : pc[u] \in {"write", "read"} => u = t
  BY DEF Return, IInv, MutualExclusion
<1>3. /\ request[t] \in 1 .. MaxRequests
      /\ stage \in {"initialize", "list", "registered"}
      /\ stage # "registered" => t = Main
      /\ stage = "initialize" => requests = 1
  BY <1>1 DEF IInv, Asked, Handshaking, CallerType
<1>4. ASSUME CallerType', \A u \in Threads : pc'[u] \notin {"write", "read"}
      PROVE  /\ TypeOK' /\ MutualExclusion' /\ NothingKept'
             /\ InPipes' /\ PipesClean'
  <2>1. TypeOK'
    BY <1>4 DEF TypeOK, CallerType, WireType
  <2>2. MutualExclusion' /\ NothingKept'
    BY <1>2, <1>4 DEF MutualExclusion, NothingKept
  <2>3. InPipes'
    BY <1>4 DEF InPipes
  <2>4. PipesClean'
    BY DEF PipesClean
  <2> QED
    BY <2>1, <2>2, <2>3, <2>4
<1>5. CASE stage # "registered"
  <2>1. results' = results /\ Handshake(response) /\ t = Main
    BY <1>3, <1>5 DEF Return
  <2>2. /\ stage' \in {"failed", "list", "registered"}
        /\ pc' \in [Threads -> {"idle", "lock", "write", "read"}]
        /\ pc'[Main] \in {"idle", "lock"}
        /\ \A u \in Threads : u # Main => pc'[u] = pc[u]
        /\ stage' \in {"failed", "registered"} => pc'[Main] = "idle"
        /\ request' \in [Threads -> 0 .. MaxRequests]
        /\ requests' \in 1 .. MaxRequests
        /\ pc'[Main] # "idle" => request'[Main] \in 1 .. MaxRequests
        /\ \A u \in Threads : u # Main => request'[u] = request[u]
    <3>1. CASE response.kind # "result"
      <4>1. /\ stage' = "failed" /\ pc' = [pc EXCEPT ![Main] = "idle"]
            /\ request' = request /\ requests' = requests
        BY <2>1, <3>1 DEF Handshake
      <4> QED
        BY <4>1, <1>1 DEF CallerType
    <3>2. CASE response.kind = "result" /\ stage = "initialize"
      <4>1. /\ stage' = "list" /\ pc' = [pc EXCEPT ![Main] = "lock"]
            /\ requests' = 2 /\ request' = [request EXCEPT ![Main] = 2]
        BY <1>3, <2>1, <3>2 DEF Handshake
      <4> QED
        BY <4>1, <1>1 DEF CallerType
    <3>3. CASE response.kind = "result" /\ stage # "initialize"
      <4>1. /\ stage' = "registered" /\ pc' = [pc EXCEPT ![Main] = "idle"]
            /\ request' = request /\ requests' = requests
        BY <2>1, <3>3 DEF Handshake
      <4> QED
        BY <4>1, <1>1 DEF CallerType
    <3> QED
      BY <3>1, <3>2, <3>3
  <2>3. CallerType'
    BY <1>1, <1>2, <2>1, <2>2, EmptySeq DEF CallerType
  <2>4. \A u \in Threads : u # Main => pc[u] = "idle"
    BY <1>3, <1>5 DEF IInv, Handshaking
  <2>5. Handshaking' /\ Asked'
    BY <2>2, <2>4 DEF Handshaking, Asked
  <2>6. MatchesUndisturbed'
    BY <2>1 DEF IInv, MatchesUndisturbed, AnswerMatches
  <2>7. \A u \in Threads : pc'[u] \notin {"write", "read"}
    BY <2>2, <2>4
  <2> QED
    BY <1>2, <1>4, <2>3, <2>5, <2>6, <2>7 DEF IInv
<1>6. CASE stage = "registered"
  <2>1. /\ pc' = [pc EXCEPT ![t] = "idle"]
        /\ stage' = stage /\ request' = request /\ requests' = requests
        /\ results' = IF response.kind = "result"
                      THEN [results EXCEPT ![t] =
                              Append(@, <<request[t], response.request>>)]
                      ELSE results
    BY <1>6 DEF Return
  <2>2. /\ results' \in [Threads -> Seq((1 .. MaxRequests) \X (0 .. MaxRequests))]
        /\ MatchesUndisturbed'
    <3>1. CASE response.kind = "result"
      <4> DEFINE S == (1 .. MaxRequests) \X (0 .. MaxRequests)
                 e == <<request[t], response.request>>
      <4>1. e \in S /\ results[t] \in Seq(S)
        BY <1>1, <1>3 DEF CallerType
      <4>2. ~disturbed' => e[1] = e[2]
        BY <3>1
      <4>3. /\ results'[t] = Append(results[t], e)
            /\ \A u \in Threads : u # t => results'[u] = results[u]
            /\ results' = [results EXCEPT ![t] = Append(results[t], e)]
        BY <1>1, <2>1, <3>1 DEF CallerType
      <4> HIDE DEF e
      <4>4. /\ Append(results[t], e) \in Seq(S)
            /\ Len(Append(results[t], e)) = Len(results[t]) + 1
            /\ \A i \in 1 .. Len(results[t]) : Append(results[t], e)[i] = results[t][i]
            /\ Append(results[t], e)[Len(results[t]) + 1] = e
        BY <4>1, AppendProperties
      <4>5. results' \in [Threads -> Seq(S)]
        BY <1>1, <4>3, <4>4 DEF CallerType
      <4>6. ASSUME ~disturbed', NEW u \in Threads, NEW i \in DOMAIN (results'[u])
            PROVE  results'[u][i][1] = results'[u][i][2]
        <5>1. \A v \in Threads : \A j \in DOMAIN results[v] :
                 results[v][j][1] = results[v][j][2]
          BY <4>6 DEF IInv, MatchesUndisturbed, AnswerMatches
        <5>2. CASE u # t
          BY <4>3, <4>6, <5>1, <5>2
        <5>3. CASE u = t
          <6>1. Len(results[t]) \in Nat /\ DOMAIN results[t] = 1 .. Len(results[t])
                /\ i \in 1 .. Len(results[t]) + 1
            BY <4>1, <4>3, <4>4, <4>6, <5>3, LenProperties
          <6>2. CASE i = Len(results[t]) + 1
            BY <4>2, <4>3, <4>4, <4>6, <5>3, <6>2
          <6>3. CASE i # Len(results[t]) + 1
            BY <4>3, <4>4, <5>1, <5>3, <6>1, <6>3, SMTT(30)
          <6> QED
            BY <6>2, <6>3
        <5> QED
          BY <5>2, <5>3
      <4> QED
        BY <4>5, <4>6 DEF MatchesUndisturbed, AnswerMatches
    <3>2. CASE response.kind # "result"
      BY <1>1, <2>1, <3>2 DEF CallerType, IInv, MatchesUndisturbed, AnswerMatches
    <3> QED
      BY <3>1, <3>2
  <2>3. /\ pc' \in [Threads -> {"idle", "lock", "write", "read"}]
        /\ pc'[t] = "idle"
        /\ \A u \in Threads : u # t => pc'[u] = pc[u]
    BY <1>1, <2>1 DEF CallerType
  <2>4. CallerType'
    BY <1>1, <1>2, <2>1, <2>2, <2>3, EmptySeq DEF CallerType
  <2>5. Handshaking' /\ Asked'
    BY <1>6, <2>1, <2>3 DEF IInv, Handshaking, Asked
  <2>6. \A u \in Threads : pc'[u] \notin {"write", "read"}
    BY <1>2, <2>3
  <2> QED
    BY <1>2, <1>4, <2>2, <2>4, <2>5, <2>6 DEF IInv
<1> QED
  BY <1>5, <1>6

\* A call waits for the mutex with a request of its own.
LEMMA CallToolIInv ==
    ASSUME IInv, NEW t \in Threads, CallTool(t)
    PROVE  IInv'
<1> USE ThreadAssumption, BoundAssumption
<1>1. CallerType /\ WireType
  BY TypeParts DEF IInv
<1>2. /\ stage = "registered" /\ pc[t] = "idle" /\ requests < MaxRequests
      /\ requests' = requests + 1 /\ requests' \in 1 .. MaxRequests
      /\ request' = [request EXCEPT ![t] = requests']
      /\ pc' = [pc EXCEPT ![t] = "lock"]
      /\ UNCHANGED <<stage, pid, mutex, line, results, crashed, child, stdin,
                     stdout, disturbed>>
  BY <1>1 DEF CallTool, CallerType
<1>3. /\ pc' \in [Threads -> {"idle", "lock", "write", "read"}]
      /\ request' \in [Threads -> 0 .. MaxRequests]
      /\ pc'[t] = "lock" /\ request'[t] \in 1 .. MaxRequests
      /\ \A u \in Threads : u # t => pc'[u] = pc[u] /\ request'[u] = request[u]
  <2>1. PICK n \in 1 .. MaxRequests : n = requests'
    BY <1>2
  <2> QED
    BY <1>1, <1>2, <2>1 DEF CallerType
<1>4. TypeOK'
  BY <1>1, <1>2, <1>3 DEF TypeOK, CallerType, WireType, child
<1>5. MutualExclusion' /\ Handshaking' /\ Asked' /\ NothingKept' /\ MatchesUndisturbed'
  BY <1>2, <1>3 DEF IInv, MutualExclusion, Handshaking, Asked, NothingKept,
                    MatchesUndisturbed, AnswerMatches, child
<1>6. PipesClean'
  BY <1>2 DEF IInv, PipesClean, child
<1>7. InPipes'
  BY <1>2, <1>3 DEF IInv, InPipes, Empty, Untaken, OnItsWay, Way, child
<1> QED
  BY <1>4, <1>5, <1>6, <1>7 DEF IInv

\* After a null node nothing moves any more.
LEMMA CallToolBadlyIInv ==
    ASSUME IInv, NEW t \in Threads, CallToolBadly(t)
    PROVE  IInv'
<1>1. /\ crashed' = TRUE
      /\ UNCHANGED <<stage, pid, mutex, pc, request, line, requests, results,
                     server, taken, notices, stdin, stdout, disturbed>>
  BY DEF CallToolBadly, child
<1>2. TypeOK'
  BY <1>1 DEF IInv, TypeOK
<1>3. /\ MutualExclusion' /\ Handshaking' /\ Asked' /\ NothingKept'
      /\ MatchesUndisturbed' /\ PipesClean' /\ InPipes'
  BY <1>1 DEF IInv, MutualExclusion, Handshaking, Asked, NothingKept,
              MatchesUndisturbed, AnswerMatches, PipesClean, InPipes
<1> QED
  BY <1>2, <1>3 DEF IInv

\* The thread that takes the mutex finds the pipes empty.
LEMMA LockIInv ==
    ASSUME IInv, NEW t \in Threads, Lock(t)
    PROVE  IInv'
<1> USE ThreadAssumption
<1>1. /\ pc[t] = "lock" /\ mutex = NoThread /\ mutex' = t
      /\ pc' = [pc EXCEPT ![t] = "write"]
      /\ UNCHANGED <<stage, pid, request, line, requests, results, crashed,
                     server, taken, notices, stdin, stdout, disturbed>>
  BY DEF Lock, child
<1>2. /\ pc' \in [Threads -> {"idle", "lock", "write", "read"}]
      /\ pc'[t] = "write"
      /\ \A u \in Threads : u # t => pc'[u] = pc[u] /\ pc[u] \notin {"write", "read"}
  BY <1>1 DEF IInv, TypeOK, MutualExclusion
<1>3. TypeOK'
  BY <1>1, <1>2 DEF IInv, TypeOK
<1>4. MutualExclusion' /\ Handshaking' /\ Asked' /\ NothingKept' /\ MatchesUndisturbed'
  BY <1>1, <1>2 DEF IInv, MutualExclusion, Handshaking, Asked, NothingKept,
                    MatchesUndisturbed, AnswerMatches
<1>5. PipesClean'
  BY <1>1 DEF PipesClean
<1>6. InPipes'
  BY <1>1, <1>2 DEF IInv, PipesClean, InPipes, Empty
<1> QED
  BY <1>3, <1>4, <1>5, <1>6 DEF IInv

\* The request goes into an empty pipe, or nowhere.
LEMMA WriteIInv ==
    ASSUME IInv, ~crashed, NEW t \in Threads, Write(t)
    PROVE  IInv'
<1> USE ThreadAssumption, BoundAssumption
<1>1. CallerType /\ WireType
  BY TypeParts DEF IInv
<1>2. /\ pc[t] = "write" /\ request[t] \in 1 .. MaxRequests /\ line = <<>>
      /\ mutex = t /\ \A u \in Threads : u # t => pc[u] \notin {"write", "read"}
      /\ ~disturbed /\ server = "running" => Empty
  BY DEF Write, IInv, Asked, NothingKept, MutualExclusion, InPipes
<1>3. UNCHANGED <<pid, crashed, server, taken, notices, stdout, disturbed>>
  BY DEF Write, child
<1>4. CASE pid = "child" /\ server = "running"
  <2>1. /\ stdin' = Append(stdin, request[t])
        /\ pc' = [pc EXCEPT ![t] = "read"]
        /\ UNCHANGED <<stage, mutex, request, line, requests, results>>
    BY <1>4 DEF Write
  <2>2. /\ pc' \in [Threads -> {"idle", "lock", "write", "read"}]
        /\ pc'[t] = "read"
        /\ \A u \in Threads : u # t => pc'[u] = pc[u]
    BY <1>1, <2>1 DEF CallerType
  <2>3. stdin' \in Seq(1 .. MaxRequests)
    BY <1>1, <1>2, <2>1, AppendProperties DEF WireType
  <2>4. TypeOK'
    BY <1>1, <1>3, <2>1, <2>2, <2>3 DEF TypeOK, CallerType, WireType
  <2>5. /\ MutualExclusion' /\ Handshaking' /\ Asked' /\ NothingKept'
        /\ MatchesUndisturbed'
    BY <1>2, <1>3, <2>1, <2>2 DEF IInv, MutualExclusion, Handshaking, Asked,
                    NothingKept, MatchesUndisturbed, AnswerMatches
  <2>6. PipesClean'
    BY <1>2, <2>1 DEF PipesClean
  <2>7. InPipes'
    <3>1. ASSUME ~disturbed PROVE Untaken(t)'
      <4>1. stdin = <<>> /\ taken = <<>> /\ stdout = <<>>
        BY <1>2, <1>4, <3>1 DEF Empty
      <4>2. stdin' = <<request'[t]>>
        BY <2>1, <4>1
      <4>3. Way' = (<<>> \o <<>>) \o <<>>
        BY <1>2, <1>3, <2>1, <4>1 DEF Way
      <4>4. (<<>> \o <<>>) \o <<>> = <<>>
        BY EmptySeq, ConcatEmptySeq
      <4> QED
        BY <1>3, <1>4, <4>2, <4>3, <4>4 DEF Untaken
    <3> QED
      BY <1>2, <1>3, <2>2, <3>1 DEF InPipes
  <2> QED
    BY <2>4, <2>5, <2>6, <2>7 DEF IInv
<1>5. CASE ~(pid = "child" /\ server = "running")
  <2>1. Return(t, EmptyObject) /\ stdin' = stdin
    BY <1>5 DEF Write
  <2>2. EmptyObject.request = 0 /\ EmptyObject.kind = "empty"
    BY DEF EmptyObject, Json
  <2>3. WireType'
    BY <1>1, <1>3, <2>1 DEF WireType
  <2>4. /\ ~disturbed' /\ server' = "running" =>
             stdin' = <<>> /\ taken' = <<>> /\ stdout' = <<>>
        /\ server' = "dead" => taken' = <<>>
        /\ disturbed => disturbed'
    BY <1>2, <1>3, <2>1 DEF Empty, IInv, NothingKept
  <2>5. EmptyObject.request \in 0 .. MaxRequests
    BY <2>2
  <2> QED
    BY <1>2, <2>1, <2>2, <2>3, <2>4, <2>5, ReturnIInv
<1> QED
  BY <1>4, <1>5

\* The end of the loop with a text that is empty, an answer or no JSON.
LEMMA LoopEndsIInv ==
    ASSUME IInv, ~crashed, NEW t \in Threads, pc[t] = "read",
           NEW text, LoopEnds(t, text),
           UNCHANGED <<server, taken, notices, stdin>>, stdout' \in Seq(Bytes),
           disturbed' \in BOOLEAN, disturbed => disturbed',
           ~disturbed' /\ Parses(text) => Parsed(text).request = request[t],
           ~disturbed' /\ server' = "running" =>
               stdin' = <<>> /\ taken' = <<>> /\ stdout' = <<>>
    PROVE  IInv'
<1> USE ThreadAssumption, BoundAssumption
<1>1. CallerType /\ WireType /\ mutex = t
  BY TypeParts DEF IInv, MutualExclusion
<1>2. ASSUME NEW response, Return(t, response), crashed' = crashed,
             pid' \in {"child", "none"},
             response.request \in 0 .. MaxRequests,
             response.kind = "result" /\ ~disturbed' => response.request = request[t]
      PROVE  IInv'
  <2>1. WireType'
    BY <1>1, <1>2 DEF WireType, Bytes
  <2>2. server' = "dead" => taken' = <<>>
    BY DEF IInv, NothingKept
  <2> QED
    BY <1>2, <2>1, <2>2, ReturnIInv
<1>3. CASE pid' \in (IF server = "dead" THEN {pid, "none"} ELSE {pid})
           /\ Return(t, EmptyObject) /\ crashed' = crashed
  <2>1. EmptyObject.request \in 0 .. MaxRequests /\ EmptyObject.kind # "result"
    BY DEF EmptyObject, Json
  <2>2. pid' \in {"child", "none"}
    BY <1>1, <1>3 DEF WireType
  <2> QED
    BY <1>2, <1>3, <2>1, <2>2
<1>4. CASE Parses(text) /\ Return(t, Parsed(text)) /\ pid' = pid /\ crashed' = crashed
  <2>1. pid' \in {"child", "none"}
    BY <1>1, <1>4 DEF WireType
  <2> QED
    BY <1>2, <1>4, <2>1, TextIs
<1>5. CASE crashed' = TRUE /\ UNCHANGED <<stage, pid, mutex, pc, request, line,
                                          requests, results>>
  <2>1. TypeOK'
    BY <1>1, <1>5 DEF TypeOK, CallerType, WireType, Bytes
  <2>2. /\ MutualExclusion' /\ Handshaking' /\ Asked' /\ NothingKept'
        /\ MatchesUndisturbed'
    BY <1>5 DEF IInv, MutualExclusion, Handshaking, Asked, NothingKept,
                MatchesUndisturbed, AnswerMatches
  <2>3. PipesClean' /\ InPipes'
    BY <1>1, <1>5 DEF PipesClean, InPipes
  <2> QED
    BY <2>1, <2>2, <2>3 DEF IInv
<1> QED
  BY <1>3, <1>4, <1>5 DEF LoopEnds

\* What a thread that reads may find on its way.
LEMMA Reading ==
    ASSUME IInv, ~crashed, ~disturbed, NEW t \in Threads, pc[t] = "read",
           Way # <<>>
    PROVE  \E k \in Kinds : OnItsWay(t, k)
BY DEF IInv, InPipes, Untaken

\* The types of what is on its way.
LEMMA WayType ==
    ASSUME IInv
    PROVE  /\ line \in Seq(Bytes) /\ stdout \in Seq(Bytes) /\ taken \in Seq(Bytes)
           /\ Len(line) \in Nat /\ Len(stdout) \in Nat /\ Len(taken) \in Nat
           /\ Way \in Seq(Bytes) /\ Len(Way) = Len(line) + Len(stdout) + Len(taken)
           /\ \A i \in 1 .. Len(line) : Way[i] = line[i]
           /\ \A i \in 1 .. Len(stdout) : Way[Len(line) + i] = stdout[i]
<1>1. line \in Seq(JsonBytes) /\ stdout \in Seq(Bytes) /\ taken \in Seq(Bytes)
  BY DEF IInv, TypeOK, Bytes
<1>2. line \in Seq(Bytes)
  BY <1>1 DEF Bytes
<1>3. Len(line) \in Nat /\ Len(stdout) \in Nat /\ Len(taken) \in Nat
  BY <1>1, <1>2, LenProperties
<1>4. /\ Way \in Seq(Bytes) /\ Len(Way) = Len(line) + Len(stdout) + Len(taken)
      /\ \A i \in 1 .. Len(line) : Way[i] = line[i]
      /\ \A i \in 1 .. Len(stdout) : Way[Len(line) + i] = stdout[i]
  <2>1. LET way == (line \o stdout) \o taken
        IN  /\ way \in Seq(Bytes)
            /\ Len(way) = Len(line) + Len(stdout) + Len(taken)
            /\ \A i \in 1 .. Len(line) : way[i] = line[i]
            /\ \A i \in 1 .. Len(stdout) : way[Len(line) + i] = stdout[i]
    BY <1>1, <1>2, Places, SMTT(30)
  <2> QED
    BY <2>1 DEF Way
<1> QED
  BY <1>1, <1>2, <1>3, <1>4

\* A text that parses and is the beginning of a line answers the request of
\* that line.
LEMMA AnswerOf ==
    ASSUME IInv, NEW t \in Threads, request[t] \in 1 .. MaxRequests,
           NEW k \in Kinds, OnItsWay(t, k), NEW text, Parses(text),
           Len(Way) >= 1, text[1] = Way[1]
    PROVE  Parsed(text).request = request[t]
<1>1. Way[1] = <<request[t], k, 1>>
  <2>1. request[t] \in 0 .. MaxRequests /\ 1 \in 1 .. Len(Way)
    BY WayType, BoundAssumption
  <2> QED
    BY <2>1, Lines DEF OnItsWay
<1> QED
  BY <1>1, TextIs, BoundAssumption

\* The last thing before a disturbance, and the end of a dead server's pipe.
LEMMA SilenceIInv ==
    ASSUME IInv, ~crashed, NEW t \in Threads, TimeOut(t) \/ EndOfFile(t)
    PROVE  IInv'
<1>1. /\ pc[t] = "read" /\ stdout = <<>> /\ LoopEnds(t, line)
      /\ UNCHANGED <<server, taken, notices, stdin, stdout>>
      /\ disturbed' = TRUE \/ (server = "dead" /\ disturbed' = disturbed)
  BY DEF TimeOut, EndOfFile, child
<1>2. stdout' \in Seq(Bytes) /\ disturbed' \in BOOLEAN
  <2>1. stdout \in Seq(Bytes) /\ disturbed \in BOOLEAN
    BY DEF IInv, TypeOK, Bytes
  <2> QED
    BY <1>1, <2>1
<1>3. ASSUME ~disturbed', Parses(line)
      PROVE  Parsed(line).request = request[t]
  <2>1. ~disturbed /\ request[t] \in 1 .. MaxRequests
    BY <1>1, <1>3 DEF IInv, Asked
  <2>2. line # <<>> /\ Len(line) >= 1
    <3>1. line # <<>>
      BY <1>3, TextIs
    <3> QED
      BY <3>1, WayType, EmptySeq
  <2>3. Len(Way) >= 1 /\ Way[1] = line[1] /\ Way # <<>>
    BY <2>2, WayType
  <2> QED
    BY <1>1, <1>3, <2>1, <2>3, Reading, AnswerOf
<1> QED
  BY <1>1, <1>2, <1>3, LoopEndsIInv

\* A read takes the beginning of the pipe; with the newline it takes the rest
\* of the line, and undisturbed there is nothing behind it.
LEMMA ReadIInv ==
    ASSUME IInv, ~crashed, NEW t \in Threads, Read(t)
    PROVE  IInv'
<1> USE ThreadAssumption, BoundAssumption
<1> DEFINE n == IF Len(stdout) < BufSize THEN Len(stdout) ELSE BufSize
           buf == SubSeq(stdout, 1, n)
           ends == {i \in 1 .. n : buf[i] = Newline}
           end == CHOOSE i \in ends : \A j \in ends : i <= j
           rest == SubSeq(stdout, n + 1, Len(stdout))
           text == line \o SubSeq(buf, 1, end - 1)
<1>1. /\ pc[t] = "read" /\ stdout # <<>> /\ stdout' = rest
      /\ UNCHANGED <<server, taken, notices, stdin, disturbed>>
      /\ ends = {} => /\ line' = line \o buf
                      /\ UNCHANGED <<stage, pid, mutex, pc, request, requests,
                                     results, crashed>>
      /\ ends # {} => LoopEnds(t, text)
  BY DEF Read, child
<1>2. /\ n \in 1 .. Len(stdout) /\ n \in 0 .. Len(stdout) /\ Len(stdout) \in Nat
      /\ stdout \in Seq(Bytes)
  BY <1>1, WayType, EmptySeq
<1> HIDE DEF n
<1>3. /\ buf \in Seq(Bytes) /\ rest \in Seq(Bytes) /\ Len(buf) = n
      /\ Len(rest) = Len(stdout) - n
      /\ \A i \in 1 .. n : buf[i] = stdout[i]
      /\ buf \o rest = stdout
  BY <1>2, Split
<1> HIDE DEF buf, rest
<1>4. /\ request[t] \in 1 .. MaxRequests /\ mutex = t
      /\ \A u \in Threads : u # t => pc[u] \notin {"write", "read"}
  BY <1>1 DEF IInv, Asked, MutualExclusion
<1>5. CASE ends = {}
  <2>1. /\ line' = line \o buf
        /\ UNCHANGED <<stage, pid, mutex, pc, request, requests, results, crashed>>
    BY <1>1, <1>5
  <2>2. \A i \in 1 .. n : buf[i] # Newline
    BY <1>5
  <2>3. buf \in Seq(JsonBytes)
    <3>1. /\ n \in Nat /\ \A i \in 1 .. n : buf[i] \in JsonBytes
      BY <1>2, <1>3, <2>2, LenProperties DEF Bytes
    <3>2. buf = [i \in 1 .. n |-> buf[i]]
      BY <1>3, LenProperties
    <3> HIDE DEF ends
    <3>3. [i \in 1 .. n |-> buf[i]] \in Seq(JsonBytes)
      BY <3>1
    <3> QED
      BY <3>2, <3>3
  <2>4. line' \in Seq(JsonBytes)
    <3>1. line \in Seq(JsonBytes)
      BY DEF IInv, TypeOK
    <3> QED
      BY <2>1, <2>3, <3>1, ConcatProperties
  <2>5. Way' = Way
    <3>1. Way' = ((line \o buf) \o rest) \o taken
      BY <1>1, <2>1 DEF Way
    <3>2. ((line \o buf) \o rest) \o taken = (line \o (buf \o rest)) \o taken
      <4>1. line \in Seq(Bytes)
        BY WayType
      <4>2. (line \o buf) \o rest = line \o (buf \o rest)
        BY <1>3, <4>1, Associative
      <4> QED
        BY <4>2
    <3> QED
      BY <1>3, <3>1, <3>2 DEF Way
  <2>6. TypeOK'
    BY <1>1, <1>3, <2>1, <2>4 DEF IInv, TypeOK, Bytes
  <2>7. /\ MutualExclusion' /\ Handshaking' /\ Asked' /\ NothingKept'
        /\ MatchesUndisturbed'
    BY <1>1, <1>4, <2>1 DEF IInv, MutualExclusion, Handshaking, Asked,
                NothingKept, MatchesUndisturbed, AnswerMatches
  <2>8. PipesClean'
    BY <1>4, <2>1 DEF PipesClean
  <2>9. InPipes'
    BY <1>1, <1>4, <2>1, <2>5 DEF IInv, InPipes, Untaken, OnItsWay
  <2> QED
    BY <2>6, <2>7, <2>8, <2>9 DEF IInv
<1>6. CASE ends # {}
  <2>1. stdout' \in Seq(Bytes) /\ disturbed' \in BOOLEAN /\ LoopEnds(t, text)
    <3>1. disturbed \in BOOLEAN
      BY DEF IInv, TypeOK
    <3> QED
      BY <1>1, <1>3, <1>6, <3>1
  <2>2. ASSUME ~disturbed
        PROVE  /\ Parses(text) => Parsed(text).request = request[t]
               /\ server' = "running" =>
                     stdin' = <<>> /\ taken' = <<>> /\ stdout' = <<>>
    <3>1. Len(Way) >= 1 /\ Way # <<>>
      BY <1>2, WayType
    <3>2. PICK k \in Kinds : OnItsWay(t, k)
      BY <1>1, <2>2, <3>1, Reading
    <3>3. /\ Len(Way) <= 3
          /\ \A i \in 1 .. Len(Way) : Way[i] = Line(request[t], k)[i]
          /\ server = "running" => stdin = <<>>
      BY <3>2 DEF OnItsWay
    <3>4. /\ Line(request[t], k)[1] \in JsonBytes
          /\ Line(request[t], k)[2] \in JsonBytes
      <4>1. request[t] \in 0 .. MaxRequests
        BY <1>4
      <4> QED
        BY <4>1, Lines
    <3>5. \A i \in ends : Len(line) + i = 3 /\ i \in 1 .. n
      <4>1. SUFFICES ASSUME NEW i \in 1 .. n, buf[i] = Newline
                     PROVE  Len(line) + i = 3
        OBVIOUS
      <4>2. /\ i \in 1 .. Len(stdout) /\ stdout[i] = Newline
            /\ Len(line) \in Nat /\ Len(taken) \in Nat
            /\ Len(Way) = Len(line) + Len(stdout) + Len(taken)
        BY <1>2, <1>3, <4>1, WayType
      <4>3. Way[Len(line) + i] = Newline /\ Len(line) + i \in 1 .. Len(Way)
        BY <1>2, <4>2, WayType
      <4>4. Len(line) + i \in 1 .. 3
        BY <3>3, <4>2, <4>3
      <4>5. Line(request[t], k)[Len(line) + i] = Newline
        BY <3>3, <4>3
      <4>6. Len(line) + i # 1 /\ Len(line) + i # 2
        BY <3>4, <4>5, NewlineIsNoJson
      <4> QED
        BY <4>4, <4>6
    <3>6. end \in ends
      <4>1. PICK i \in ends : TRUE
        BY <1>6
      <4>2. \A j \in ends : i <= j
        BY <1>2, <3>5, <4>1, WayType
      <4> QED
        BY <4>1, <4>2
    <3>7. /\ end \in 1 .. n /\ Len(line) + end = 3
          /\ Len(stdout) = n /\ Len(taken) = 0 /\ n = end
      <4>1. end \in 1 .. n /\ Len(line) + end = 3
        BY <3>5, <3>6
      <4>2. /\ Len(Way) = Len(line) + Len(stdout) + Len(taken)
            /\ Len(line) \in Nat /\ Len(taken) \in Nat
        BY WayType
      <4> HIDE DEF end, ends
      <4> QED
        BY <1>2, <3>3, <4>1, <4>2
    <3> HIDE DEF end
    <3>8. taken = <<>> /\ stdout' = <<>>
      <4>1. Len(rest) = 0
        BY <1>2, <1>3, <3>7
      <4> QED
        BY <1>1, <1>3, <3>7, <4>1, WayType, EmptySeq
    <3>9. ASSUME Parses(text) PROVE text[1] = Way[1]
      <4> DEFINE kept == SubSeq(buf, 1, end - 1)
      <4>1. /\ kept \in Seq(Bytes) /\ Len(kept) = end - 1 /\ end - 1 \in Nat
            /\ \A i \in 1 .. end - 1 : kept[i] = buf[i]
        BY <1>2, <1>3, <3>7, Split
      <4> HIDE DEF kept
      <4>2. /\ Len(text) = Len(line) + Len(kept) /\ text \in Seq(Bytes)
            /\ \A i \in 1 .. Len(line) + Len(kept) :
                  text[i] = IF i <= Len(line) THEN line[i] ELSE kept[i - Len(line)]
        <5>1. line \in Seq(Bytes)
          BY WayType
        <5>2. text = line \o kept
          BY DEF kept
        <5> HIDE DEF text
        <5> QED
          BY <4>1, <5>1, <5>2, ConcatProperties
      <4> HIDE DEF text
      <4>3. 1 \in 1 .. Len(line) + Len(kept) /\ Len(line) \in Nat
        <5>1. text # <<>>
          BY <3>9, TextIs
        <5> QED
          BY <4>1, <4>2, <5>1, WayType, EmptySeq
      <4>4. CASE Len(line) >= 1
        BY <4>2, <4>3, <4>4, WayType
      <4>5. CASE Len(line) = 0
        <5>1. 1 \in 1 .. end - 1 /\ 1 \in 1 .. n /\ 1 \in 1 .. Len(stdout)
          BY <1>2, <3>7, <4>1, <4>3, <4>5
        <5>2. text[1] = kept[1] /\ kept[1] = buf[1] /\ buf[1] = stdout[1]
          BY <1>3, <4>1, <4>2, <4>3, <4>5, <5>1
        <5>3. Way[Len(line) + 1] = stdout[1]
          BY <5>1, WayType
        <5> QED
          BY <4>5, <5>2, <5>3
      <4> QED
        BY <4>3, <4>4, <4>5
    <3> HIDE DEF text
    <3> QED
      BY <1>1, <1>4, <3>1, <3>2, <3>3, <3>8, <3>9, AnswerOf
  <2> HIDE DEF text, ends
  <2> QED
    BY <1>1, <2>1, <2>2, LoopEndsIInv
<1> QED
  BY <1>5, <1>6

\* The server takes the one request there is, and its answer is on its way.
LEMMA ServerTakesIInv ==
    ASSUME IInv, ~crashed, ServerTakes
    PROVE  IInv'
<1> USE ThreadAssumption, BoundAssumption
<1>1. /\ server = "running" /\ stdin # <<>>
      /\ UNCHANGED <<stage, pid, mutex, pc, request, line, requests, results,
                     crashed, server, notices, stdout, disturbed>>
      /\ stdin' = Tail(stdin)
  BY DEF ServerTakes, caller
<1>2. PICK kind \in {"result", "error"} : taken' = taken \o Line(Head(stdin), kind)
  BY DEF ServerTakes
<1>3. kind \in Kinds
  BY DEF Kinds
<1>4. /\ stdin \in Seq(1 .. MaxRequests) /\ Head(stdin) \in 0 .. MaxRequests
      /\ Tail(stdin) \in Seq(1 .. MaxRequests)
  <2>1. stdin \in Seq(1 .. MaxRequests)
    BY DEF IInv, TypeOK
  <2>2. Head(stdin) \in 1 .. MaxRequests /\ Tail(stdin) \in Seq(1 .. MaxRequests)
    BY <1>1, <2>1, HeadTailProperties
  <2> QED
    BY <2>1, <2>2
<1>5. Line(Head(stdin), kind) \in Seq(Bytes) /\ Len(Line(Head(stdin), kind)) = 3
  BY <1>3, <1>4, Lines
<1>6. taken' \in Seq(Bytes)
  BY <1>2, <1>5, WayType, ConcatProperties
<1>7. TypeOK'
  BY <1>1, <1>4, <1>6 DEF IInv, TypeOK, Bytes
<1>8. /\ MutualExclusion' /\ Handshaking' /\ Asked' /\ NothingKept'
      /\ MatchesUndisturbed'
  BY <1>1 DEF IInv, MutualExclusion, Handshaking, Asked, NothingKept,
              MatchesUndisturbed, AnswerMatches
<1>9. PipesClean'
  BY <1>1 DEF IInv, PipesClean
<1>10. ASSUME ~disturbed, NEW t \in Threads
       PROVE  /\ pc[t] # "write"
              /\ pc[t] = "read" => OnItsWay(t, kind)'
  <2>1. pc[t] # "write"
    BY <1>1, <1>10 DEF IInv, InPipes, Empty
  <2>2. ASSUME pc[t] = "read" PROVE OnItsWay(t, kind)'
    <3>1. stdin = <<request[t]>> /\ Way = <<>>
      BY <1>1, <1>10, <2>2 DEF IInv, InPipes, Untaken, OnItsWay
    <3>2. line = <<>> /\ stdout = <<>> /\ taken = <<>>
      <4>1. Len(Way) = 0
        BY <3>1
      <4>2. Len(line) = 0 /\ Len(stdout) = 0 /\ Len(taken) = 0
        BY <4>1, WayType
      <4> QED
        BY <4>2, WayType, EmptySeq
    <3>3. Head(stdin) = request[t] /\ Tail(stdin) = <<>>
      <4>1. Len(stdin) = 1 /\ stdin[1] = request[t]
        BY <3>1
      <4>2. Head(stdin) = stdin[1] /\ Len(Tail(stdin)) = 0
        BY <1>1, <1>4, <4>1, HeadTailProperties
      <4> QED
        BY <1>4, <4>1, <4>2, EmptySeq
    <3>4. Way' = (<<>> \o <<>>) \o (<<>> \o Line(request[t], kind))
      BY <1>1, <1>2, <3>2, <3>3 DEF Way
    <3>5. Way' = Line(request[t], kind)
      <4>1. Line(request[t], kind) \in Seq(Bytes)
        BY <1>5, <3>3
      <4>2. <<>> \o Line(request[t], kind) = Line(request[t], kind)
        BY <4>1, ConcatEmptySeq
      <4>3. <<>> \o <<>> = <<>>
        BY EmptySeq, ConcatEmptySeq
      <4> QED
        BY <3>4, <4>2, <4>3
    <3>6. Len(Way') = 3 /\ stdin' = <<>> /\ request' = request
      BY <1>1, <1>5, <3>3, <3>5
    <3> QED
      BY <3>5, <3>6 DEF OnItsWay
  <2> QED
    BY <2>1, <2>2
<1>11. InPipes'
  BY <1>1, <1>3, <1>10 DEF InPipes
<1> QED
  BY <1>7, <1>8, <1>9, <1>11 DEF IInv

\* From then on nothing is claimed.
LEMMA ServerNotesIInv ==
    ASSUME IInv, ServerNotes
    PROVE  IInv'
<1> USE ThreadAssumption, BoundAssumption
<1>1. /\ server = "running" /\ notices < MaxNotices /\ notices' = notices + 1
      /\ taken' = taken \o Line(0, "notice") /\ disturbed' = TRUE
      /\ UNCHANGED <<stage, pid, mutex, pc, request, line, requests, results,
                     crashed, server, stdin, stdout>>
  BY DEF ServerNotes, caller
<1>2. taken' \in Seq(Bytes)
  <2>1. 0 \in 0 .. MaxRequests /\ "notice" \in Kinds
    BY DEF Kinds
  <2>2. Line(0, "notice") \in Seq(Bytes)
    BY <2>1, Lines
  <2> QED
    BY <1>1, <2>2, WayType, ConcatProperties
<1>3. notices' \in 0 .. MaxNotices
  BY <1>1 DEF IInv, TypeOK
<1>4. TypeOK'
  BY <1>1, <1>2, <1>3 DEF IInv, TypeOK, Bytes
<1>5. /\ MutualExclusion' /\ Handshaking' /\ Asked' /\ NothingKept'
      /\ MatchesUndisturbed' /\ PipesClean' /\ InPipes'
  BY <1>1 DEF IInv, MutualExclusion, Handshaking, Asked, NothingKept,
              MatchesUndisturbed, PipesClean, InPipes
<1> QED
  BY <1>4, <1>5 DEF IInv

\* A line goes from the server into the pipe, whole or in parts.
LEMMA ServerWritesIInv ==
    ASSUME IInv, ~crashed, ServerWrites
    PROVE  IInv'
<1>1. /\ server = "running" /\ taken # <<>>
      /\ UNCHANGED <<stage, pid, mutex, pc, request, line, requests, results,
                     crashed, server, notices, stdin, disturbed>>
  BY DEF ServerWrites, caller
<1>2. PICK n \in 1 .. Len(taken) : stdout' = stdout \o SubSeq(taken, 1, n)
                                   /\ taken' = SubSeq(taken, n + 1, Len(taken))
  BY DEF ServerWrites
<1>3. n \in 0 .. Len(taken)
  BY WayType
<1> DEFINE out == SubSeq(taken, 1, n)
           rest == SubSeq(taken, n + 1, Len(taken))
<1>4. out \in Seq(Bytes) /\ rest \in Seq(Bytes) /\ out \o rest = taken
  BY <1>3, WayType, Split
<1> HIDE DEF out, rest
<1>5. stdout' = stdout \o out /\ taken' = rest
  BY <1>2 DEF out, rest
<1>6. stdout' \in Seq(Bytes) /\ taken' \in Seq(Bytes)
  BY <1>4, <1>5, WayType, ConcatProperties
<1>7. Way' = Way
  <2>1. Way' = (line \o (stdout \o out)) \o rest
    BY <1>1, <1>5 DEF Way
  <2>2. (line \o (stdout \o out)) \o rest = (line \o stdout) \o (out \o rest)
    <3> line \in Seq(Bytes) /\ stdout \in Seq(Bytes)
      BY WayType
    <3>1. (line \o stdout) \o out = line \o (stdout \o out)
      BY <1>4, Associative
    <3>2. line \o stdout \in Seq(Bytes)
      BY ConcatProperties
    <3>3. ((line \o stdout) \o out) \o rest = (line \o stdout) \o (out \o rest)
      BY <1>4, <3>2, Associative
    <3> QED
      BY <3>1, <3>3
  <2> QED
    BY <1>4, <2>1, <2>2 DEF Way
<1>8. TypeOK'
  BY <1>1, <1>6 DEF IInv, TypeOK, Bytes
<1>9. /\ MutualExclusion' /\ Handshaking' /\ Asked' /\ NothingKept'
      /\ MatchesUndisturbed'
  BY <1>1 DEF IInv, MutualExclusion, Handshaking, Asked, NothingKept,
              MatchesUndisturbed, AnswerMatches
<1>10. PipesClean'
  BY <1>1 DEF IInv, PipesClean
<1>11. InPipes'
  BY <1>1, <1>7 DEF IInv, InPipes, Empty, Untaken, OnItsWay
<1> QED
  BY <1>8, <1>9, <1>10, <1>11 DEF IInv

\* What a dead server has not written is lost; the part of a line before it
\* is still the part of an answer.
LEMMA DeathIInv ==
    ASSUME IInv, server' = "dead", taken' = <<>>, pid' \in {"child", "none"},
           UNCHANGED <<mutex, pc, request, line, requests, results, crashed,
                       notices, stdin, stdout, disturbed>>,
           stage' = stage \/ (stage = "failed" /\ stage' = "stopped")
    PROVE  IInv'
<1>1. TypeOK'
  BY EmptySeq DEF IInv, TypeOK
<1>2. MutualExclusion' /\ Asked' /\ NothingKept' /\ MatchesUndisturbed'
  BY DEF IInv, MutualExclusion, Asked, NothingKept, MatchesUndisturbed,
         AnswerMatches
<1>3. Handshaking' /\ PipesClean'
  BY DEF IInv, Handshaking, PipesClean
<1>4. Way' \in Seq(Bytes) /\ Len(Way') = Len(line) + Len(stdout)
      /\ Len(Way') <= Len(Way) /\ \A i \in 1 .. Len(Way') : Way'[i] = Way[i]
  <2>1. Way' = (line \o stdout) \o <<>>
    BY DEF Way
  <2>2. <<>> \in Seq(Bytes) /\ Len(<<>>) = 0
    BY EmptySeq
  <2>3. /\ Way' \in Seq(Bytes) /\ Len(Way') = Len(line) + Len(stdout) + 0
        /\ \A i \in 1 .. Len(line) + Len(stdout) : Way'[i] = (line \o stdout)[i]
    BY <2>1, <2>2, WayType, Places
  <2>4. \A i \in 1 .. Len(line) + Len(stdout) : Way[i] = (line \o stdout)[i]
    BY WayType, Places DEF Way
  <2>5. Len(Way') = Len(line) + Len(stdout) /\ Len(Way') <= Len(Way)
    BY <2>3, WayType
  <2> QED
    BY <2>3, <2>4, <2>5
<1>5. ASSUME ~disturbed, ~crashed, NEW t \in Threads, pc[t] = "read"
      PROVE  \E k \in Kinds : OnItsWay(t, k)'
  <2>1. CASE Untaken(t)
    <3>1. Len(Way') = 0
      <4>1. Len(Way) = 0
        BY <2>1 DEF Untaken
      <4> QED
        BY <1>4, <4>1, WayType
    <3>2. "result" \in Kinds /\ OnItsWay(t, "result")'
      BY <3>1 DEF OnItsWay, Kinds
    <3> QED
      BY <3>2
  <2>2. CASE \E k \in Kinds : OnItsWay(t, k)
    <3>1. PICK k \in Kinds : OnItsWay(t, k)
      BY <2>2
    <3>2. Len(Way') <= 3 /\ \A i \in 1 .. Len(Way') : Way'[i] = Line(request[t], k)[i]
      BY <1>4, <3>1, WayType DEF OnItsWay
    <3>3. OnItsWay(t, k)'
      BY <3>2 DEF OnItsWay
    <3> QED
      BY <3>3
  <2> QED
    BY <1>5, <2>1, <2>2 DEF IInv, InPipes
<1>6. InPipes'
  BY <1>5 DEF InPipes
<1> QED
  BY <1>1, <1>2, <1>3, <1>6 DEF IInv

LEMMA NextIInv == IInv /\ [Next]_vars => IInv'
<1> SUFFICES ASSUME IInv, [Next]_vars PROVE IInv'
  OBVIOUS
<1>1. CASE ~crashed /\ \E t \in Threads :
                 CallTool(t) \/ CallToolBadly(t) \/ Transact(t)
  BY <1>1, CallToolIInv, CallToolBadlyIInv, LockIInv, WriteIInv, ReadIInv,
     SilenceIInv DEF Transact
<1>2. CASE Stop
  <2>1. stage = "failed" /\ stage' = "stopped"
        /\ pid' \in {"child", "none"} /\ server' = "dead" /\ taken' = <<>>
        /\ UNCHANGED <<mutex, pc, request, line, requests, results, crashed,
                       notices, stdin, stdout, disturbed>>
    BY <1>2 DEF Stop
  <2> QED
    BY <2>1, DeathIInv
<1>3. CASE ~crashed /\ Server
  <2>1. CASE ServerDies
    <3>1. pid' \in {"child", "none"} /\ stage' = stage /\ server' = "dead"
          /\ taken' = <<>>
          /\ UNCHANGED <<mutex, pc, request, line, requests, results, crashed,
                         notices, stdin, stdout, disturbed>>
      <4>1. pid \in {"child", "none"}
        BY DEF IInv, TypeOK
      <4> QED
        BY <2>1, <4>1 DEF ServerDies, caller
    <3> QED
      BY <3>1, DeathIInv
  <2> QED
    BY <1>3, <2>1, ServerTakesIInv, ServerNotesIInv, ServerWritesIInv DEF Server
<1>4. CASE Quiet \/ UNCHANGED vars
  <2>1. UNCHANGED <<stage, pid, mutex, pc, request, line, requests, results,
                    crashed, server, taken, notices, stdin, stdout, disturbed>>
    BY <1>4 DEF Quiet, vars, caller, child
  <2>2. TypeOK'
    BY <2>1 DEF IInv, TypeOK
  <2>3. /\ MutualExclusion' /\ Handshaking' /\ Asked' /\ NothingKept'
        /\ MatchesUndisturbed' /\ PipesClean'
    BY <2>1 DEF IInv, MutualExclusion, Handshaking, Asked, NothingKept,
                MatchesUndisturbed, AnswerMatches, PipesClean
  <2>4. InPipes'
    BY <2>1 DEF IInv, InPipes, Empty, Untaken, OnItsWay, Way
  <2> QED
    BY <2>2, <2>3, <2>4 DEF IInv
<1> QED
  BY <1>1, <1>2, <1>3, <1>4 DEF Next

LEMMA Invariance == Spec => []IInv
BY InitIInv, NextIInv, PTL DEF Spec

-----------------------------------------------------------------------------
(* The theorems.                                                            *)

\* Every variable has its type, for any number of threads and requests and
\* any size of the buffer (ToolMCP.cc).
THEOREM TypeCorrect == Spec => []TypeOK
<1>1. IInv => TypeOK
  BY DEF IInv
<1> QED
  BY <1>1, Invariance, PTL

\* One thread at a time writes to the process and reads from it
\* (ToolMCP.cc:80-81).
THEOREM OneAtATime == Spec => []MutualExclusion
<1>1. IInv => MutualExclusion
  BY DEF IInv
<1> QED
  BY <1>1, Invariance, PTL

\* Until the first timeout or unasked line nothing is left in the pipes
\* between two transactions (ToolMCP.cc:98-126).
THEOREM PipesStayClean == Spec => []PipesClean
<1>1. IInv => PipesClean
  BY DEF IInv
<1> QED
  BY <1>1, Invariance, PTL

\* Until then every result is the server's answer to that very request,
\* though nobody compares the ids (ToolMCP.cc:256-264).
THEOREM AnswersMatch == Spec => []MatchesUndisturbed
<1>1. IInv => MatchesUndisturbed
  BY DEF IInv
<1> QED
  BY <1>1, Invariance, PTL

-----------------------------------------------------------------------------
(***************************************************************************)
(* For AnsweredOnce.  A request is in one place at a time: with the thread  *)
(* that has not written it, in the pipe to the server, as its answer on the *)
(* way back, or in the results.  An answer is known by its first byte; what *)
(* loses that byte is not given to anybody.  None of this needs the server  *)
(* to be in time.                                                           *)
(***************************************************************************)
FirstByte(n) == <<n, "result", 1>>

OnTheWay(n) ==
    \/ Holds(line, FirstByte(n))
    \/ Holds(stdout, FirstByte(n))
    \/ Holds(taken, FirstByte(n))

Given(n) == \E t \in Threads : \E i \in DOMAIN results[t] : results[t][i][2] = n

Used(n) == Holds(stdin, n) \/ OnTheWay(n) \/ Given(n)

InOnePlace(n) ==
    /\ Single(stdin, n)
    /\ Single(line, FirstByte(n))
    /\ Single(stdout, FirstByte(n))
    /\ Single(taken, FirstByte(n))
    /\ ~(Holds(line, FirstByte(n)) /\ Holds(stdout, FirstByte(n)))
    /\ ~(Holds(line, FirstByte(n)) /\ Holds(taken, FirstByte(n)))
    /\ ~(Holds(stdout, FirstByte(n)) /\ Holds(taken, FirstByte(n)))
    /\ ~(Holds(stdin, n) /\ OnTheWay(n))
    /\ ~(Given(n) /\ (Holds(stdin, n) \/ OnTheWay(n)))

Waiting(t) == pc[t] \in {"lock", "write"}

Fresh ==
    \A t \in Threads : Waiting(t) =>
        /\ request[t] \in 1 .. requests
        /\ \A n \in 0 .. MaxRequests : Used(n) => n # request[t]
        /\ \A u \in Threads : Waiting(u) /\ request[u] = request[t] => u = t

OInv ==
    /\ \A n \in 0 .. MaxRequests : InOnePlace(n) /\ (Used(n) => n <= requests)
    /\ Fresh
    /\ AnsweredOnce

-----------------------------------------------------------------------------
(* Lemmas about the operators.                                              *)

\* What a sequence holds one of its two parts holds.
LEMMA HoldsSplit ==
    ASSUME NEW S, NEW s \in Seq(S), NEW n \in 0 .. Len(s), NEW x
    PROVE  LET a == SubSeq(s, 1, n)
               b == SubSeq(s, n + 1, Len(s))
           IN  /\ Holds(s, x) <=> Holds(a, x) \/ Holds(b, x)
               /\ Single(s, x) <=> /\ Single(a, x) /\ Single(b, x)
                                   /\ ~(Holds(a, x) /\ Holds(b, x))
<1> DEFINE a == SubSeq(s, 1, n)
           b == SubSeq(s, n + 1, Len(s))
<1>1. a \in Seq(S) /\ b \in Seq(S) /\ a \o b = s
  BY Split
<1> HIDE DEF a, b
<1>2. /\ Holds(a \o b, x) <=> Holds(a, x) \/ Holds(b, x)
      /\ Single(a \o b, x) <=> /\ Single(a, x) /\ Single(b, x)
                               /\ ~(Holds(a, x) /\ Holds(b, x))
  BY <1>1, HoldsConcat
<1>3. /\ Holds(s, x) <=> Holds(a, x) \/ Holds(b, x)
      /\ Single(s, x) <=> /\ Single(a, x) /\ Single(b, x)
                          /\ ~(Holds(a, x) /\ Holds(b, x))
  BY <1>1, <1>2
<1> QED
  BY <1>3 DEF a, b

\* A line holds the first byte of its own answer, once.
LEMMA LineHolds ==
    ASSUME NEW n \in 0 .. MaxRequests, NEW k \in Kinds,
           NEW m \in 0 .. MaxRequests
    PROVE  /\ Holds(Line(n, k), FirstByte(m)) <=> n = m /\ k = "result"
           /\ Single(Line(n, k), FirstByte(m))
<1>1. /\ Len(Line(n, k)) = 3
      /\ Line(n, k)[1] = <<n, k, 1>> /\ Line(n, k)[2] = <<n, k, 2>>
      /\ Line(n, k)[3] = Newline
  BY Lines
<1>2. <<n, k, 1>> = FirstByte(m) <=> n = m /\ k = "result"
  BY DEF FirstByte
<1>3. <<n, k, 2>> # FirstByte(m)
  BY DEF FirstByte
<1>4. Newline # FirstByte(m)
  <2>1. Len(Newline) = 1 /\ Len(FirstByte(m)) = 3
    BY DEF Newline, FirstByte
  <2> QED
    BY <2>1
<1>5. \A i \in 1 .. 3 : Line(n, k)[i] = FirstByte(m) => i = 1
  <2> SUFFICES ASSUME NEW i \in 1 .. 3, i # 1
               PROVE  Line(n, k)[i] # FirstByte(m)
    OBVIOUS
  <2>1. i = 2 \/ i = 3
    OBVIOUS
  <2> QED
    BY <1>1, <1>3, <1>4, <2>1
<1>6. 1 \in 1 .. 3
  OBVIOUS
<1> QED
  BY <1>1, <1>2, <1>5, <1>6 DEF Holds, Single

\* What parses as a result holds the first byte of that answer.
LEMMA TextHolds ==
    ASSUME NEW text, Parses(text), Parsed(text).kind = "result"
    PROVE  /\ Parsed(text).request \in 0 .. MaxRequests
           /\ Holds(text, FirstByte(Parsed(text).request))
<1>1. PICK m \in 0 .. MaxRequests, j \in Kinds : text = JsonText(m, j)
  BY DEF Parses, Texts
<1>2. text = <<<<m, j, 1>>, <<m, j, 2>>>>
  BY <1>1 DEF JsonText
<1>3. text[1] = <<m, j, 1>> /\ text[1][1] = m /\ text[1][2] = j /\ Len(text) = 2
  BY <1>2
<1>4. Parsed(text).request = m /\ Parsed(text).kind = j
  BY <1>3 DEF Parsed, Json
<1>5. text[1] = FirstByte(m) /\ 1 \in 1 .. Len(text)
  BY <1>3, <1>4 DEF FirstByte
<1> QED
  BY <1>4, <1>5 DEF Holds

-----------------------------------------------------------------------------
(* The steps.                                                               *)

LEMMA InitOInv == Init => OInv
<1> SUFFICES ASSUME Init PROVE OInv
  OBVIOUS
<1> USE ThreadAssumption, BoundAssumption
<1>1. /\ stdin = <<>> /\ line = <<>> /\ stdout = <<>> /\ taken = <<>>
      /\ requests = 1 /\ \A t \in Threads : results[t] = <<>>
      /\ \A t \in Threads : Waiting(t) => t = Main
      /\ request[Main] = 1
  BY DEF Init, Waiting
<1>2. ASSUME NEW n PROVE InOnePlace(n) /\ ~Used(n)
  <2>1. ~Given(n)
    BY <1>1 DEF Given
  <2>2. /\ ~Holds(stdin, n) /\ Single(stdin, n)
        /\ ~Holds(line, FirstByte(n)) /\ Single(line, FirstByte(n))
        /\ ~Holds(stdout, FirstByte(n)) /\ Single(stdout, FirstByte(n))
        /\ ~Holds(taken, FirstByte(n)) /\ Single(taken, FirstByte(n))
    BY <1>1, HoldsNothing
  <2> QED
    BY <2>1, <2>2 DEF InOnePlace, Used, OnTheWay
<1>3. AnsweredOnce
  BY <1>1 DEF AnsweredOnce
<1>4. Fresh
  BY <1>1, <1>2 DEF Fresh
<1> QED
  BY <1>2, <1>3, <1>4 DEF OInv

\* A step that makes no request and gives no result only moves answers or
\* loses them.
LEMMA MovesOInv ==
    ASSUME OInv, UNCHANGED <<requests, request, results>>,
           \A n \in 0 .. MaxRequests : InOnePlace(n)',
           \A n \in 0 .. MaxRequests : Used(n)' => Used(n),
           \A t \in Threads : Waiting(t)' => Waiting(t) /\ request[t] \in 0 .. MaxRequests
    PROVE  OInv'
<1>1. \A n \in 0 .. MaxRequests : Used(n)' => n <= requests'
  BY DEF OInv
<1>2. Fresh'
  BY DEF OInv, Fresh, Waiting
<1>3. AnsweredOnce'
  BY DEF OInv, AnsweredOnce
<1> QED
  BY <1>1, <1>2, <1>3 DEF OInv

\* Nothing is moved.
LEMMA SamePlaces ==
    ASSUME UNCHANGED <<stdin, line, stdout, taken, results>>, NEW n
    PROVE  (InOnePlace(n)' <=> InOnePlace(n)) /\ (Used(n)' <=> Used(n))
BY DEF InOnePlace, Used, OnTheWay, Given

\* The types of the places.
LEMMA PlaceTypes ==
    ASSUME IInv
    PROVE  /\ line \in Seq(Bytes) /\ stdout \in Seq(Bytes) /\ taken \in Seq(Bytes)
           /\ stdin \in Seq(1 .. MaxRequests)
           /\ request \in [Threads -> 0 .. MaxRequests]
           /\ pc \in [Threads -> {"idle", "lock", "write", "read"}]
           /\ requests \in 1 .. MaxRequests
<1>1. TypeOK
  BY DEF IInv
<1> QED
  BY <1>1, WayType DEF TypeOK

LEMMA LockOInv ==
    ASSUME IInv, OInv, NEW t \in Threads, Lock(t)
    PROVE  OInv'
<1>1. /\ pc[t] = "lock" /\ pc' = [pc EXCEPT ![t] = "write"]
      /\ UNCHANGED <<stdin, line, stdout, taken, results, requests, request>>
  BY DEF Lock, child
<1>2. \A n \in 0 .. MaxRequests : InOnePlace(n)' /\ (Used(n)' => Used(n))
  BY <1>1, SamePlaces DEF OInv
<1>3. \A u \in Threads : Waiting(u)' => Waiting(u) /\ request[u] \in 0 .. MaxRequests
  BY <1>1, PlaceTypes DEF Waiting
<1> QED
  BY <1>1, <1>2, <1>3, MovesOInv

\* A step of the server that moves answers or loses them.
LEMMA WireOInv ==
    ASSUME IInv, OInv, UNCHANGED <<requests, request, results, pc>>,
           \A n \in 0 .. MaxRequests : InOnePlace(n)' /\ (Used(n)' => Used(n))
    PROVE  OInv'
<1>1. \A u \in Threads : Waiting(u)' => Waiting(u) /\ request[u] \in 0 .. MaxRequests
  BY PlaceTypes DEF Waiting
<1> QED
  BY <1>1, MovesOInv

\* A request leaves the pipe as its answer is begun.
LEMMA ServerTakesOInv ==
    ASSUME IInv, OInv, ServerTakes
    PROVE  OInv'
<1> DEFINE head == Head(stdin)
           rest == Tail(stdin)
<1>1. PICK k \in Kinds :
        /\ stdin # <<>> /\ taken' = taken \o Line(head, k) /\ stdin' = rest
        /\ UNCHANGED <<requests, request, results, pc, line, stdout>>
  BY DEF ServerTakes, caller, Kinds
<1>2. head \in 1 .. MaxRequests /\ head \in 0 .. MaxRequests
  <2>1. head \in 1 .. MaxRequests
    BY <1>1, PlaceTypes, HeadTailProperties
  <2> QED
    BY <2>1
<1> HIDE DEF head, rest
<1>3. ASSUME NEW n \in 0 .. MaxRequests
      PROVE  InOnePlace(n)' /\ (Used(n)' => Used(n))
  <2>1. /\ Holds(stdin, n) <=> n = head \/ Holds(stdin', n)
        /\ Single(stdin, n) <=> Single(stdin', n) /\ ~(Holds(stdin', n) /\ n = head)
    BY <1>1, PlaceTypes, HoldsHead DEF head, rest
  <2>2. /\ Holds(taken', FirstByte(n)) <=>
              Holds(taken, FirstByte(n)) \/ (head = n /\ k = "result")
        /\ Single(taken', FirstByte(n)) <=>
              /\ Single(taken, FirstByte(n))
              /\ ~(Holds(taken, FirstByte(n)) /\ head = n /\ k = "result")
    <3>1. Line(head, k) \in Seq(Bytes) /\ taken \in Seq(Bytes)
      BY <1>2, Lines, PlaceTypes
    <3>2. /\ Holds(Line(head, k), FirstByte(n)) <=> head = n /\ k = "result"
          /\ Single(Line(head, k), FirstByte(n))
      BY <1>2, LineHolds
    <3> QED
      BY <1>1, <3>1, <3>2, HoldsConcat
  <2>3. Given(n)' <=> Given(n)
    BY <1>1 DEF Given
  <2>4. InOnePlace(n)
    BY DEF OInv
  <2> QED
    BY <1>1, <2>1, <2>2, <2>3, <2>4 DEF InOnePlace, Used, OnTheWay
<1> QED
  BY <1>1, <1>3, WireOInv

\* What is written unasked answers nobody.
LEMMA ServerNotesOInv ==
    ASSUME IInv, OInv, ServerNotes
    PROVE  OInv'
<1>1. /\ taken' = taken \o Line(0, "notice")
      /\ UNCHANGED <<requests, request, results, pc, line, stdout, stdin>>
  BY DEF ServerNotes, caller
<1>2. 0 \in 0 .. MaxRequests /\ "notice" \in Kinds
  BY BoundAssumption DEF Kinds
<1>3. ASSUME NEW n \in 0 .. MaxRequests
      PROVE  InOnePlace(n)' /\ (Used(n)' => Used(n))
  <2>1. /\ Holds(taken', FirstByte(n)) <=> Holds(taken, FirstByte(n))
        /\ Single(taken', FirstByte(n)) <=> Single(taken, FirstByte(n))
    <3>1. Line(0, "notice") \in Seq(Bytes) /\ taken \in Seq(Bytes)
      BY <1>2, Lines, PlaceTypes
    <3>2. /\ ~Holds(Line(0, "notice"), FirstByte(n))
          /\ Single(Line(0, "notice"), FirstByte(n))
      BY <1>2, LineHolds
    <3> QED
      BY <1>1, <3>1, <3>2, HoldsConcat
  <2>2. (Given(n)' <=> Given(n)) /\ InOnePlace(n)
    BY <1>1 DEF Given, OInv
  <2> QED
    BY <1>1, <2>1, <2>2 DEF InOnePlace, Used, OnTheWay
<1> QED
  BY <1>1, <1>3, WireOInv

\* What is written is no longer to be written.
LEMMA ServerWritesOInv ==
    ASSUME IInv, OInv, ServerWrites
    PROVE  OInv'
<1>1. PICK n \in 1 .. Len(taken) :
        /\ stdout' = stdout \o SubSeq(taken, 1, n)
        /\ taken' = SubSeq(taken, n + 1, Len(taken))
        /\ UNCHANGED <<requests, request, results, pc, line, stdin>>
  BY DEF ServerWrites, caller
<1> DEFINE front == SubSeq(taken, 1, n)
<1>2. n \in 0 .. Len(taken) /\ taken \in Seq(Bytes) /\ stdout \in Seq(Bytes)
  BY PlaceTypes, LenProperties
<1>3. front \in Seq(Bytes)
  BY <1>2, Split
<1>4. ASSUME NEW m \in 0 .. MaxRequests
      PROVE  InOnePlace(m)' /\ (Used(m)' => Used(m))
  <2> DEFINE x == FirstByte(m)
  <2>1. /\ Holds(taken, x) <=> Holds(front, x) \/ Holds(taken', x)
        /\ Single(taken, x) <=> /\ Single(front, x) /\ Single(taken', x)
                                /\ ~(Holds(front, x) /\ Holds(taken', x))
    BY <1>1, <1>2, HoldsSplit
  <2>2. /\ Holds(stdout', x) <=> Holds(stdout, x) \/ Holds(front, x)
        /\ Single(stdout', x) <=> /\ Single(stdout, x) /\ Single(front, x)
                                  /\ ~(Holds(stdout, x) /\ Holds(front, x))
    <3> HIDE DEF front, x
    <3>1. stdout' = stdout \o front
      BY <1>1 DEF front
    <3> QED
      BY <1>2, <1>3, <3>1, HoldsConcat
  <2>3. (Given(m)' <=> Given(m)) /\ InOnePlace(m)
    BY <1>1 DEF Given, OInv
  <2> HIDE DEF front
  <2> QED
    BY <1>1, <2>1, <2>2, <2>3 DEF InOnePlace, Used, OnTheWay
<1> QED
  BY <1>1, <1>4, WireOInv

\* A server that dies, by itself or because it is stopped, loses answers.
LEMMA DeathOInv ==
    ASSUME IInv, OInv, Stop \/ ServerDies
    PROVE  OInv'
<1>1. /\ taken' = <<>>
      /\ UNCHANGED <<requests, request, results, pc, line, stdout, stdin>>
  BY DEF Stop, ServerDies, caller
<1>2. ASSUME NEW n \in 0 .. MaxRequests
      PROVE  InOnePlace(n)' /\ (Used(n)' => Used(n))
  <2>1. ~Holds(taken', FirstByte(n)) /\ Single(taken', FirstByte(n))
    BY <1>1, HoldsNothing
  <2>2. (Given(n)' <=> Given(n)) /\ InOnePlace(n)
    BY <1>1 DEF Given, OInv
  <2> QED
    BY <1>1, <2>1, <2>2 DEF InOnePlace, Used, OnTheWay
<1> QED
  BY <1>1, <1>2, WireOInv

\* A new request is in no place yet.
LEMMA NewRequestOInv ==
    ASSUME IInv, IInv', OInv, NEW t \in Threads,
           requests' = requests + 1, results' = results,
           request' = [request EXCEPT ![t] = requests'],
           pc' = [pc EXCEPT ![t] = "lock"],
           \A n \in 0 .. MaxRequests : InOnePlace(n)' /\ (Used(n)' => Used(n))
    PROVE  OInv'
<1>1. /\ requests \in 1 .. MaxRequests /\ requests' \in 1 .. MaxRequests
      /\ request \in [Threads -> 0 .. MaxRequests]
      /\ pc \in [Threads -> {"idle", "lock", "write", "read"}]
      /\ MaxRequests \in Nat
  BY BoundAssumption, PlaceTypes DEF IInv, TypeOK
<1>2. \A n \in 0 .. MaxRequests : Used(n)' => n <= requests /\ n <= requests'
  BY <1>1 DEF OInv
<1>3. AnsweredOnce'
  BY DEF OInv, AnsweredOnce
<1>4. /\ request'[t] = requests'
      /\ \A n \in 0 .. MaxRequests : Used(n)' => n # requests'
  BY <1>1, <1>2
<1>5. ASSUME NEW u \in Threads, u # t, Waiting(u)'
      PROVE  /\ Waiting(u) /\ request'[u] = request[u]
             /\ request[u] \in 1 .. requests /\ request[u] \in 0 .. MaxRequests
             /\ request[u] \in 1 .. requests' /\ request[u] # requests'
             /\ \A n \in 0 .. MaxRequests : Used(n) => n # request[u]
  <2>1. Waiting(u) /\ request'[u] = request[u]
    BY <1>1, <1>5 DEF Waiting
  <2>2. /\ request[u] \in 1 .. requests
        /\ \A n \in 0 .. MaxRequests : Used(n) => n # request[u]
    BY <2>1 DEF OInv, Fresh
  <2> QED
    BY <1>1, <2>1, <2>2
<1>6. ASSUME NEW u \in Threads, Waiting(u)'
      PROVE  /\ request'[u] \in 1 .. requests'
             /\ \A n \in 0 .. MaxRequests : Used(n)' => n # request'[u]
             /\ \A v \in Threads : Waiting(v)' /\ request'[v] = request'[u] => v = u
  <2>1. CASE u = t
    <3>1. requests' \in 1 .. requests'
      BY <1>1
    <3> QED
      BY <1>4, <1>5, <2>1, <3>1
  <2>2. CASE u # t
    <3>1. /\ Waiting(u) /\ request'[u] = request[u]
          /\ request[u] \in 0 .. MaxRequests
          /\ request[u] \in 1 .. requests' /\ request[u] # requests'
          /\ \A n \in 0 .. MaxRequests : Used(n) => n # request[u]
      BY <1>5, <1>6, <2>2
    <3>2. \A n \in 0 .. MaxRequests : Used(n)' => n # request'[u]
      BY <3>1
    <3>3. ASSUME NEW v \in Threads, Waiting(v)', request'[v] = request'[u]
          PROVE  v = u
      <4>1. v # t
        BY <1>4, <3>1, <3>3
      <4>2. Waiting(v) /\ request'[v] = request[v]
        BY <1>5, <3>3, <4>1
      <4> QED
        BY <3>1, <3>3, <4>2 DEF OInv, Fresh
    <3> QED
      BY <3>1, <3>2, <3>3
  <2> QED
    BY <2>1, <2>2
<1>7. Fresh'
  BY <1>6 DEF Fresh
<1> QED
  BY <1>2, <1>3, <1>7 DEF OInv

LEMMA CallToolOInv ==
    ASSUME IInv, IInv', OInv, NEW t \in Threads, CallTool(t)
    PROVE  OInv'
<1>1. /\ requests' = requests + 1 /\ request' = [request EXCEPT ![t] = requests']
      /\ pc' = [pc EXCEPT ![t] = "lock"]
      /\ UNCHANGED <<stdin, line, stdout, taken, results>>
  BY DEF CallTool, child
<1>2. \A n \in 0 .. MaxRequests : InOnePlace(n)' /\ (Used(n)' => Used(n))
  BY <1>1, SamePlaces DEF OInv
<1> QED
  BY <1>1, <1>2, NewRequestOInv

\* A result takes its answer out of the pipe for good.
LEMMA GivenOInv ==
    ASSUME IInv, OInv, NEW t \in Threads, NEW m \in 0 .. MaxRequests,
           NEW r, results' = [results EXCEPT ![t] = Append(@, <<r, m>>)],
           ~Given(m),
           pc' = [pc EXCEPT ![t] = "idle"], UNCHANGED <<requests, request>>,
           \A n \in 0 .. MaxRequests : InOnePlace(n)' /\ (Used(n)' => Used(n))
    PROVE  OInv'
<1>1. results \in [Threads -> Seq((1 .. MaxRequests) \X (0 .. MaxRequests))]
  BY DEF IInv, TypeOK
<1>2. \A u \in Threads : u # t => results'[u] = results[u]
  BY <1>1
<1>3. /\ Len(results[t]) \in Nat /\ DOMAIN results[t] = 1 .. Len(results[t])
      /\ DOMAIN results'[t] = 1 .. Len(results[t]) + 1
      /\ \A i \in 1 .. Len(results[t]) : results'[t][i] = results[t][i]
      /\ results'[t][Len(results[t]) + 1][2] = m
  BY <1>1
<1>4. ASSUME NEW u \in Threads, NEW i \in DOMAIN results'[u]
      PROVE  \/ i \in DOMAIN results[u] /\ results'[u][i][2] = results[u][i][2]
                /\ results[u][i][2] # m
             \/ u = t /\ i = Len(results[t]) + 1 /\ results'[u][i][2] = m
  <2>1. \/ i \in DOMAIN results[u] /\ results'[u][i][2] = results[u][i][2]
        \/ u = t /\ i = Len(results[t]) + 1 /\ results'[u][i][2] = m
    BY <1>2, <1>3
  <2> QED
    BY <2>1 DEF Given
<1>5. AnsweredOnce'
  BY <1>4 DEF OInv, AnsweredOnce
<1>6. \A u \in Threads : Waiting(u)' => Waiting(u) /\ u # t
                                        /\ request[u] \in 0 .. MaxRequests
  BY PlaceTypes DEF Waiting
<1>7. Fresh'
  BY <1>6 DEF OInv, Fresh
<1>8. \A n \in 0 .. MaxRequests : Used(n)' => n <= requests'
  BY DEF OInv
<1> QED
  BY <1>5, <1>7, <1>8 DEF OInv

\* The end of a transaction: what was read of an answer is gone from the pipe.
LEMMA ReturnOInv ==
    ASSUME IInv, IInv', OInv, NEW t \in Threads, pc[t] \in {"write", "read"},
           NEW response, Return(t, response),
           UNCHANGED <<stdin, taken>>,
           \A n \in 0 .. MaxRequests :
               /\ Holds(stdout', FirstByte(n)) => Holds(stdout, FirstByte(n))
               /\ Single(stdout', FirstByte(n)),
           response.kind = "result" =>
               LET m == response.request
               IN  /\ m \in 0 .. MaxRequests
                   /\ Holds(line, FirstByte(m)) \/ Holds(stdout, FirstByte(m))
                   /\ ~Holds(stdout', FirstByte(m))
    PROVE  OInv'
<1> USE ThreadAssumption, BoundAssumption
<1>1. line' = <<>>
  BY DEF Return
<1>2. ASSUME NEW n \in 0 .. MaxRequests
      PROVE  /\ ~Holds(line', FirstByte(n)) /\ Single(line', FirstByte(n))
             /\ InOnePlace(n)
             /\ OnTheWay(n)' <=> \/ Holds(stdout', FirstByte(n))
                                 \/ Holds(taken, FirstByte(n))
  <2>1. ~Holds(line', FirstByte(n)) /\ Single(line', FirstByte(n))
    BY <1>1, HoldsNothing
  <2> QED
    BY <2>1 DEF OnTheWay, OInv
<1>3. CASE stage = "registered" /\ response.kind = "result"
  <2>1. PICK m \in 0 .. MaxRequests : m = response.request
    BY <1>3
  <2>2. /\ results' = [results EXCEPT ![t] = Append(@, <<request[t], m>>)]
        /\ pc' = [pc EXCEPT ![t] = "idle"] /\ UNCHANGED <<requests, request>>
    BY <1>3, <2>1 DEF Return
  <2>3. /\ Holds(line, FirstByte(m)) \/ Holds(stdout, FirstByte(m))
        /\ ~Holds(stdout', FirstByte(m))
    BY <1>3, <2>1
  <2>4. /\ InOnePlace(m) /\ OnTheWay(m) /\ ~Given(m) /\ ~Holds(stdin, m)
        /\ ~Holds(taken, FirstByte(m))
    BY <1>2, <2>3 DEF InOnePlace, OnTheWay
  <2>5. ASSUME NEW n \in 0 .. MaxRequests
        PROVE  Given(n)' => Given(n) \/ n = m
    <3>1. results \in [Threads -> Seq((1 .. MaxRequests) \X (0 .. MaxRequests))]
      BY DEF IInv, TypeOK
    <3>2. ASSUME NEW u \in Threads, NEW i \in DOMAIN results'[u]
          PROVE  \/ i \in DOMAIN results[u] /\ results'[u][i] = results[u][i]
                 \/ results'[u][i][2] = m
      BY <2>2, <3>1, <3>2
    <3> QED
      BY <3>2 DEF Given
  <2>6. ASSUME NEW n \in 0 .. MaxRequests
        PROVE  InOnePlace(n)' /\ (Used(n)' => Used(n))
    BY <1>2, <2>3, <2>4, <2>5 DEF InOnePlace, Used, OnTheWay
  <2> QED
    BY <2>2, <2>4, <2>6, GivenOInv
<1>4. CASE ~(stage = "registered" /\ response.kind = "result")
  <2>1. results' = results
    BY <1>4 DEF Return
  <2>2. ASSUME NEW n \in 0 .. MaxRequests
        PROVE  InOnePlace(n)' /\ (Used(n)' => Used(n))
    <3>1. Given(n)' <=> Given(n)
      BY <2>1 DEF Given
    <3> QED
      BY <1>2, <3>1 DEF InOnePlace, Used, OnTheWay
  <2>3. CASE UNCHANGED <<requests, request>> /\ pc' = [pc EXCEPT ![t] = "idle"]
    <3>1. \A u \in Threads : Waiting(u)' => Waiting(u)
                                            /\ request[u] \in 0 .. MaxRequests
      BY <2>3, PlaceTypes DEF Waiting
    <3> QED
      BY <2>1, <2>2, <2>3, <3>1, MovesOInv
  <2>4. CASE /\ requests' = requests + 1
             /\ request' = [request EXCEPT ![Main] = requests']
             /\ pc' = [pc EXCEPT ![Main] = "lock"]
    BY <2>1, <2>2, <2>4, NewRequestOInv
  <2>5. t = Main \/ stage = "registered"
    BY DEF IInv, Handshaking, TypeOK
  <2> QED
    BY <2>3, <2>4, <2>5 DEF Return, Handshake
<1> QED
  BY <1>3, <1>4

\* The request goes from its thread into the pipe.
LEMMA WriteOInv ==
    ASSUME IInv, IInv', OInv, NEW t \in Threads, Write(t)
    PROVE  OInv'
<1>1. pc[t] = "write" /\ UNCHANGED <<taken, stdout>>
  BY DEF Write, child
<1>2. CASE pid = "child" /\ server = "running"
  <2>1. /\ stdin' = Append(stdin, request[t]) /\ pc' = [pc EXCEPT ![t] = "read"]
        /\ UNCHANGED <<line, requests, request, results>>
    BY <1>2 DEF Write
  <2>2. /\ request[t] \in 1 .. requests /\ requests \in 1 .. MaxRequests
        /\ \A n \in 0 .. MaxRequests : Used(n) => n # request[t]
    BY <1>1, PlaceTypes DEF OInv, Fresh, Waiting
  <2>3. PICK q \in 0 .. MaxRequests : q = request[t] /\ q \in 1 .. MaxRequests
    BY <2>2, BoundAssumption
  <2>4. ASSUME NEW n \in 0 .. MaxRequests
        PROVE  /\ Holds(stdin', n) <=> Holds(stdin, n) \/ n = q
               /\ Single(stdin', n) <=> Single(stdin, n) /\ ~(Holds(stdin, n) /\ n = q)
    <3> DEFINE one == <<q>>
    <3>1. stdin \in Seq(1 .. MaxRequests) /\ one \in Seq(1 .. MaxRequests)
      BY <2>3, PlaceTypes
    <3>2. stdin' = stdin \o one
      BY <2>1, <2>3, <3>1, AppendIsConcat
    <3>3. (Holds(one, n) <=> n = q) /\ Single(one, n)
      BY HoldsOne
    <3> HIDE DEF one
    <3> QED
      BY <3>1, <3>2, <3>3, HoldsConcat
  <2>5. ASSUME NEW n \in 0 .. MaxRequests
        PROVE  InOnePlace(n)' /\ (Used(n)' => Used(n) \/ n = q)
    <3>1. InOnePlace(n) /\ (Given(n)' <=> Given(n)) /\ (Used(n) => n # q)
      BY <2>1, <2>2, <2>3 DEF Given, OInv
    <3> QED
      BY <1>1, <2>1, <2>4, <3>1 DEF InOnePlace, Used, OnTheWay
  <2>6. \A n \in 0 .. MaxRequests : Used(n)' => n <= requests'
    BY <2>1, <2>2, <2>3, <2>5 DEF OInv
  <2>7. \A u \in Threads : Waiting(u)' => /\ Waiting(u) /\ u # t
                                          /\ request[u] \in 0 .. MaxRequests
    BY <2>1, PlaceTypes DEF Waiting
  <2>8. \A u \in Threads : Waiting(u)' => request[u] # q
    BY <1>1, <2>3, <2>7 DEF OInv, Fresh, Waiting
  <2>9. Fresh'
    BY <2>1, <2>5, <2>7, <2>8 DEF OInv, Fresh
  <2>10. AnsweredOnce'
    BY <2>1 DEF OInv, AnsweredOnce
  <2> QED
    BY <2>5, <2>6, <2>9, <2>10 DEF OInv
<1>3. CASE ~(pid = "child" /\ server = "running")
  <2>1. Return(t, EmptyObject) /\ stdin' = stdin
    BY <1>3 DEF Write
  <2>2. EmptyObject.kind # "result"
    BY DEF EmptyObject, Json
  <2>3. \A n \in 0 .. MaxRequests :
            /\ Holds(stdout', FirstByte(n)) => Holds(stdout, FirstByte(n))
            /\ Single(stdout', FirstByte(n))
    BY <1>1 DEF OInv, InOnePlace
  <2> QED
    BY <1>1, <2>1, <2>2, <2>3, ReturnOInv
<1> QED
  BY <1>2, <1>3

\* The loop ends with a text of which nothing is left in the pipe.
LEMMA LoopEndsOInv ==
    ASSUME IInv, IInv', OInv, NEW t \in Threads, pc[t] = "read",
           NEW text, LoopEnds(t, text),
           UNCHANGED <<stdin, taken>>,
           \A n \in 0 .. MaxRequests :
               /\ Holds(stdout', FirstByte(n)) => Holds(stdout, FirstByte(n))
               /\ Single(stdout', FirstByte(n))
               /\ Holds(text, FirstByte(n)) =>
                     /\ Holds(line, FirstByte(n)) \/ Holds(stdout, FirstByte(n))
                     /\ ~Holds(stdout', FirstByte(n))
    PROVE  OInv'
<1>1. CASE Return(t, EmptyObject)
  <2>1. EmptyObject.kind # "result"
    BY DEF EmptyObject, Json
  <2> QED
    BY <1>1, <2>1, ReturnOInv
<1>2. CASE Parses(text) /\ Return(t, Parsed(text))
  <2>1. Parsed(text).kind = "result" =>
            LET m == Parsed(text).request
            IN  /\ m \in 0 .. MaxRequests
                /\ Holds(line, FirstByte(m)) \/ Holds(stdout, FirstByte(m))
                /\ ~Holds(stdout', FirstByte(m))
    BY <1>2, TextHolds
  <2> QED
    BY <1>2, <2>1, ReturnOInv
<1>3. CASE UNCHANGED <<stage, pid, mutex, pc, request, line, requests, results>>
  <2>1. ASSUME NEW n \in 0 .. MaxRequests
        PROVE  InOnePlace(n)' /\ (Used(n)' => Used(n))
    <3>1. InOnePlace(n) /\ (Given(n)' <=> Given(n))
      BY <1>3 DEF OInv, Given
    <3> QED
      BY <1>3, <3>1 DEF InOnePlace, Used, OnTheWay
  <2>2. \A u \in Threads : Waiting(u)' => Waiting(u)
                                          /\ request[u] \in 0 .. MaxRequests
    BY <1>3, PlaceTypes DEF Waiting
  <2> QED
    BY <1>3, <2>1, <2>2, MovesOInv
<1> QED
  BY <1>1, <1>2, <1>3 DEF LoopEnds

\* Nothing more is in the pipe.
LEMMA SilenceOInv ==
    ASSUME IInv, IInv', OInv, NEW t \in Threads, TimeOut(t) \/ EndOfFile(t)
    PROVE  OInv'
<1>1. /\ pc[t] = "read" /\ stdout = <<>> /\ LoopEnds(t, line)
      /\ UNCHANGED <<taken, stdin, stdout>>
  BY DEF TimeOut, EndOfFile, child
<1>2. ASSUME NEW n \in 0 .. MaxRequests
      PROVE  /\ Holds(stdout', FirstByte(n)) => Holds(stdout, FirstByte(n))
             /\ Single(stdout', FirstByte(n)) /\ ~Holds(stdout', FirstByte(n))
  BY <1>1, HoldsNothing
<1> QED
  BY <1>1, <1>2, LoopEndsOInv

\* A read moves the beginning of the pipe into the line, or the beginning of
\* that, and loses what is behind the newline.
LEMMA ReadOInv ==
    ASSUME IInv, IInv', OInv, NEW t \in Threads, Read(t)
    PROVE  OInv'
<1> USE ThreadAssumption, BoundAssumption
<1> DEFINE n == IF Len(stdout) < BufSize THEN Len(stdout) ELSE BufSize
           buf == SubSeq(stdout, 1, n)
           ends == {i \in 1 .. n : buf[i] = Newline}
           end == CHOOSE i \in ends : \A j \in ends : i <= j
           rest == SubSeq(stdout, n + 1, Len(stdout))
           kept == SubSeq(buf, 1, end - 1)
<1>1. /\ pc[t] = "read" /\ stdout # <<>> /\ stdout' = rest
      /\ UNCHANGED <<taken, stdin>>
      /\ ends = {} => /\ line' = line \o buf
                      /\ UNCHANGED <<stage, pid, mutex, pc, request, requests,
                                     results, crashed>>
      /\ ends # {} => LoopEnds(t, line \o kept)
  BY DEF Read, child
<1>2. /\ n \in 1 .. Len(stdout) /\ n \in 0 .. Len(stdout) /\ Len(stdout) \in Nat
      /\ stdout \in Seq(Bytes)
  BY <1>1, PlaceTypes, LenProperties, EmptySeq
<1>3. line \in Seq(Bytes)
  BY PlaceTypes
<1> HIDE DEF n
<1>4. /\ buf \in Seq(Bytes) /\ rest \in Seq(Bytes) /\ Len(buf) = n
  BY <1>2, Split
<1>5. ASSUME NEW m \in 0 .. MaxRequests
      PROVE  /\ InOnePlace(m)
             /\ Holds(stdout, FirstByte(m)) <=>
                   Holds(buf, FirstByte(m)) \/ Holds(rest, FirstByte(m))
             /\ Single(buf, FirstByte(m)) /\ Single(rest, FirstByte(m))
             /\ ~(Holds(buf, FirstByte(m)) /\ Holds(rest, FirstByte(m)))
  <2>1. InOnePlace(m)
    BY DEF OInv
  <2>2. Single(stdout, FirstByte(m))
    BY <2>1 DEF InOnePlace
  <2> QED
    BY <1>2, <2>1, <2>2, HoldsSplit
<1> HIDE DEF buf, rest
<1>6. CASE ends = {}
  <2>1. /\ line' = line \o buf
        /\ UNCHANGED <<stage, pid, mutex, pc, request, requests, results>>
    BY <1>1, <1>6
  <2>2. ASSUME NEW m \in 0 .. MaxRequests
        PROVE  InOnePlace(m)' /\ (Used(m)' => Used(m))
    <3>1. /\ Holds(line', FirstByte(m)) <=>
                Holds(line, FirstByte(m)) \/ Holds(buf, FirstByte(m))
          /\ Single(line', FirstByte(m)) <=>
                /\ Single(line, FirstByte(m)) /\ Single(buf, FirstByte(m))
                /\ ~(Holds(line, FirstByte(m)) /\ Holds(buf, FirstByte(m)))
      BY <1>3, <1>4, <2>1, HoldsConcat
    <3>2. Given(m)' <=> Given(m)
      BY <2>1 DEF Given
    <3> QED
      BY <1>1, <1>5, <3>1, <3>2 DEF InOnePlace, Used, OnTheWay
  <2>3. \A u \in Threads : Waiting(u)' => Waiting(u)
                                          /\ request[u] \in 0 .. MaxRequests
    BY <2>1, PlaceTypes DEF Waiting
  <2> QED
    BY <2>1, <2>2, <2>3, MovesOInv
<1>7. CASE ends # {}
  <2>1. end \in ends
    <3>1. ends \subseteq Nat
      BY <1>2
    <3>2. \E i \in ends : \A j \in ends : i <= j
      <4> HIDE DEF ends
      <4> QED
        BY <1>7, <3>1, Smallest
    <3> HIDE DEF ends
    <3> QED
      BY <3>2
  <2>2. end - 1 \in 0 .. Len(buf)
    <3>1. end \in 1 .. n
      BY <2>1
    <3> HIDE DEF end
    <3> QED
      BY <1>2, <1>4, <3>1
  <2>3. kept \in Seq(Bytes)
    <3> HIDE DEF end
    <3> QED
      BY <1>4, <2>2, Split
  <2>4. ASSUME NEW m \in 0 .. MaxRequests
        PROVE  Holds(kept, FirstByte(m)) => Holds(buf, FirstByte(m))
    <3> HIDE DEF end
    <3> QED
      BY <1>4, <2>2, HoldsSplit
  <2> HIDE DEF kept, end, ends
  <2>5. ASSUME NEW m \in 0 .. MaxRequests
        PROVE  /\ Holds(stdout', FirstByte(m)) => Holds(stdout, FirstByte(m))
               /\ Single(stdout', FirstByte(m))
               /\ Holds(line \o kept, FirstByte(m)) =>
                     /\ Holds(line, FirstByte(m)) \/ Holds(stdout, FirstByte(m))
                     /\ ~Holds(stdout', FirstByte(m))
    <3>1. Holds(line \o kept, FirstByte(m)) <=>
             Holds(line, FirstByte(m)) \/ Holds(kept, FirstByte(m))
      BY <1>3, <2>3, HoldsConcat
    <3> QED
      BY <1>1, <1>5, <2>4, <3>1 DEF InOnePlace
  <2>6. LoopEnds(t, line \o kept)
    BY <1>1, <1>7
  <2> QED
    BY <1>1, <2>5, <2>6, LoopEndsOInv
<1> QED
  BY <1>6, <1>7

LEMMA NextOInv == IInv /\ OInv /\ [Next]_vars => OInv'
<1> SUFFICES ASSUME IInv, OInv, [Next]_vars PROVE OInv'
  OBVIOUS
<1>1. IInv'
  BY NextIInv
<1>2. CASE \E t \in Threads : CallTool(t) \/ Transact(t)
  BY <1>1, <1>2, CallToolOInv, LockOInv, WriteOInv, ReadOInv, SilenceOInv
     DEF Transact
<1>3. CASE Stop \/ Server
  BY <1>3, DeathOInv, ServerTakesOInv, ServerNotesOInv, ServerWritesOInv
     DEF Server
<1>4. CASE \/ \E t \in Threads : CallToolBadly(t)
           \/ Quiet
           \/ UNCHANGED vars
  <2>1. UNCHANGED <<stdin, line, stdout, taken, results, requests, request, pc>>
    BY <1>4 DEF CallToolBadly, Quiet, vars, caller, child
  <2>2. \A n \in 0 .. MaxRequests : InOnePlace(n)' /\ (Used(n)' => Used(n))
    BY <2>1, SamePlaces DEF OInv
  <2> QED
    BY <2>1, <2>2, WireOInv
<1> QED
  BY <1>2, <1>3, <1>4 DEF Next

-----------------------------------------------------------------------------
(* The theorem.                                                             *)

\* No answer is given to two calls, however late the answers are, whatever
\* the server writes unasked or fails, and whatever is dropped with a buffer
\* (ToolMCP.cc:98-126).
THEOREM AnsweredAtMostOnce == Spec => []AnsweredOnce
<1>1. OInv => AnsweredOnce
  BY DEF OInv
<1>2. Spec => []OInv
  BY InitOInv, NextOInv, Invariance, PTL DEF Spec
<1> QED
  BY <1>1, <1>2, PTL
=============================================================================
