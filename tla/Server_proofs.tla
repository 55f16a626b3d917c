---------------------------- MODULE Server_proofs ----------------------------
(***************************************************************************)
(* The server's handlers (source/Server/Callback.cc) for any number of      *)
(* requests.  The list of a user's context, for any Keep and any failures:  *)
(* it is the end of what was saved, and in it questions stay before answers. *)
(* The threads, however many: those that wait for callbacks never use up    *)
(* the threads the callbacks need.                                          *)
(***************************************************************************)
EXTENDS ContextStore, ThreadPools, FiniteSetTheorems, SequenceTheorems, TLAPS

-----------------------------------------------------------------------------
(* The context of a user.                                                   *)

(***************************************************************************)
(* The inductive invariant.  The list is compared with the log from its     *)
(* end, since that is where both grow.  A request has nothing in the list   *)
(* before its first command, and no answer before its second.               *)
(***************************************************************************)
StoreType ==
    /\ list \in Seq(Entries) /\ log \in Seq(Entries)
    /\ pc \in [Requests -> Stages]
    /\ mode \in [Requests -> Modes] /\ prompt \in [Requests -> Prompts]
    /\ before \in [Requests -> Requests \cup {NoRequest}]
    /\ latest \in Requests \cup {NoRequest}

Recent ==
    /\ Len(list) <= Len(log)
    /\ \A i \in 1 .. Len(list) : list[i] = log[(Len(log) - Len(list)) + i]
    /\ Len(list) < Len(log) => Len(list) >= Keep

OwnEntries ==
    \A i \in 1 .. Len(list) :
        /\ pc[list[i].request] \in {"assistant", "trim", "done"}
        /\ pc[list[i].request] = "assistant" => list[i].role = "user"

InPairs ==
    \A i, j \in 1 .. Len(list) :
        list[i].request = list[j].request /\ i < j =>
            list[i].role = "user" /\ list[j].role = "assistant"

IInv == StoreType /\ Recent /\ OwnEntries /\ InPairs

-----------------------------------------------------------------------------
(* Lemmas about the operators.                                              *)

\* An entry has its type, whoever makes it (Callback.cc:394-399, 463-465).
LEMMA EntryType ==
    ASSUME NEW r \in Requests, NEW role \in {"user", "assistant"}
    PROVE  Entry(r, role) \in Entries /\ Entry(r, role).request = r
                                      /\ Entry(r, role).role = role
BY DEF Entry, Entries

\* Every entry of the list belongs to a request.
LEMMA EntryOfRequest ==
    ASSUME NEW s \in Seq(Entries), NEW i \in 1 .. Len(s)
    PROVE  s[i].request \in Requests
<1>1. s[i] \in Entries
  OBVIOUS
<1> QED
  BY <1>1 DEF Entries

\* LTRIM leaves the last Keep entries, in their order (Callback.cc:479-482).
LEMMA TailOfEnd ==
    ASSUME NEW s \in Seq(Entries)
    PROVE  /\ TailOf(s) \in Seq(Entries)
           /\ Len(TailOf(s)) = IF Len(s) <= Keep THEN Len(s) ELSE Keep
           /\ \A i \in 1 .. Len(TailOf(s)) :
                 TailOf(s)[i] = s[(Len(s) - Len(TailOf(s))) + i]
<1>1. Keep \in Nat \ {0} /\ Len(s) \in Nat
  BY StoreAssumption
<1>2. CASE Len(s) <= Keep
  BY <1>1, <1>2 DEF TailOf
<1>3. CASE Len(s) > Keep
  <2>1. TailOf(s) = SubSeq(s, Len(s) - Keep + 1, Len(s))
    BY <1>1, <1>3 DEF TailOf
  <2>2. \A i \in Len(s) - Keep + 1 .. Len(s) : s[i] \in Entries
    BY <1>1, <1>3
  <2>3. /\ TailOf(s) \in Seq(Entries)
        /\ Len(TailOf(s)) = Keep
        /\ \A i \in 1 .. Keep : TailOf(s)[i] = s[(Len(s) - Keep + 1) + i - 1]
    BY <1>1, <1>3, <2>1, <2>2, SubSeqProperties
  <2> QED
    BY <1>1, <1>3, <2>3
<1> QED
  BY <1>1, <1>2, <1>3

-----------------------------------------------------------------------------
(* The invariant.                                                           *)

LEMMA InitIInv == Init => IInv
BY EmptySeq DEF Init, IInv, StoreType, Recent, OwnEntries, InPairs, Stages

\* A request goes on without touching the list, and not past its saving.
LEMMA GoesIInv ==
    ASSUME IInv, NEW r \in Requests, NEW from, NEW to \in Stages,
           Goes(r, from, to), UNCHANGED <<list, log, mode, prompt>>,
           before' \in [Requests -> Requests \cup {NoRequest}],
           latest' \in Requests \cup {NoRequest},
           \/ from \in {"new", "load", "agent"}
           \/ from = "trim" /\ to = "done"
    PROVE  IInv'
<1>1. StoreType'
  BY DEF IInv, StoreType, Goes
<1>2. Recent' /\ InPairs'
  BY DEF IInv, Recent, InPairs
<1>3. OwnEntries'
  <2> SUFFICES ASSUME NEW i \in 1 .. Len(list)
               PROVE  /\ pc'[list[i].request] \in {"assistant", "trim", "done"}
                      /\ pc'[list[i].request] = "assistant" => list[i].role = "user"
    BY DEF OwnEntries
  <2>1. list[i].request \in Requests
    BY EntryOfRequest DEF IInv, StoreType
  <2>2. CASE list[i].request # r
    BY <2>1, <2>2 DEF IInv, OwnEntries, StoreType, Goes
  <2>3. CASE list[i].request = r
    BY <2>1, <2>3 DEF IInv, OwnEntries, StoreType, Goes
  <2> QED
    BY <2>2, <2>3
<1> QED
  BY <1>1, <1>2, <1>3 DEF IInv

\* A push of the message that is next, or one that fails.
LEMMA PushIInv ==
    ASSUME IInv, NEW r \in Requests, SaveUser(r) \/ SaveAssistant(r)
    PROVE  IInv'
<1> DEFINE role == IF pc[r] = "user" THEN "user" ELSE "assistant"
           next == IF pc[r] = "user" THEN "assistant" ELSE "trim"
           e == Entry(r, role)
<1>1. /\ pc[r] \in {"user", "assistant"} /\ pc' = [pc EXCEPT ![r] = next]
      /\ \/ list' = Append(list, e) /\ log' = Append(log, e)
         \/ UNCHANGED <<list, log>>
      /\ UNCHANGED <<mode, prompt, before, latest>>
  BY DEF SaveUser, SaveAssistant, Goes, Push, client
<1>2. e \in Entries /\ e.request = r /\ e.role = role
  BY EntryType
<1>3. /\ list \in Seq(Entries) /\ log \in Seq(Entries)
      /\ Len(list) \in Nat /\ Len(log) \in Nat
      /\ pc \in [Requests -> Stages]
  BY DEF IInv, StoreType
<1>4. next \in Stages
  BY DEF Stages
<1>5. \A i \in 1 .. Len(list) : list[i].request \in Requests
  BY <1>3, EntryOfRequest
<1>6. StoreType'
  <2>1. pc' \in [Requests -> Stages]
    BY <1>1, <1>3, <1>4
  <2>2. list' \in Seq(Entries) /\ log' \in Seq(Entries)
    <3>1. Append(list, e) \in Seq(Entries) /\ Append(log, e) \in Seq(Entries)
      BY <1>2, <1>3, AppendProperties
    <3> QED
      BY <1>1, <1>3, <3>1
  <2> QED
    BY <1>1, <2>1, <2>2 DEF IInv, StoreType
<1>7. CASE UNCHANGED <<list, log>>
  <2>1. Recent' /\ InPairs'
    BY <1>7 DEF IInv, Recent, InPairs
  <2>2. OwnEntries'
    BY <1>1, <1>3, <1>5, <1>7 DEF IInv, OwnEntries
  <2> QED
    BY <1>6, <2>1, <2>2 DEF IInv
<1>8. CASE list' = Append(list, e) /\ log' = Append(log, e)
  <2> HIDE DEF e
  <2>1. /\ Len(list') = Len(list) + 1 /\ list'[Len(list) + 1] = e
        /\ \A i \in 1 .. Len(list) : list'[i] = list[i]
    BY <1>2, <1>3, <1>8, AppendProperties
  <2>2. /\ Len(log') = Len(log) + 1 /\ log'[Len(log) + 1] = e
        /\ \A i \in 1 .. Len(log) : log'[i] = log[i]
    BY <1>2, <1>3, <1>8, AppendProperties
  <2>3. Recent'
    <3>1. Keep \in Nat
      BY StoreAssumption
    <3>2. ASSUME NEW i \in 1 .. Len(list')
          PROVE  list'[i] = log'[(Len(log') - Len(list')) + i]
      <4>1. CASE i = Len(list) + 1
        BY <4>1, <1>3, <2>1, <2>2
      <4>2. CASE i \in 1 .. Len(list)
        <5>1. (Len(log) - Len(list)) + i \in 1 .. Len(log)
          BY <4>2, <1>3 DEF IInv, Recent
        <5>2. list[i] = log[(Len(log) - Len(list)) + i]
          BY <4>2 DEF IInv, Recent
        <5>3. (Len(log') - Len(list')) + i = (Len(log) - Len(list)) + i
          BY <1>3, <2>1, <2>2
        <5>4. list'[i] = list[i]
          BY <2>1, <4>2
        <5>5. log'[(Len(log) - Len(list)) + i] = log[(Len(log) - Len(list)) + i]
          BY <2>2, <5>1
        <5> QED
          BY <5>2, <5>3, <5>4, <5>5
      <4> QED
        BY <1>3, <2>1, <4>1, <4>2
    <3> QED
      BY <1>3, <2>1, <2>2, <3>1, <3>2 DEF IInv, Recent
  <2>4. ASSUME NEW i \in 1 .. Len(list), list[i].request = r
        PROVE  pc[r] = "assistant" /\ list[i].role = "user"
    BY <1>1, <2>4 DEF IInv, OwnEntries
  <2>5. OwnEntries'
    <3> SUFFICES ASSUME NEW i \in 1 .. Len(list')
                 PROVE  /\ pc'[list'[i].request] \in {"assistant", "trim", "done"}
                        /\ pc'[list'[i].request] = "assistant"
                             => list'[i].role = "user"
      BY DEF OwnEntries
    <3>1. CASE i = Len(list) + 1
      BY <3>1, <1>1, <1>2, <1>3, <2>1
    <3>2. CASE i \in 1 .. Len(list) /\ list[i].request = r
      BY <3>2, <1>1, <1>3, <2>1, <2>4
    <3>3. CASE i \in 1 .. Len(list) /\ list[i].request # r
      BY <3>3, <1>1, <1>3, <1>5, <2>1 DEF IInv, OwnEntries
    <3> QED
      BY <1>3, <2>1, <3>1, <3>2, <3>3
  <2>6. InPairs'
    <3> SUFFICES ASSUME NEW i \in 1 .. Len(list'), NEW j \in 1 .. Len(list'),
                        list'[i].request = list'[j].request, i < j
                 PROVE  list'[i].role = "user" /\ list'[j].role = "assistant"
      BY DEF InPairs
    <3>1. i \in 1 .. Len(list)
      BY <1>3, <2>1
    <3>2. CASE j \in 1 .. Len(list)
      BY <3>1, <3>2, <2>1 DEF IInv, InPairs
    <3>3. CASE j = Len(list) + 1
      <4>1. list[i].request = r
        BY <3>1, <3>3, <1>2, <2>1
      <4>2. pc[r] = "assistant" /\ list[i].role = "user"
        BY <3>1, <4>1, <2>4
      <4> QED
        BY <3>1, <3>3, <4>2, <1>2, <2>1
    <3> QED
      BY <1>3, <2>1, <3>2, <3>3
  <2> QED
    BY <1>6, <2>3, <2>5, <2>6 DEF IInv
<1> QED
  BY <1>1, <1>7, <1>8

\* The trim takes entries from the front only, and only ones that are not
\* among the last Keep.
LEMMA TrimIInv ==
    ASSUME IInv, NEW r \in Requests, Trim(r)
    PROVE  IInv'
<1>1. /\ pc[r] = "trim" /\ pc' = [pc EXCEPT ![r] = "done"]
      /\ list' \in {list, TailOf(list)}
      /\ UNCHANGED <<mode, prompt, before, log>>
  BY DEF Trim, Goes, client
<1>2. latest' \in Requests \cup {NoRequest}
  BY DEF Trim, Responds, IInv, StoreType
<1>3. /\ list \in Seq(Entries) /\ log \in Seq(Entries)
      /\ Len(list) \in Nat /\ Len(log) \in Nat
      /\ pc \in [Requests -> Stages]
  BY DEF IInv, StoreType
<1>4. CASE list' = list
  <2>1. Goes(r, "trim", "done") /\ "done" \in Stages
    BY DEF Trim, Stages
  <2>2. before' \in [Requests -> Requests \cup {NoRequest}]
    BY <1>1 DEF IInv, StoreType
  <2> QED
    BY <1>1, <1>2, <1>4, <2>1, <2>2, GoesIInv
<1>5. CASE list' = TailOf(list)
  <2> DEFINE d == Len(list) - Len(list')
  <2>1. /\ list' \in Seq(Entries)
        /\ Len(list') = IF Len(list) <= Keep THEN Len(list) ELSE Keep
        /\ \A i \in 1 .. Len(list') : list'[i] = list[d + i]
    BY <1>3, <1>5, TailOfEnd
  <2>2. /\ d \in Nat /\ Len(list') \in Nat /\ Len(list) = Len(list') + d
        /\ \A i \in 1 .. Len(list') : d + i \in 1 .. Len(list)
    BY <1>3, <2>1, StoreAssumption
  <2>3. StoreType'
    BY <1>1, <1>2, <1>3, <2>1 DEF IInv, StoreType, Stages
  <2>4. Recent'
    <3>1. \A i \in 1 .. Len(list') :
             list'[i] = log[(Len(log) - Len(list)) + (d + i)]
      BY <2>1, <2>2 DEF IInv, Recent
    <3>2. \A i \in 1 .. Len(list') :
             (Len(log) - Len(list)) + (d + i) = (Len(log) - Len(list')) + i
      BY <1>3, <2>2
    <3>3. Len(list') < Len(list) => Len(list') >= Keep
      BY <1>3, <2>1, StoreAssumption
    <3> HIDE DEF d
    <3>4. Len(list') <= Len(log) /\ (Len(list') < Len(log) => Len(list') >= Keep)
      BY <1>3, <2>2, <3>3 DEF IInv, Recent
    <3> QED
      BY <1>1, <3>1, <3>2, <3>4 DEF Recent
  <2>5. OwnEntries'
    <3> SUFFICES ASSUME NEW i \in 1 .. Len(list')
                 PROVE  /\ pc'[list'[i].request] \in {"assistant", "trim", "done"}
                        /\ pc'[list'[i].request] = "assistant"
                             => list'[i].role = "user"
      BY DEF OwnEntries
    <3>1. d + i \in 1 .. Len(list) /\ list'[i] = list[d + i]
      BY <2>1, <2>2
    <3> HIDE DEF d
    <3>2. list[d + i].request \in Requests
      BY <1>3, <3>1, EntryOfRequest
    <3> QED
      BY <1>1, <1>3, <3>1, <3>2 DEF IInv, OwnEntries
  <2>6. InPairs'
    <3> SUFFICES ASSUME NEW i \in 1 .. Len(list'), NEW j \in 1 .. Len(list'),
                        list'[i].request = list'[j].request, i < j
                 PROVE  list'[i].role = "user" /\ list'[j].role = "assistant"
      BY DEF InPairs
    <3>1. /\ d + i \in 1 .. Len(list) /\ list'[i] = list[d + i]
          /\ d + j \in 1 .. Len(list) /\ list'[j] = list[d + j]
          /\ d + i < d + j
      BY <2>1, <2>2
    <3> HIDE DEF d
    <3> QED
      BY <3>1 DEF IInv, InPairs
  <2> QED
    BY <2>3, <2>4, <2>5, <2>6 DEF IInv
<1> QED
  BY <1>1, <1>4, <1>5

LEMMA ClearIInv == IInv /\ ClearContext => IInv'
<1> SUFFICES ASSUME IInv, ClearContext PROVE IInv'
  OBVIOUS
<1>1. list' = <<>> /\ log' = <<>> /\ Len(list') = 0 /\ Len(log') = 0
  BY EmptySeq DEF ClearContext
<1>2. StoreType'
  BY <1>1, EmptySeq DEF ClearContext, client, IInv, StoreType
<1>3. Recent' /\ OwnEntries' /\ InPairs'
  BY <1>1 DEF Recent, OwnEntries, InPairs
<1> QED
  BY <1>2, <1>3 DEF IInv

LEMMA NextIInv == IInv /\ [Next]_vars => IInv'
<1> SUFFICES ASSUME IInv, [Next]_vars PROVE IInv'
  OBVIOUS
<1>0. /\ before \in [Requests -> Requests \cup {NoRequest}]
      /\ latest \in Requests \cup {NoRequest}
  BY DEF IInv, StoreType
<1>1. ASSUME NEW r \in Requests, Send(r) PROVE IInv'
  BY <1>0, <1>1, GoesIInv DEF Send, Stages
<1>2. ASSUME NEW r \in Requests, Load(r) PROVE IInv'
  BY <1>0, <1>2, GoesIInv DEF Load, client, Stages
<1>3. ASSUME NEW r \in Requests, Completes(r) PROVE IInv'
  <2>1. latest' \in Requests \cup {NoRequest}
    BY <1>0, <1>3 DEF Completes, Responds
  <2> QED
    BY <1>0, <1>3, <2>1, GoesIInv DEF Completes, client, Stages
<1>4. ASSUME NEW r \in Requests, Fails(r) PROVE IInv'
  <2>1. latest' \in Requests \cup {NoRequest}
    BY <1>0, <1>4 DEF Fails, Responds
  <2> QED
    BY <1>0, <1>4, <2>1, GoesIInv DEF Fails, client, Stages
<1>5. CASE UNCHANGED vars
  BY <1>5 DEF vars, client, IInv, StoreType, Recent, OwnEntries, InPairs
<1> QED
  BY <1>1, <1>2, <1>3, <1>4, <1>5, PushIInv, TrimIInv, ClearIInv
     DEF Next, Handle, AllDone

THEOREM Invariance == Spec => []IInv
<1> QED
  BY InitIInv, NextIInv, PTL DEF Spec

-----------------------------------------------------------------------------
(* The theorems.                                                            *)

\* The list is the end of what was saved since the last DEL, and at least Keep
\* entries of it: concurrent trims never take an entry that is among the last
\* Keep (Callback.cc:469-487).
THEOREM ListStaysRecent == Spec => []ListIsRecent
<1>1. IInv => ListIsRecent
  <2> SUFFICES ASSUME IInv PROVE ListIsRecent
    OBVIOUS
  <2> DEFINE n == Len(log) - Len(list)
             s == SubSeq(log, n + 1, Len(log))
  <2>1. /\ list \in Seq(Entries) /\ log \in Seq(Entries)
        /\ Len(list) \in Nat /\ Len(log) \in Nat /\ Len(list) <= Len(log)
    BY DEF IInv, StoreType, Recent
  <2>2. n \in 0 .. Len(log) /\ Len(log) = n + Len(list)
    BY <2>1
  <2>3. \A i \in n + 1 .. Len(log) : log[i] \in Entries
    BY <2>1, <2>2
  <2>4. /\ s \in Seq(Entries)
        /\ Len(s) = Len(list)
        /\ \A i \in 1 .. Len(list) : s[i] = log[n + i]
    <3> HIDE DEF n
    <3>1. /\ s \in Seq(Entries)
          /\ Len(s) = IF n + 1 <= Len(log) THEN Len(log) - (n + 1) + 1 ELSE 0
          /\ \A i \in 1 .. Len(log) - (n + 1) + 1 : s[i] = log[(n + 1) + i - 1]
      BY <2>1, <2>2, <2>3, SubSeqProperties
    <3> QED
      BY <2>1, <2>2, <3>1
  <2>5. \A i \in 1 .. Len(list) : list[i] = s[i]
    BY <2>4 DEF IInv, Recent
  <2>6. list = s
    <3> HIDE DEF s, n
    <3> QED
      BY <2>1, <2>4, <2>5, SeqEqual
  <2>7. n > 0 => Len(list) >= Keep
    BY <2>1, <2>2 DEF IInv, Recent
  <2> QED
    BY <2>2, <2>6, <2>7 DEF ListIsRecent
<1> QED
  BY <1>1, Invariance, PTL

\* A question is never behind its answer, and no message is in the list twice
\* (Callback.cc:469-487).
THEOREM PairsStayInOrder == Spec => []PairsInOrder
<1>1. IInv => PairsInOrder
  BY DEF IInv, StoreType, InPairs, PairsInOrder
<1> QED
  BY <1>1, Invariance, PTL

-----------------------------------------------------------------------------
(* A client that waits for plain responses.                                 *)

\* Nothing has gone wrong for a client of this kind.
Undisturbed ==
    patient /\ failures = 0 /\ \A r \in Requests : mode[r] = "plain"

\* The list ends with the exchange of a request.
EndsWithPair(r) ==
    /\ Len(list) >= 2
    /\ list[Len(list) - 1].request = r
    /\ list[Len(list)].request = r

Quiet == \A r \in Requests : pc[r] \notin {"assistant", "trim"}

(***************************************************************************)
(* The second invariant: one response is waited for at a time, and the list *)
(* ends with the exchange answered last, or with as much of the pending one *)
(* as has been saved.                                                       *)
(***************************************************************************)
OneAtATime ==
    /\ \A r, s \in Pending : r = s
    /\ \A r \in Requests : r \in answered <=> pc[r] = "done"
    /\ \A r \in Pending : before[r] = latest

LastSaved ==
    /\ Quiet /\ latest # NoRequest => EndsWithPair(latest)
    /\ \A r \in Requests :
          /\ pc[r] = "assistant" => Len(list) >= 1 /\ list[Len(list)].request = r
          /\ pc[r] = "trim" => EndsWithPair(r)

MInv == failures \in Nat /\ (Undisturbed => OneAtATime /\ LastSaved)

LEMMA InitMInv == Init => MInv
BY DEF Init, MInv, OneAtATime, LastSaved, Pending

\* A step after which nothing has gone wrong was taken before anything had.
LEMMA StillUndisturbed ==
    ASSUME MInv, [Next]_vars, Undisturbed'
    PROVE  Undisturbed /\ UNCHANGED <<failures, patient, mode>>
<1>1. UNCHANGED <<patient, mode>> /\ failures' \in {failures, failures + 1}
  BY DEF Next, Handle, ClearContext, AllDone, Send, Load, Completes, Fails,
         SaveUser, SaveAssistant, Trim, Push, CommandFails, vars, client
<1>2. failures' = failures
  BY <1>1 DEF MInv, Undisturbed
<1> QED
  BY <1>1, <1>2 DEF Undisturbed

\* The steps that leave the list alone; a request that has failed leaves the
\* exchange that was answered last as it is.
LEMMA GoesMInv ==
    ASSUME IInv, OneAtATime, LastSaved, Undisturbed, Undisturbed',
           NEW r \in Requests,
           Send(r) \/ Load(r) \/ Completes(r) \/ Fails(r)
    PROVE  OneAtATime' /\ LastSaved'
<1>1. /\ pc \in [Requests -> Stages] /\ list' = list
      /\ before \in [Requests -> Requests \cup {NoRequest}]
  BY DEF Send, Load, Completes, Fails, IInv, StoreType
<1>2. \A s \in Requests : mode[s] = "plain"
  BY DEF Undisturbed
<1>3. CASE Send(r)
  <2>1. /\ pc[r] = "new" /\ pc' = [pc EXCEPT ![r] = "load"]
        /\ before' = [before EXCEPT ![r] = latest]
        /\ Pending = {} /\ UNCHANGED <<answered, latest>>
    BY <1>3 DEF Send, Goes, Undisturbed
  <2>2. r \notin answered
    BY <2>1 DEF OneAtATime
  <2>3. Pending' = {r}
    BY <1>1, <2>1, <2>2 DEF Pending
  <2>4. OneAtATime'
    BY <1>1, <2>1, <2>2, <2>3 DEF OneAtATime
  <2>5. LastSaved'
    BY <1>1, <2>1 DEF LastSaved, Quiet, EndsWithPair
  <2> QED
    BY <2>4, <2>5
<1>4. CASE Load(r)
  <2>1. /\ pc[r] = "load" /\ pc' = [pc EXCEPT ![r] = "agent"]
        /\ UNCHANGED <<answered, latest, before>>
    BY <1>4 DEF Load, Goes, client
  <2>2. Pending' = Pending
    BY <1>1, <2>1 DEF Pending
  <2>3. OneAtATime' /\ LastSaved'
    BY <1>1, <2>1, <2>2 DEF OneAtATime, LastSaved, Quiet, EndsWithPair
  <2> QED
    BY <2>3
<1>5. CASE Completes(r)
  <2>1. /\ pc[r] = "agent" /\ pc' = [pc EXCEPT ![r] = "user"]
        /\ UNCHANGED <<answered, latest, before>>
    BY <1>2, <1>5 DEF Completes, Goes, client
  <2>2. Pending' = Pending
    BY <1>1, <2>1 DEF Pending
  <2>3. OneAtATime' /\ LastSaved'
    BY <1>1, <2>1, <2>2 DEF OneAtATime, LastSaved, Quiet, EndsWithPair
  <2> QED
    BY <2>3
<1>6. CASE Fails(r)
  <2>1. /\ pc[r] = "agent" /\ pc' = [pc EXCEPT ![r] = "done"]
        /\ answered' = answered \cup {r}
        /\ UNCHANGED <<latest, before>>
    BY <1>6 DEF Fails, Goes, client, Responds
  <2>2. Pending' \subseteq Pending
    BY <1>1, <2>1 DEF Pending
  <2>3. OneAtATime' /\ LastSaved'
    BY <1>1, <2>1, <2>2 DEF OneAtATime, LastSaved, Quiet, EndsWithPair
  <2> QED
    BY <2>3
<1> QED
  BY <1>3, <1>4, <1>5, <1>6

\* The steps that save, of the one request that is pending.
LEMMA SavesMInv ==
    ASSUME IInv, OneAtATime, LastSaved, Undisturbed, Undisturbed',
           UNCHANGED failures, failures \in Nat, Keep >= 2,
           NEW r \in Requests,
           SaveUser(r) \/ SaveAssistant(r) \/ Trim(r)
    PROVE  OneAtATime' /\ LastSaved'
<1>1. /\ pc \in [Requests -> Stages] /\ list \in Seq(Entries)
      /\ Len(list) \in Nat /\ Keep \in Nat
      /\ r \in Pending
      /\ \A s \in Requests : s # r => pc[s] \notin {"assistant", "trim"}
  <2>1. pc[r] \in {"user", "assistant", "trim"}
    BY DEF SaveUser, SaveAssistant, Trim, Goes
  <2>2. r \in Pending
    BY <2>1 DEF Pending, OneAtATime
  <2>3. ASSUME NEW s \in Requests, s # r PROVE pc[s] \notin {"assistant", "trim"}
    BY <2>2, <2>3 DEF Pending, OneAtATime
  <2> QED
    BY <2>2, <2>3, StoreAssumption DEF IInv, StoreType
<1>2. CASE SaveUser(r)
  <2> DEFINE e == Entry(r, "user")
  <2>1. /\ pc[r] = "user" /\ pc' = [pc EXCEPT ![r] = "assistant"]
        /\ list' = Append(list, e)
        /\ UNCHANGED <<answered, latest, before>>
    BY <1>2 DEF SaveUser, Goes, client, Push, CommandFails
  <2>2. e \in Entries /\ e.request = r
    BY EntryType
  <2> HIDE DEF e
  <2>3. Len(list') = Len(list) + 1 /\ list'[Len(list) + 1].request = r
    BY <1>1, <2>1, <2>2, AppendProperties
  <2>4. Pending' = Pending
    BY <1>1, <2>1 DEF Pending
  <2>5. OneAtATime'
    BY <1>1, <2>1, <2>4 DEF OneAtATime
  <2>6. LastSaved'
    BY <1>1, <2>1, <2>3 DEF LastSaved, Quiet
  <2> QED
    BY <2>5, <2>6
<1>3. CASE SaveAssistant(r)
  <2> DEFINE e == Entry(r, "assistant")
  <2>1. /\ pc[r] = "assistant" /\ pc' = [pc EXCEPT ![r] = "trim"]
        /\ list' = Append(list, e)
        /\ UNCHANGED <<answered, latest, before>>
    BY <1>3 DEF SaveAssistant, Goes, client, Push, CommandFails
  <2>2. e \in Entries /\ e.request = r
    BY EntryType
  <2> HIDE DEF e
  <2>3. Len(list) >= 1 /\ list[Len(list)].request = r
    BY <2>1 DEF LastSaved
  <2>4. /\ Len(list') = Len(list) + 1 /\ list'[Len(list) + 1].request = r
        /\ list'[Len(list)] = list[Len(list)]
    BY <1>1, <2>1, <2>2, <2>3, AppendProperties
  <2>5. Pending' = Pending
    BY <1>1, <2>1 DEF Pending
  <2>6. OneAtATime'
    BY <1>1, <2>1, <2>5 DEF OneAtATime
  <2>7. EndsWithPair(r)'
    BY <1>1, <2>3, <2>4 DEF EndsWithPair
  <2>8. LastSaved'
    BY <1>1, <2>1, <2>7 DEF LastSaved, Quiet
  <2> QED
    BY <2>6, <2>8
<1>4. CASE Trim(r)
  <2>1. /\ pc[r] = "trim" /\ pc' = [pc EXCEPT ![r] = "done"]
        /\ list' = TailOf(list)
        /\ answered' = answered \cup {r} /\ latest' = r /\ before' = before
    BY <1>4 DEF Trim, Goes, client, CommandFails, Responds, Undisturbed
  <2>2. /\ Len(list') = IF Len(list) <= Keep THEN Len(list) ELSE Keep
        /\ \A i \in 1 .. Len(list') :
              list'[i] = list[(Len(list) - Len(list')) + i]
    BY <1>1, <2>1, TailOfEnd
  <2>3. EndsWithPair(r)
    BY <2>1 DEF LastSaved
  <2>4. /\ Len(list') \in Nat /\ Len(list') >= 2
        /\ (Len(list) - Len(list')) + (Len(list') - 1) = Len(list) - 1
        /\ (Len(list) - Len(list')) + Len(list') = Len(list)
    BY <1>1, <2>2, <2>3 DEF EndsWithPair
  <2>5. EndsWithPair(r)'
    <3>1. Len(list') - 1 \in 1 .. Len(list') /\ Len(list') \in 1 .. Len(list')
      BY <2>4
    <3>2. /\ list'[Len(list') - 1] = list[Len(list) - 1]
          /\ list'[Len(list')] = list[Len(list)]
      BY <2>2, <2>4, <3>1
    <3> QED
      BY <2>3, <2>4, <3>2 DEF EndsWithPair
  <2>6. Pending' = {}
    BY <1>1, <2>1 DEF Pending, OneAtATime
  <2>7. OneAtATime'
    BY <1>1, <2>1, <2>6 DEF OneAtATime
  <2>8. LastSaved'
    BY <1>1, <2>1, <2>5 DEF LastSaved, Quiet
  <2> QED
    BY <2>7, <2>8
<1> QED
  BY <1>2, <1>3, <1>4

LEMMA NextMInv == Keep >= 2 /\ IInv /\ MInv /\ [Next]_vars => MInv'
<1> SUFFICES ASSUME Keep >= 2, IInv, MInv, [Next]_vars PROVE MInv'
  OBVIOUS
<1>1. failures' \in Nat
  <2>1. failures' \in {failures, failures + 1}
    BY DEF Next, Handle, ClearContext, AllDone, Send, Load, Completes, Fails,
           SaveUser, SaveAssistant, Trim, Push, CommandFails, vars
  <2> QED
    BY <2>1 DEF MInv
<1>2. SUFFICES ASSUME Undisturbed' PROVE OneAtATime' /\ LastSaved'
  BY <1>1 DEF MInv
<1>3. Undisturbed /\ UNCHANGED <<failures, patient, mode>>
  BY <1>2, StillUndisturbed
<1>4. OneAtATime /\ LastSaved /\ failures \in Nat
  BY <1>3 DEF MInv
<1>5. CASE ClearContext
  <2>1. latest' = NoRequest /\ Pending = {} /\ UNCHANGED <<pc, answered, before>>
    BY <1>3, <1>5 DEF ClearContext, client, Undisturbed
  <2>2. Pending' = {}
    BY <2>1 DEF Pending
  <2>3. OneAtATime'
    BY <1>4, <2>1, <2>2 DEF OneAtATime
  <2>4. \A r \in Requests : pc[r] \notin {"assistant", "trim"}
    BY <1>4, <2>1 DEF OneAtATime, Pending
  <2> QED
    BY <2>1, <2>3, <2>4 DEF LastSaved
<1>6. CASE UNCHANGED vars
  BY <1>4, <1>6 DEF vars, client, OneAtATime, LastSaved, Quiet, EndsWithPair,
                    Pending
<1> QED
  BY <1>2, <1>3, <1>4, <1>5, <1>6, GoesMInv, SavesMInv DEF Next, Handle, AllDone

\* What a patient client's plain request finds in the list when it loads it
\* ends with the exchange that was answered before it was sent, for every
\* number of requests, also with a trim in between: the response is sent behind
\* the saving commands (Callback.cc:549-552).
THEOREM ExchangeStored ==
    ASSUME Keep >= 2
    PROVE  Spec => [](Undisturbed =>
                        \A r \in Requests :
                            pc[r] = "load" /\ before[r] # NoRequest =>
                                EndsWithPair(before[r]))
<1>1. MInv => (Undisturbed => \A r \in Requests :
                  pc[r] = "load" /\ before[r] # NoRequest =>
                      EndsWithPair(before[r]))
  <2> SUFFICES ASSUME MInv, Undisturbed, NEW r \in Requests, pc[r] = "load",
                      before[r] # NoRequest
               PROVE  EndsWithPair(before[r])
    OBVIOUS
  <2>1. OneAtATime /\ LastSaved
    BY DEF MInv
  <2>2. r \in Pending
    BY <2>1 DEF OneAtATime, Pending
  <2>3. before[r] = latest
    BY <2>1, <2>2 DEF OneAtATime
  <2>4. \A s \in Requests : pc[s] \notin {"assistant", "trim"}
    BY <2>1, <2>2 DEF OneAtATime, Pending
  <2> QED
    BY <2>1, <2>3, <2>4 DEF LastSaved, Quiet
<1>2. IInv /\ MInv /\ [Next]_vars => MInv'
  BY NextMInv
<1> QED
  BY <1>1, <1>2, InitMInv, Invariance, PTL DEF Spec

-----------------------------------------------------------------------------
(* What a request loads.                                                    *)

\* A list of entries that are JSON is read as it is (Callback.cc:372-392).
LEMMA DecodedWhole ==
    ASSUME NEW s \in Seq(Entries), \A i \in 1 .. Len(s) : s[i].valid
    PROVE  Decoded(s) = s
<1> DEFINE n == Len(s)
           valid == {i \in DOMAIN s : s[i].valid}
           place(i) == Cardinality({j \in valid : j <= i})
<1>1. n \in Nat /\ DOMAIN s = 1 .. n /\ s = [i \in 1 .. n |-> s[i]]
  BY LenProperties
<1>2. valid = 1 .. n
  BY <1>1
<1>3. Cardinality(valid) = n
  <2>1. 1 \in Int /\ n \in Int /\ (IF 1 > n THEN 0 ELSE n - 1 + 1) = n
    BY <1>1
  <2>2. Cardinality(1 .. n) = IF 1 > n THEN 0 ELSE n - 1 + 1
    BY <2>1, FS_Interval
  <2> QED
    BY <1>2, <2>1, <2>2
<1>4. \A i \in 1 .. n : place(i) = i
  <2> SUFFICES ASSUME NEW i \in 1 .. n PROVE place(i) = i
    OBVIOUS
  <2>1. {j \in valid : j <= i} = 1 .. i
    <3> HIDE DEF n
    <3> QED
      BY <1>1, <1>2
  <2>2. 1 \in Int /\ i \in Int /\ (IF 1 > i THEN 0 ELSE i - 1 + 1) = i
    BY <1>1
  <2>3. Cardinality(1 .. i) = IF 1 > i THEN 0 ELSE i - 1 + 1
    BY <2>2, FS_Interval
  <2> QED
    BY <2>1, <2>2, <2>3
<1>5. Decoded(s) = [k \in 1 .. Cardinality(valid) |->
                        s[CHOOSE i \in valid : place(i) = k]]
  BY DEF Decoded
<1> HIDE DEF place, valid, n
<1>6. \A k \in 1 .. n : (CHOOSE i \in valid : place(i) = k) = k
  <2> SUFFICES ASSUME NEW k \in 1 .. n
               PROVE  (CHOOSE i \in valid : place(i) = k) = k
    OBVIOUS
  <2> DEFINE c == CHOOSE i \in valid : place(i) = k
  <2>1. k \in valid /\ place(k) = k
    BY <1>2, <1>4
  <2>2. c \in valid /\ place(c) = k
    BY <2>1
  <2>3. place(c) = c
    BY <1>2, <1>4, <2>2
  <2> QED
    BY <2>2, <2>3
<1> QED
  BY <1>1, <1>3, <1>5, <1>6

\* Only a message with characters JSON escapes is not JSON in the list.
ListValid ==
    \A i \in 1 .. Len(list) :
        (\A r \in Requests : prompt[r] = "plain") => list[i].valid

(***************************************************************************)
(* The third invariant: what was loaded ends with the exchange that the list *)
(* ended with then, as the request has it to its end.                       *)
(***************************************************************************)
Plain == Undisturbed /\ \A r \in Requests : prompt[r] = "plain"

HistoryThere == history = [r \in Requests |-> history[r]]

LoadedInv == Plain => \A r \in Requests : Remembers(r)

HInv == HistoryThere /\ ListValid /\ LoadedInv

LEMMA InitHInv == Init => HInv
<1> SUFFICES ASSUME Init PROVE HInv
  OBVIOUS
<1>1. Len(list) = 0
  BY EmptySeq DEF Init
<1> QED
  BY <1>1 DEF Init, HInv, HistoryThere, ListValid, LoadedInv, Remembers

\* The list changes by entries that are JSON if the prompts are.
LEMMA NextListValid == IInv /\ ListValid /\ [Next]_vars => ListValid'
<1> SUFFICES ASSUME IInv, ListValid, [Next]_vars PROVE ListValid'
  OBVIOUS
<1>1. list \in Seq(Entries) /\ Len(list) \in Nat /\ prompt' = prompt
  <2>1. list \in Seq(Entries)
    BY DEF IInv, StoreType
  <2>2. Len(list) \in Nat
    BY <2>1, LenProperties
  <2>3. prompt' = prompt
    BY DEF Next, Handle, ClearContext, AllDone, Send, Load, Completes, Fails, SaveUser,
           SaveAssistant, Trim, vars, client
  <2> QED
    BY <2>1, <2>2, <2>3
<1>2. CASE list' = list
  BY <1>1, <1>2 DEF ListValid
<1>3. ASSUME NEW r \in Requests, NEW role \in {"user", "assistant"},
             list' = Append(list, Entry(r, role))
      PROVE  ListValid'
  <2> DEFINE e == Entry(r, role)
  <2>1. e \in Entries
    BY EntryType
  <2>2. (\A q \in Requests : prompt[q] = "plain") => e.valid
    BY DEF Entry
  <2> HIDE DEF e
  <2>3. \A i \in 1 .. Len(list') : \/ list'[i] = e
                                   \/ i \in 1 .. Len(list) /\ list'[i] = list[i]
    BY <1>1, <1>3, <2>1, AppendProperties DEF e
  <2> QED
    BY <1>1, <2>2, <2>3 DEF ListValid
<1>4. CASE list' = TailOf(list)
  <2>1. /\ Len(list') = IF Len(list) <= Keep THEN Len(list) ELSE Keep
        /\ \A i \in 1 .. Len(list') : list'[i] = list[(Len(list) - Len(list')) + i]
    BY <1>1, <1>4, TailOfEnd
  <2>2. \A i \in 1 .. Len(list') : (Len(list) - Len(list')) + i \in 1 .. Len(list)
    BY <1>1, <2>1, StoreAssumption
  <2> QED
    BY <1>1, <2>1, <2>2 DEF ListValid
<1>5. CASE list' = <<>>
  <2>1. Len(list') = 0
    BY <1>5, EmptySeq
  <2> QED
    BY <2>1 DEF ListValid
<1>6. \/ list' = list \/ list' = TailOf(list) \/ list' = <<>>
      \/ \E r \in Requests, role \in {"user", "assistant"} :
            list' = Append(list, Entry(r, role))
  BY DEF Next, Handle, ClearContext, AllDone, Send, Load, Completes, Fails, SaveUser,
         SaveAssistant, Trim, Push, vars
<1> QED
  BY <1>2, <1>3, <1>4, <1>5, <1>6

LEMMA NextHInv == IInv /\ MInv /\ HInv /\ [Next]_vars => HInv'
<1> SUFFICES ASSUME IInv, MInv, HInv, [Next]_vars PROVE HInv'
  OBVIOUS
<1>1. /\ pc \in [Requests -> Stages] /\ list \in Seq(Entries) /\ Len(list) \in Nat
      /\ before \in [Requests -> Requests \cup {NoRequest}]
      /\ history = [q \in Requests |-> history[q]]
  BY DEF IInv, StoreType, HInv, HistoryThere
<1>2. ListValid'
  BY NextListValid DEF HInv
<1>3. HistoryThere' /\ LoadedInv'
  <2>1. ASSUME UNCHANGED <<history, before>>,
               \A r \in Requests : pc'[r] \in {"new", "load"} \/ pc[r] \notin {"new", "load"},
               Plain' => Plain
        PROVE  HistoryThere' /\ LoadedInv'
    BY <2>1 DEF HInv, HistoryThere, LoadedInv, Remembers, EndsWith
  <2>2. Plain' => Plain /\ OneAtATime /\ LastSaved /\ failures' = failures
    <3> SUFFICES ASSUME Plain'
                 PROVE  Plain /\ OneAtATime /\ LastSaved /\ failures' = failures
      OBVIOUS
    <3>1. Undisturbed /\ UNCHANGED <<failures, patient, mode>>
      BY StillUndisturbed DEF Plain
    <3>2. prompt' = prompt
      BY DEF Next, Handle, ClearContext, AllDone, Send, Load, Completes,
             Fails, SaveUser, SaveAssistant, Trim, vars, client
    <3> QED
      BY <3>1, <3>2 DEF Plain, MInv
  <2>3. CASE \/ ClearContext \/ UNCHANGED vars
    BY <2>1, <2>2, <2>3 DEF ClearContext, client, vars
  <2>4. ASSUME NEW r \in Requests,
               Completes(r) \/ Fails(r) \/ SaveUser(r) \/ SaveAssistant(r) \/ Trim(r)
        PROVE  HistoryThere' /\ LoadedInv'
    <3>1. UNCHANGED <<history, before>>
      BY <2>4 DEF Completes, Fails, SaveUser, SaveAssistant, Trim, client
    <3>2. /\ pc[r] \in {"agent", "user", "assistant", "trim"}
          /\ \A q \in Requests : q # r => pc'[q] = pc[q]
      BY <1>1, <2>4 DEF Completes, Fails, SaveUser, SaveAssistant, Trim, Goes
    <3> QED
      BY <2>1, <2>2, <3>1, <3>2
  <2>5. ASSUME NEW r \in Requests, Send(r)
        PROVE  HistoryThere' /\ LoadedInv'
    <3>1. /\ history' = history /\ pc'[r] = "load"
          /\ \A q \in Requests : q # r => pc'[q] = pc[q] /\ before'[q] = before[q]
      BY <1>1, <2>5 DEF Send, Goes
    <3> QED
      BY <1>1, <2>2, <3>1 DEF HInv, HistoryThere, LoadedInv, Remembers, EndsWith
  <2>6. ASSUME NEW r \in Requests, Load(r)
        PROVE  HistoryThere' /\ LoadedInv'
    <3>1. /\ pc[r] = "load" /\ UNCHANGED <<before, list>>
          /\ \A q \in Requests : q # r => pc'[q] = pc[q]
          /\ \/ history' = [history EXCEPT ![r] = Decoded(list)] /\ UNCHANGED failures
             \/ history' = history /\ failures' = failures + 1
      BY <1>1, <2>6 DEF Load, Goes, client, CommandFails
    <3> DEFINE loaded == Decoded(list)
    <3> HIDE DEF loaded
    <3>2. HistoryThere' /\ \A q \in Requests : q # r => history'[q] = history[q]
      <4>1. \/ history' = [history EXCEPT ![r] = loaded]
            \/ history' = history
        BY <3>1 DEF loaded
      <4> QED
        BY <1>1, <4>1 DEF HistoryThere
    <3>3. ASSUME Plain' PROVE Remembers(r)'
      <4>1. Plain /\ OneAtATime /\ LastSaved /\ failures' = failures /\ failures \in Nat
        BY <2>2, <3>3 DEF MInv
      <4>2. history' = [history EXCEPT ![r] = loaded]
        BY <3>1, <4>1 DEF loaded
      <4>3. \A i \in 1 .. Len(list) : list[i].valid
        BY <4>1 DEF Plain, HInv, ListValid
      <4>4. history'[r] = list
        BY <1>1, <4>2, <4>3, DecodedWhole DEF loaded
      <4>5. ASSUME before[r] # NoRequest PROVE EndsWithPair(before[r])
        <5>1. r \in Pending
          BY <3>1, <4>1 DEF OneAtATime, Pending
        <5>2. before[r] = latest
          BY <4>1, <5>1 DEF OneAtATime
        <5>3. \A s \in Requests : pc[s] \notin {"assistant", "trim"}
          BY <3>1, <4>1, <5>1 DEF OneAtATime, Pending
        <5> QED
          BY <4>1, <4>5, <5>2, <5>3 DEF LastSaved, Quiet
      <4> QED
        BY <3>1, <4>4, <4>5 DEF Remembers, EndsWith, EndsWithPair
    <3>4. LoadedInv'
      <4> SUFFICES ASSUME Plain', NEW q \in Requests PROVE Remembers(q)'
        BY DEF LoadedInv
      <4>1. CASE q = r
        BY <3>3, <4>1
      <4>2. CASE q # r
        <5>1. Remembers(q)
          BY <2>2 DEF HInv, LoadedInv
        <5> QED
          BY <3>1, <3>2, <4>2, <5>1 DEF Remembers, EndsWith
      <4> QED
        BY <4>1, <4>2
    <3> QED
      BY <3>2, <3>4
  <2> QED
    BY <2>3, <2>4, <2>5, <2>6 DEF Next, Handle, AllDone
<1> QED
  BY <1>2, <1>3 DEF HInv

\* A request sent after a plain response has that exchange at the end of its
\* history, for every number of requests, if at least two entries are kept and
\* no message has characters JSON escapes (Callback.cc:372-392, 549-552).
THEOREM PlainRemembered ==
    ASSUME Keep >= 2
    PROVE  Spec => []((\A r \in Requests : prompt[r] = "plain") => RemembersPlain)
<1>1. HInv => ((\A r \in Requests : prompt[r] = "plain") => RemembersPlain)
  BY DEF HInv, LoadedInv, Plain, Undisturbed, RemembersPlain, RemembersAnswered
<1>2. IInv /\ MInv /\ [Next]_vars => MInv'
  BY NextMInv
<1> QED
  BY <1>1, <1>2, InitMInv, InitHInv, NextHInv, Invariance, PTL DEF Spec

-----------------------------------------------------------------------------
(* The threads.                                                             *)

(***************************************************************************)
(* The inductive invariant: besides the types and the count of threads, the *)
(* mutex is held by the caller that polls, and an agent_wait task that      *)
(* waits for a compute thread or has one is the first of its series.        *)
(***************************************************************************)
Held == \A r \in Chats : mutex = r <=> run[r] = "poll"

InCompute(r) == r \in computing \/ \E i \in 1 .. Len(compute) : compute[i] = r

WaitFirst ==
    /\ \A i, j \in 1 .. Len(compute) : compute[i] = compute[j] => i = j
    /\ \A i \in 1 .. Len(compute) : compute[i] \notin computing
    /\ \A r \in Chats : InCompute(r) =>
          queue[r] # <<>> /\ Head(queue[r]) = "agent_wait"

Started == \A r \in Chats : load[r] = "due" => run[r] = "none"

PoolInv == PoolTypeOK /\ ThreadsLeft /\ Held /\ Started /\ WaitFirst

Tasks == {"agent_wait", "save"}

-----------------------------------------------------------------------------
(* Lemmas.                                                                  *)

\* The blocked requests are counted.
LEMMA Counted ==
    /\ IsFiniteSet(InRunSync) /\ Cardinality(InRunSync) \in Nat
    /\ IsFiniteSet(InWeather) /\ Cardinality(InWeather) \in Nat
<1>1. InRunSync \in SUBSET Chats /\ InWeather \in SUBSET Chats
  BY DEF InRunSync, InWeather
<1> QED
  BY <1>1, PoolAssumption, FS_Subset, FS_CardinalityType

\* Whoever leaves a WaitGroup makes room.
LEMMA FewerBlocked ==
    ASSUME ThreadsLeft, handlers \in Nat, handlers' = handlers,
           InRunSync' \subseteq InRunSync, InWeather' \subseteq InWeather
    PROVE  ThreadsLeft'
<1>1. /\ Cardinality(InRunSync') <= Cardinality(InRunSync)
      /\ Cardinality(InRunSync') \in Nat
      /\ Cardinality(InWeather') <= Cardinality(InWeather)
      /\ Cardinality(InWeather') \in Nat
  BY Counted, FS_Subset, FS_CardinalityType
<1> QED
  BY <1>1, Counted, PoolAssumption DEF ThreadsLeft, Blocked

\* An appended task leaves the first one of a series first.
LEMMA AppendTask ==
    ASSUME NEW s \in Seq(Tasks), NEW kind \in Tasks
    PROVE  /\ Append(s, kind) \in Seq(Tasks) /\ Append(s, kind) # <<>>
           /\ s # <<>> => Head(Append(s, kind)) = Head(s)
<1>1. /\ Append(s, kind) \in Seq(Tasks)
      /\ Len(Append(s, kind)) = Len(s) + 1
      /\ \A i \in 1 .. Len(s) : Append(s, kind)[i] = s[i]
  BY AppendProperties
<1>2. Len(s) \in Nat /\ (s # <<>> => Len(s) >= 1)
  BY EmptySeq
<1> QED
  BY <1>1, <1>2, EmptySeq

-----------------------------------------------------------------------------
(* The invariant.                                                           *)

LEMMA PoolInitInv == PoolInit => PoolInv
<1> SUFFICES ASSUME PoolInit PROVE PoolInv
  OBVIOUS
<1>1. PoolTypeOK
  BY PoolAssumption, EmptySeq
     DEF PoolInit, PoolTypeOK, LoadStages, RunStages, HttpStages
<1>2. InRunSync = {} /\ InWeather = {}
  BY DEF PoolInit, InRunSync, InWeather
<1>3. ThreadsLeft
  BY <1>2, FS_EmptySet, PoolAssumption DEF PoolInit, ThreadsLeft, Blocked
<1>4. Held /\ WaitFirst
  BY PoolAssumption, EmptySeq DEF PoolInit, Held, WaitFirst, InCompute
<1>5. Started
  BY DEF PoolInit, Started
<1> QED
  BY <1>1, <1>3, <1>4, <1>5 DEF PoolInv

\* A task is appended to a series, or none; the queue of the compute threads
\* stays as it is.
LEMMA SeriesGrows ==
    ASSUME PoolInv, NEW r \in Chats,
           \/ queue' = queue
           \/ \E kind \in Tasks : queue' = [queue EXCEPT ![r] = Append(@, kind)],
           UNCHANGED <<compute, computing>>
    PROVE  queue' \in [Chats -> Seq(Tasks)] /\ WaitFirst'
<1>0. queue \in [Chats -> Seq(Tasks)]
  BY DEF PoolInv, PoolTypeOK, Tasks
<1>1. CASE queue' = queue
  BY <1>0, <1>1 DEF PoolInv, WaitFirst, InCompute
<1>2. ASSUME NEW kind \in Tasks, queue' = [queue EXCEPT ![r] = Append(@, kind)]
      PROVE  queue' \in [Chats -> Seq(Tasks)] /\ WaitFirst'
  <2>1. /\ queue' \in [Chats -> Seq(Tasks)]
        /\ queue'[r] # <<>>
        /\ queue[r] # <<>> => Head(queue'[r]) = Head(queue[r])
        /\ \A s \in Chats : s # r => queue'[s] = queue[s]
    BY <1>0, <1>2, AppendTask
  <2>2. \A s \in Chats : InCompute(s)' =>
           queue'[s] # <<>> /\ Head(queue'[s]) = "agent_wait"
    <3> SUFFICES ASSUME NEW s \in Chats, InCompute(s)'
                 PROVE  queue'[s] # <<>> /\ Head(queue'[s]) = "agent_wait"
      OBVIOUS
    <3>1. queue[s] # <<>> /\ Head(queue[s]) = "agent_wait"
      BY DEF PoolInv, WaitFirst, InCompute
    <3> QED
      BY <2>1, <3>1
  <2> QED
    BY <2>1, <2>2 DEF PoolInv, WaitFirst
<1> QED
  BY <1>1, <1>2

\* A request goes on, but not into a WaitGroup and not to or from the pipe.
LEMMA Moves ==
    ASSUME PoolInv, NEW r \in Chats, NEW l \in LoadStages, NEW x \in RunStages,
           load' = [load EXCEPT ![r] = l], run' = [run EXCEPT ![r] = x],
           l = load[r] \/ l \in {"running", "returned"},
           x = run[r] \/ x \in {"sent", "weather", "lock", "answered", "failed"},
           x # run[r] => l # "due" /\ run[r] # "poll",
           UNCHANGED <<handlers, mutex>>
    PROVE  /\ load' \in [Chats -> LoadStages] /\ run' \in [Chats -> RunStages]
           /\ ThreadsLeft' /\ Held' /\ Started'
<1>1. load \in [Chats -> LoadStages] /\ run \in [Chats -> RunStages]
  BY DEF PoolInv, PoolTypeOK
<1>2. load' \in [Chats -> LoadStages] /\ run' \in [Chats -> RunStages]
  BY <1>1
<1>3. InRunSync' \subseteq InRunSync /\ InWeather' \subseteq InWeather
  BY <1>1 DEF InRunSync, InWeather
<1>4. ThreadsLeft'
  BY <1>3, FewerBlocked DEF PoolInv, PoolTypeOK
<1>5. Held' /\ Started'
  BY <1>1 DEF PoolInv, Held, Started
<1> QED
  BY <1>2, <1>4, <1>5

\* The LRANGE callback, but for the wait.
LEMMA HandlerInv ==
    ASSUME PoolInv, NEW r \in Chats,
           LoadContext(r) \/ QueueWait(r) \/ RunSyncReturns(r)
    PROVE  PoolInv'
<1>1. load \in [Chats -> LoadStages] /\ run \in [Chats -> RunStages]
  BY DEF PoolInv, PoolTypeOK
<1>2. queue' \in [Chats -> Seq(Tasks)] /\ WaitFirst'
  <2>1. CASE LoadContext(r)
    BY <2>1, SeriesGrows DEF LoadContext
  <2>2. CASE QueueWait(r)
    BY <2>2, SeriesGrows DEF QueueWait, Tasks
  <2>3. CASE RunSyncReturns(r)
    <3>1. \/ queue' = queue
          \/ queue' = [queue EXCEPT ![r] = Append(@, "save")]
      BY <2>3 DEF RunSyncReturns, PoolInv, PoolTypeOK
    <3> QED
      BY <2>3, <3>1, SeriesGrows DEF RunSyncReturns, Tasks
  <2> QED
    BY <2>1, <2>2, <2>3
<1>3. /\ load' \in [Chats -> LoadStages] /\ run' \in [Chats -> RunStages]
      /\ ThreadsLeft' /\ Held' /\ Started'
  <2>1. CASE LoadContext(r)
    <3>1. run[r] = "none"
      BY <2>1 DEF LoadContext, PoolInv, Started
    <3> QED
      BY <2>1, <3>1, Moves DEF LoadContext, LoadStages, RunStages
  <2>2. CASE QueueWait(r) \/ RunSyncReturns(r)
    <3>1. load' = [load EXCEPT ![r] = "returned"] /\ UNCHANGED <<handlers, mutex>>
      BY <2>2 DEF QueueWait, RunSyncReturns
    <3>2. run' = [run EXCEPT ![r] = run[r]] /\ run[r] \in RunStages
      BY <1>1, <2>2 DEF QueueWait, RunSyncReturns
    <3> QED
      BY <3>1, <3>2, Moves DEF LoadStages
  <2> QED
    BY <2>1, <2>2
<1>4. UNCHANGED <<handlers, http, mutex, rounds, wg, compute, computing>>
  BY DEF LoadContext, QueueWait, RunSyncReturns
<1> QED
  BY <1>2, <1>3, <1>4 DEF PoolInv, PoolTypeOK, Tasks

\* The agent's callbacks, the weather's but for the wait, and a call of an MCP
\* server up to the mutex.
LEMMA AgentInv ==
    ASSUME PoolInv, NEW r \in Chats,
           \/ \E ok \in BOOLEAN : RunEnds(r, ok)
           \/ CallBuildin(r) \/ CallWeather(r) \/ CallMcp(r)
           \/ WeatherDone(r) \/ WeatherReturns(r)
    PROVE  PoolInv'
<1>1. /\ load \in [Chats -> LoadStages] /\ run \in [Chats -> RunStages]
      /\ http \in [Chats -> HttpStages] /\ wg \in [Chats -> {0, 1}]
      /\ rounds \in [Chats -> 0 .. MaxRounds]
  BY DEF PoolInv, PoolTypeOK
<1>2. queue' \in [Chats -> Seq(Tasks)] /\ WaitFirst'
  <2>1. ASSUME NEW ok \in BOOLEAN, RunEnds(r, ok)
        PROVE  queue' \in [Chats -> Seq(Tasks)] /\ WaitFirst'
    <3>1. \/ queue' = queue
          \/ queue' = [queue EXCEPT ![r] = Append(@, "save")]
      BY <2>1 DEF RunEnds, Last, PoolInv, PoolTypeOK
    <3> QED
      BY <2>1, <3>1, SeriesGrows DEF RunEnds, Tasks
  <2>2. CASE \/ CallBuildin(r) \/ CallWeather(r) \/ CallMcp(r)
            \/ WeatherDone(r) \/ WeatherReturns(r)
    BY <2>2, SeriesGrows
       DEF CallBuildin, CallWeather, CallMcp, WeatherDone, WeatherReturns
  <2> QED
    BY <2>1, <2>2
<1>3. UNCHANGED <<handlers, load, mutex, compute, computing>>
  BY DEF RunEnds, Last, CallBuildin, CallWeather, CallMcp, ToolCall, WeatherDone,
         WeatherReturns
<1>4. wg' \in [Chats -> {0, 1}]
  BY <1>1 DEF RunEnds, Last, CallBuildin, CallWeather, CallMcp, WeatherDone,
              WeatherReturns
<1>5. http' \in [Chats -> HttpStages]
  BY <1>1 DEF RunEnds, CallBuildin, CallWeather, CallMcp, WeatherDone,
              WeatherReturns, HttpStages
<1>6. rounds' \in [Chats -> 0 .. MaxRounds]
  <2>1. CASE ToolCall(r)
    <3>1. rounds[r] + 1 \in 0 .. MaxRounds
      BY <1>1, <2>1, PoolAssumption DEF ToolCall
    <3> QED
      BY <1>1, <2>1, <3>1 DEF ToolCall
  <2>2. CASE UNCHANGED rounds
    BY <1>1, <2>2
  <2> QED
    BY <2>1, <2>2 DEF RunEnds, CallBuildin, CallWeather, CallMcp, WeatherDone,
                      WeatherReturns
<1>7. PICK x \in RunStages :
          /\ run' = [run EXCEPT ![r] = x]
          /\ x = run[r] \/ x \in {"sent", "weather", "lock", "answered", "failed"}
          /\ x # run[r] => run[r] \in {"sent", "weather", "waiting"}
  <2>1. ASSUME NEW ok \in BOOLEAN, RunEnds(r, ok)
        PROVE  \/ run' = [run EXCEPT ![r] = "answered"] /\ run[r] = "sent"
               \/ run' = [run EXCEPT ![r] = "failed"] /\ run[r] = "sent"
    BY <2>1 DEF RunEnds, Last
  <2>2. CASE CallBuildin(r)
    BY <1>1, <2>2 DEF CallBuildin, ToolCall, NextLLMCall, RunStages
  <2>3. CASE CallWeather(r)
    BY <1>1, <2>3 DEF CallWeather, ToolCall, RunStages
  <2>4. CASE CallMcp(r)
    BY <1>1, <2>4 DEF CallMcp, ToolCall, RunStages
  <2>5. CASE WeatherDone(r)
    <3>1. run' = [run EXCEPT ![r] = run[r]] /\ run[r] \in RunStages
      BY <1>1, <2>5 DEF WeatherDone
    <3> QED
      BY <3>1
  <2>6. CASE WeatherReturns(r)
    BY <1>1, <2>6 DEF WeatherReturns, NextLLMCall, RunStages
  <2> QED
    BY <2>1, <2>2, <2>3, <2>4, <2>5, <2>6 DEF RunStages
<1>8. load' = [load EXCEPT ![r] = load[r]] /\ load[r] \in LoadStages
  BY <1>1, <1>3
<1>9. x # run[r] => load[r] # "due" /\ run[r] # "poll"
  BY <1>7 DEF PoolInv, Started
<1>10. /\ load' \in [Chats -> LoadStages] /\ run' \in [Chats -> RunStages]
       /\ ThreadsLeft' /\ Held' /\ Started'
  BY <1>3, <1>7, <1>8, <1>9, Moves
<1> QED
  BY <1>2, <1>3, <1>4, <1>5, <1>6, <1>10 DEF PoolInv, PoolTypeOK, Tasks

\* The two waits: the library has added a thread for the one that waits.
LEMMA WaitInv ==
    ASSUME PoolInv, NEW r \in Chats, RunSyncWaits(r) \/ WeatherWaits(r)
    PROVE  PoolInv'
<1>1. /\ load \in [Chats -> LoadStages] /\ run \in [Chats -> RunStages]
      /\ handlers \in Nat
  BY DEF PoolInv, PoolTypeOK
<1>2. /\ handlers' \in Nat /\ handlers' >= HandlerThreads + Blocked + 1
  <2>1. Waits(Blocked)
    BY DEF RunSyncWaits, WeatherWaits
  <2>2. Blocked \in Nat
    BY Counted DEF Blocked
  <2> QED
    BY <1>1, <2>1, <2>2, PoolAssumption DEF Waits
<1>3. CASE RunSyncWaits(r)
  <2>1. load' = [load EXCEPT ![r] = "waiting"] /\ run' = run /\ mutex' = mutex
    BY <1>3 DEF RunSyncWaits
  <2>2. InRunSync' = InRunSync \cup {r} /\ InWeather' = InWeather
    BY <1>1, <2>1 DEF InRunSync, InWeather
  <2>3. /\ Cardinality(InRunSync') <= Cardinality(InRunSync) + 1
        /\ Cardinality(InRunSync') \in Nat
    <3>1. /\ IsFiniteSet(InRunSync \cup {r})
          /\ \/ Cardinality(InRunSync \cup {r}) = Cardinality(InRunSync)
             \/ Cardinality(InRunSync \cup {r}) = Cardinality(InRunSync) + 1
      BY Counted, FS_AddElement
    <3> QED
      BY <2>2, <3>1, Counted
  <2>4. ThreadsLeft'
    BY <1>2, <2>2, <2>3, Counted, PoolAssumption DEF ThreadsLeft, Blocked
  <2>5. Held' /\ Started' /\ load' \in [Chats -> LoadStages]
    BY <1>1, <1>3, <2>1 DEF PoolInv, Held, Started, LoadStages, RunSyncWaits
  <2> QED
    BY <1>2, <1>3, <2>1, <2>4, <2>5
       DEF RunSyncWaits, PoolInv, PoolTypeOK, WaitFirst, InCompute
<1>4. CASE WeatherWaits(r)
  <2>1. run' = [run EXCEPT ![r] = "waiting"] /\ load' = load /\ mutex' = mutex
    BY <1>4 DEF WeatherWaits
  <2>2. InWeather' = InWeather \cup {r} /\ InRunSync' = InRunSync
    BY <1>1, <2>1 DEF InRunSync, InWeather
  <2>3. /\ Cardinality(InWeather') <= Cardinality(InWeather) + 1
        /\ Cardinality(InWeather') \in Nat
    <3>1. /\ IsFiniteSet(InWeather \cup {r})
          /\ \/ Cardinality(InWeather \cup {r}) = Cardinality(InWeather)
             \/ Cardinality(InWeather \cup {r}) = Cardinality(InWeather) + 1
      BY Counted, FS_AddElement
    <3> QED
      BY <2>2, <3>1, Counted
  <2>4. ThreadsLeft'
    BY <1>2, <2>2, <2>3, Counted, PoolAssumption DEF ThreadsLeft, Blocked
  <2>5. Held' /\ Started' /\ run' \in [Chats -> RunStages]
    BY <1>1, <1>4, <2>1 DEF PoolInv, Held, Started, RunStages, WeatherWaits
  <2> QED
    BY <1>2, <1>4, <2>1, <2>4, <2>5
       DEF WeatherWaits, PoolInv, PoolTypeOK, WaitFirst, InCompute
<1> QED
  BY <1>3, <1>4

\* The mutex and the pipe of an MCP server.
LEMMA McpInv ==
    ASSUME PoolInv, NEW r \in Chats, Lock(r) \/ PollEnds(r)
    PROVE  PoolInv'
<1>1. load \in [Chats -> LoadStages] /\ run \in [Chats -> RunStages]
  BY DEF PoolInv, PoolTypeOK
<1>2. UNCHANGED <<handlers, load, http, rounds, wg, queue, compute, computing>>
  BY DEF Lock, PollEnds
<1>3. /\ \/ run[r] = "lock" /\ run' = [run EXCEPT ![r] = "poll"]
            /\ mutex = NoChat /\ mutex' = r
         \/ run[r] = "poll" /\ run' = [run EXCEPT ![r] = "sent"]
            /\ mutex' = NoChat
  BY DEF Lock, PollEnds, NextLLMCall
<1>4. run' \in [Chats -> RunStages] /\ mutex' \in Chats \cup {NoChat}
  BY <1>1, <1>3 DEF RunStages
<1>5. InRunSync' = InRunSync /\ InWeather' = InWeather
  BY <1>1, <1>2, <1>3 DEF InRunSync, InWeather
<1>6. Held'
  BY <1>1, <1>3, PoolAssumption DEF PoolInv, Held
<1>7. Started'
  BY <1>1, <1>2, <1>3 DEF PoolInv, Started
<1>8. ThreadsLeft'
  BY <1>2, <1>5 DEF PoolInv, ThreadsLeft, Blocked
<1> QED
  BY <1>2, <1>4, <1>6, <1>7, <1>8 DEF PoolInv, PoolTypeOK, WaitFirst, InCompute

\* The series of a request and the compute threads.
LEMMA SeriesWaitFirst ==
    ASSUME PoolInv, NEW r \in Chats,
           StartWait(r) \/ Compute \/ WaitEnds(r) \/ Save(r)
    PROVE  /\ queue' \in [Chats -> Seq(Tasks)]
           /\ compute' \in Seq(Chats) /\ computing' \subseteq Chats
           /\ WaitFirst'
<1>1. /\ queue \in [Chats -> Seq(Tasks)]
      /\ compute \in Seq(Chats) /\ computing \subseteq Chats
  BY DEF PoolInv, PoolTypeOK, Tasks
<1>2. /\ \A i, j \in 1 .. Len(compute) : compute[i] = compute[j] => i = j
      /\ \A i \in 1 .. Len(compute) : compute[i] \notin computing
      /\ \A s \in Chats : InCompute(s) =>
            queue[s] # <<>> /\ Head(queue[s]) = "agent_wait"
  BY DEF PoolInv, WaitFirst
<1>3. Len(compute) \in Nat /\ DOMAIN compute = 1 .. Len(compute)
  BY <1>1
<1>4. CASE StartWait(r)
  <2>1. /\ compute' = Append(compute, r) /\ queue' = queue /\ computing' = computing
        /\ r \notin computing /\ \A i \in 1 .. Len(compute) : compute[i] # r
        /\ queue[r] # <<>> /\ Head(queue[r]) = "agent_wait"
    BY <1>3, <1>4 DEF StartWait, Task
  <2>2. /\ compute' \in Seq(Chats) /\ Len(compute') = Len(compute) + 1
        /\ \A i \in 1 .. Len(compute) : compute'[i] = compute[i]
        /\ compute'[Len(compute) + 1] = r
    BY <1>1, <2>1, AppendProperties
  <2>3. \A i \in 1 .. Len(compute') : i \in 1 .. Len(compute) \/ i = Len(compute) + 1
    BY <1>3, <2>2
  <2>4. \A i, j \in 1 .. Len(compute') : compute'[i] = compute'[j] => i = j
    BY <1>2, <2>1, <2>2, <2>3
  <2>5. \A i \in 1 .. Len(compute') : compute'[i] \notin computing'
    BY <1>2, <2>1, <2>2, <2>3
  <2>6. \A s \in Chats : InCompute(s)' => InCompute(s) \/ s = r
    BY <2>1, <2>2, <2>3 DEF InCompute
  <2> QED
    BY <1>1, <1>2, <2>1, <2>2, <2>4, <2>5, <2>6 DEF WaitFirst
<1>5. CASE Compute
  <2>1. /\ compute # <<>> /\ compute' = Tail(compute) /\ queue' = queue
        /\ computing' = computing \cup {Head(compute)}
    BY <1>5 DEF Compute
  <2>2. /\ Head(compute) \in Chats /\ Head(compute) = compute[1]
        /\ compute' \in Seq(Chats) /\ Len(compute') = Len(compute) - 1
        /\ \A i \in 1 .. Len(compute') : compute'[i] = compute[i + 1]
    BY <1>1, <2>1, HeadTailProperties
  <2>3. /\ 1 \in 1 .. Len(compute)
        /\ \A i \in 1 .. Len(compute') : i + 1 \in 1 .. Len(compute) /\ i + 1 # 1
    BY <1>1, <1>3, <2>1, <2>2, EmptySeq
  <2>4. \A i, j \in 1 .. Len(compute') : compute'[i] = compute'[j] => i = j
    <3> SUFFICES ASSUME NEW i \in 1 .. Len(compute'), NEW j \in 1 .. Len(compute'),
                        compute'[i] = compute'[j]
                 PROVE  i = j
      OBVIOUS
    <3>1. i + 1 = j + 1
      BY <1>2, <2>2, <2>3
    <3> QED
      BY <3>1
  <2>5. \A i \in 1 .. Len(compute') : compute'[i] \notin computing'
    BY <1>2, <2>1, <2>2, <2>3
  <2>6. \A s \in Chats : InCompute(s)' => InCompute(s)
    BY <2>1, <2>2, <2>3 DEF InCompute
  <2> QED
    BY <1>1, <1>2, <2>1, <2>2, <2>4, <2>5, <2>6 DEF WaitFirst
<1>6. CASE WaitEnds(r)
  <2>1. /\ r \in computing /\ computing' = computing \ {r} /\ compute' = compute
        /\ queue' = [queue EXCEPT ![r] = Tail(@)]
    BY <1>6 DEF WaitEnds
  <2>2. queue[r] # <<>>
    BY <1>2, <2>1 DEF InCompute
  <2>3. queue' \in [Chats -> Seq(Tasks)]
    BY <1>1, <2>1, <2>2, HeadTailProperties
  <2>4. \A s \in Chats : InCompute(s)' => InCompute(s) /\ s # r
    BY <1>2, <2>1 DEF InCompute
  <2> QED
    BY <1>1, <1>2, <2>1, <2>3, <2>4 DEF WaitFirst
<1>7. CASE Save(r)
  <2>1. /\ queue[r] # <<>> /\ Head(queue[r]) = "save"
        /\ queue' = [queue EXCEPT ![r] = Tail(@)]
        /\ compute' = compute /\ computing' = computing
    BY <1>7 DEF Save, Task
  <2>2. queue' \in [Chats -> Seq(Tasks)]
    BY <1>1, <2>1, HeadTailProperties
  <2>3. \A s \in Chats : InCompute(s)' => InCompute(s) /\ s # r
    BY <1>2, <2>1 DEF InCompute
  <2> QED
    BY <1>1, <1>2, <2>1, <2>2, <2>3 DEF WaitFirst
<1> QED
  BY <1>4, <1>5, <1>6, <1>7

\* Nothing else changes in these steps.
LEMMA SeriesInv ==
    ASSUME PoolInv, NEW r \in Chats,
           StartWait(r) \/ Compute \/ WaitEnds(r) \/ Save(r)
    PROVE  PoolInv'
<1>1. UNCHANGED <<handlers, load, run, http, mutex, rounds, wg>>
  BY DEF StartWait, Compute, WaitEnds, Save
<1>2. /\ ThreadsLeft' /\ Held' /\ Started'
  BY <1>1 DEF PoolInv, ThreadsLeft, Blocked, InRunSync, InWeather, Held, Started
<1> QED
  BY <1>1, <1>2, SeriesWaitFirst DEF PoolInv, PoolTypeOK, Tasks

LEMMA PoolNextInv == PoolInv /\ [PoolNext]_pools => PoolInv'
<1> SUFFICES ASSUME PoolInv, [PoolNext]_pools PROVE PoolInv'
  OBVIOUS
<1>1. CASE Compute
  <2>1. CASE Chats = {}
    <3>1. compute # <<>> /\ compute \in Seq(Chats)
      BY <1>1 DEF Compute, PoolInv, PoolTypeOK
    <3>2. Head(compute) \in Chats
      BY <3>1, HeadTailProperties
    <3> QED
      BY <2>1, <3>2
  <2>2. CASE Chats # {}
    <3>1. PICK r : r \in Chats
      BY <2>2
    <3> QED
      BY <1>1, <3>1, SeriesInv
  <2> QED
    BY <2>1, <2>2
<1>2. ASSUME NEW r \in Chats, Callback(r) PROVE PoolInv'
  BY <1>2, HandlerInv, AgentInv, SeriesInv DEF Callback
<1>3. ASSUME NEW r \in Chats, Lock(r) PROVE PoolInv'
  BY <1>3, McpInv
<1>4. ASSUME NEW r \in Chats, Step(r) PROVE PoolInv'
  BY <1>4, HandlerInv, WaitInv, AgentInv, McpInv, SeriesInv DEF Step
<1>5. CASE UNCHANGED pools
  BY <1>5 DEF pools, PoolInv, PoolTypeOK, ThreadsLeft, Blocked, InRunSync, InWeather,
              Held, Started, WaitFirst, InCompute
<1> QED
  BY <1>1, <1>2, <1>3, <1>4, <1>5 DEF PoolNext

LEMMA PoolInvariance == PoolSpec => []PoolInv
  BY PoolInitInv, PoolNextInv, PTL DEF PoolSpec

-----------------------------------------------------------------------------
(* Theorems.                                                                *)

\* Every variable keeps its type, however many requests there are.
THEOREM PoolTypeCorrect == PoolSpec => []PoolTypeOK
<1>1. PoolInv => PoolTypeOK
  BY DEF PoolInv
<1> QED
  BY <1>1, PoolInvariance, PTL

\* For any number of requests and of threads: callers that wait in RunSync and
\* in the weather tool leave as many threads as there were (Agent.cc:78,
\* ToolAmapWeather.cc:97).
THEOREM ThreadsStayLeft == PoolSpec => []ThreadsLeft
<1>1. PoolInv => ThreadsLeft
  BY DEF PoolInv
<1> QED
  BY <1>1, PoolInvariance, PTL

\* The threads of the handlers never all wait for each other: when none is
\* free, one of them is running, polls for an answer or may take the mutex.
SomebodyRuns ==
    \/ FreeThread
    \/ \E r \in Chats :
          \/ load[r] = "running"
          \/ run[r] \in {"weather", "poll"}
          \/ run[r] = "lock" /\ mutex = NoChat

\* No deadlock of the pool (Agent.cc:78, ToolAmapWeather.cc:97, ToolMCP.cc:81).
THEOREM SomebodyGoesOn == PoolSpec => []SomebodyRuns
<1>1. PoolInv => SomebodyRuns
  <2> SUFFICES ASSUME PoolInv,
                      ~ \E r \in Chats :
                          \/ load[r] = "running"
                          \/ run[r] \in {"weather", "poll"}
                          \/ run[r] = "lock" /\ mutex = NoChat
               PROVE  FreeThread
    BY DEF SomebodyRuns
  <2>1. /\ load \in [Chats -> LoadStages] /\ run \in [Chats -> RunStages]
        /\ mutex \in Chats \cup {NoChat} /\ handlers \in Nat
    BY DEF PoolInv, PoolTypeOK
  <2>2. mutex = NoChat
    BY <2>1 DEF PoolInv, Held
  <2>3. Loading = InRunSync
    BY DEF Loading, InRunSync
  <2>4. Calling = InWeather
    BY <2>2 DEF Calling, InWeather
  <2> QED
    BY <2>1, <2>3, <2>4, Counted, PoolAssumption
       DEF FreeThread, PoolInv, ThreadsLeft, Blocked
<1> QED
  BY <1>1, PoolInvariance, PTL
=============================================================================
