------------------------------ MODULE TurnProofs ------------------------------
(***************************************************************************)
(* Proofs about a turn.  TurnLoop: transcripts never hold a tool use       *)
(* without its results, a result has its call or stands behind the summary *)
(* that has swallowed it, and the detector stops the tools at the first    *)
(* loop.  ModelStream: the events of a model request are in their          *)
(* brackets, and the message read of them is what arrived.                 *)
(***************************************************************************)
EXTENDS TurnLoop, ModelStream, SequenceTheorems, FiniteSetTheorems, TLAPS

-----------------------------------------------------------------------------
(***************************************************************************)
(* Transcripts.                                                            *)
(***************************************************************************)

\* A transcript in the middle of a batch of n calls: the results of the first
\* k - 1 are there, and all earlier batches are complete.
Open(t, n, k) ==
    /\ k \in 1..n
    /\ k <= Len(t)
    /\ t[Len(t) - k + 1] = Uses(n)
    /\ \A j \in 1..k - 1 : t[Len(t) - k + 1 + j] = Result(j)
    /\ \A i \in DOMAIN t : i # Len(t) - k + 1 /\ t[i].kind = "uses" =>
          \A j \in 1..t[i].n : i + j \in DOMAIN t /\ t[i + j] = Result(j)

Called(t) == \A i \in DOMAIN t : t[i].kind = "result" => HasCall(t, i)

\* The constructors give messages of their own kinds.
LEMMA Kinds ==
    /\ User \in Message /\ Answer \in Message /\ Summary \in Message
    /\ \A n \in Nat : Uses(n) \in Message /\ Result(n) \in Message
    /\ User.kind = "user" /\ Answer.kind = "answer" /\ Summary.kind = "summary"
    /\ \A n \in Nat : /\ Uses(n).kind = "uses" /\ Uses(n).n = n
                      /\ Result(n).kind = "result" /\ Result(n).n = n
BY DEF User, Answer, Summary, Uses, Result, Message

\* A message that is no tool use leaves every batch complete.
LEMMA AppendAnswered ==
    ASSUME NEW t \in Seq(Message), NEW m \in Message, m.kind # "uses", Answered(t)
    PROVE  Append(t, m) \in Seq(Message) /\ Answered(Append(t, m))
BY DEF Answered

\* A message with tool uses opens a batch.
LEMMA AppendOpens ==
    ASSUME NEW t \in Seq(Message), NEW n \in Nat \ {0}, Answered(t)
    PROVE  Append(t, Uses(n)) \in Seq(Message) /\ Open(Append(t, Uses(n)), n, 1)
BY Kinds DEF Answered, Open

\* A result brings the batch one further, or completes it.
LEMMA AppendResult ==
    ASSUME NEW t \in Seq(Message), NEW n \in Nat, NEW k \in Nat, Open(t, n, k)
    PROVE  /\ Append(t, Result(k)) \in Seq(Message)
           /\ k # n => Open(Append(t, Result(k)), n, k + 1)
           /\ k = n => Answered(Append(t, Result(k)))
<1> DEFINE u == Append(t, Result(k))
<1>1. /\ u \in Seq(Message) /\ Len(u) = Len(t) + 1
      /\ u[Len(t) + 1] = Result(k)
      /\ \A i \in 1..Len(t) : u[i] = t[i]
      /\ DOMAIN u = 1..Len(t) + 1 /\ DOMAIN t = 1..Len(t)
  BY Kinds
<1>2. /\ k \in 1..n /\ k <= Len(t) /\ Len(t) \in Nat
      /\ t[Len(t) - k + 1] = Uses(n)
      /\ \A j \in 1..k - 1 : t[Len(t) - k + 1 + j] = Result(j)
  BY DEF Open
<1>3. Result(k).kind = "result" /\ Uses(n).n = n
  BY Kinds
<1>4. \A i \in DOMAIN u : i # Len(t) - k + 1 /\ u[i].kind = "uses" =>
         \A j \in 1..u[i].n : i + j \in DOMAIN u /\ u[i + j] = Result(j)
  <2> SUFFICES ASSUME NEW i \in DOMAIN u, i # Len(t) - k + 1, u[i].kind = "uses",
                      NEW j \in 1..u[i].n
               PROVE  i + j \in DOMAIN u /\ u[i + j] = Result(j)
    OBVIOUS
  <2>1. i \in DOMAIN t /\ u[i] = t[i]
    BY <1>1, <1>3
  <2>2. i + j \in DOMAIN t /\ t[i + j] = Result(j)
    BY <2>1 DEF Open
  <2> QED BY <2>2, <1>1
<1>5. \A j \in 1..k : u[Len(t) - k + 1 + j] = Result(j)
  BY <1>1, <1>2
<1>6. u[Len(t) - k + 1] = Uses(n)
  BY <1>1, <1>2
<1>7. Len(u) - (k + 1) + 1 = Len(t) - k + 1
  BY <1>1, <1>2
<1> HIDE DEF u
<1>8. ASSUME k # n
      PROVE  Open(u, n, k + 1)
  <2>1. k + 1 \in 1..n /\ k + 1 <= Len(u) /\ (k + 1) - 1 = k
    BY <1>1, <1>2, <1>8
  <2> QED BY <2>1, <1>4, <1>5, <1>6, <1>7 DEF Open
<1>9. ASSUME k = n
      PROVE  Answered(u)
  <2> SUFFICES ASSUME NEW i \in DOMAIN u, u[i].kind = "uses", NEW j \in 1..u[i].n
               PROVE  i + j \in DOMAIN u /\ u[i + j] = Result(j)
    BY DEF Answered
  <2>1. CASE i = Len(t) - k + 1
    <3>1. j \in 1..k
      BY <1>3, <1>6, <1>9, <2>1
    <3> QED BY <3>1, <2>1, <1>1, <1>2, <1>5
  <2>2. CASE i # Len(t) - k + 1
    BY <2>2, <1>4
  <2> QED BY <2>1, <2>2
<1> QED BY <1>1, <1>8, <1>9 DEF u

\* What compaction keeps: a summary, and the newest messages behind it.
LEMMA CompactFields ==
    ASSUME NEW t \in Seq(Message), Compactable(t)
    PROVE  LET c == Compact(t)
               d == Len(t) - Preserve
           IN  /\ c \in Seq(Message) /\ Len(c) = Preserve + 1
               /\ c[1] = Summary
               /\ d \in Nat \ {0}
               /\ HasSummary(t) => d > 1
               /\ \A i \in 2..Preserve + 1 : c[i] = t[i - 1 + d] /\ i - 1 + d \in 1..Len(t)
<1> DEFINE d == Len(t) - Preserve
<1>1. Preserve \in Nat \ {0} /\ Len(t) \in Nat
  BY TurnAssumption
<1>2. d \in Nat \ {0} /\ (HasSummary(t) => d > 1)
  BY <1>1 DEF Compactable
<1>3. /\ Recent(t) \in Seq(Message) /\ Len(Recent(t)) = Preserve
      /\ \A i \in 1..Preserve : Recent(t)[i] = t[i + d]
  BY <1>1, <1>2, SubSeqProperties DEF Recent
<1>4. Compact(t) = <<Summary>> \o Recent(t)
  BY DEF Compact
<1>5. <<Summary>> \in Seq(Message) /\ Len(<<Summary>>) = 1 /\ <<Summary>>[1] = Summary
  BY Kinds
<1>6. /\ Compact(t) \in Seq(Message) /\ Len(Compact(t)) = Preserve + 1
      /\ Compact(t)[1] = Summary
      /\ \A i \in 2..Preserve + 1 : Compact(t)[i] = Recent(t)[i - 1]
  BY <1>1, <1>3, <1>4, <1>5, ConcatProperties
<1> QED BY <1>1, <1>2, <1>3, <1>6

\* Compaction cuts no tool use off its results.
LEMMA CompactAnswered ==
    ASSUME NEW t \in Seq(Message), Answered(t)
    PROVE  Compact(t) \in Seq(Message) /\ Answered(Compact(t))
<1>1. CASE ~Compactable(t)
  BY <1>1 DEF Compact
<1>2. CASE Compactable(t)
  <2> DEFINE c == Compact(t)
             d == Len(t) - Preserve
  <2>1. /\ c \in Seq(Message) /\ Len(c) = Preserve + 1 /\ c[1] = Summary
        /\ d \in Nat \ {0}
        /\ \A i \in 2..Preserve + 1 : c[i] = t[i - 1 + d] /\ i - 1 + d \in 1..Len(t)
    BY <1>2, CompactFields
  <2>2. Preserve \in Nat /\ DOMAIN c = 1..Preserve + 1 /\ DOMAIN t = 1..Len(t)
        /\ Len(t) \in Nat /\ Len(t) = Preserve + d
    BY <2>1, TurnAssumption
  <2> HIDE DEF c, d
  <2>3. ASSUME NEW i \in DOMAIN c, c[i].kind = "uses", NEW k \in 1..c[i].n
        PROVE  i + k \in DOMAIN c /\ c[i + k] = Result(k)
    <3>1. i \in 2..Preserve + 1
      BY <2>1, <2>2, <2>3, Kinds
    <3>2. c[i] = t[i - 1 + d] /\ i - 1 + d \in DOMAIN t
      BY <2>1, <2>2, <3>1
    <3>3. t[i - 1 + d].kind = "uses" /\ k \in 1..t[i - 1 + d].n
      BY <2>3, <3>2
    <3>4. i - 1 + d + k \in DOMAIN t /\ t[i - 1 + d + k] = Result(k)
      BY <3>2, <3>3 DEF Answered
    <3>5. k \in Nat /\ k >= 1
      <4>1. c[i] \in Message
        BY <2>1, <2>3, ElementOfSeq, <2>2
      <4> QED BY <4>1 DEF Message
    <3>6. i + k \in 2..Preserve + 1 /\ i + k - 1 + d = i - 1 + d + k
      BY <3>1, <3>4, <3>5, <2>2, <2>1
    <3> QED BY <3>4, <3>6, <2>1, <2>2
  <2> QED BY <2>1, <2>3 DEF Answered, c
<1> QED BY <1>1, <1>2

\* A message that is neither a result nor a summary takes no call away.
LEMMA AppendCalled ==
    ASSUME NEW t \in Seq(Message), NEW m \in Message,
           m.kind \notin {"result", "summary"}, Called(t)
    PROVE  Called(Append(t, m))
<1> DEFINE u == Append(t, m)
<1>1. /\ u \in Seq(Message) /\ DOMAIN u = 1..Len(t) + 1 /\ DOMAIN t = 1..Len(t)
      /\ Len(t) \in Nat /\ u[Len(t) + 1] = m
      /\ \A i \in 1..Len(t) : u[i] = t[i]
  OBVIOUS
<1> HIDE DEF u
<1>2. ASSUME NEW i \in DOMAIN u, u[i].kind = "result"
      PROVE  HasCall(u, i)
  <2>1. i \in DOMAIN t /\ t[i].kind = "result" /\ u[i] = t[i]
    BY <1>1, <1>2
  <2>2. HasCall(t, i)
    BY <2>1 DEF Called
  <2>3. CASE \E j \in 1..i - 1 : t[j].kind = "uses" /\ i - j = t[i].n /\ t[i].n <= t[j].n
    BY <2>3, <2>1, <1>1 DEF HasCall
  <2>4. CASE HasSummary(t) /\ \A k \in 2..i : t[k].kind = "result"
    <3>1. HasSummary(u) /\ \A k \in 2..i : u[k].kind = "result"
      BY <2>4, <2>1, <1>1 DEF HasSummary
    <3> QED BY <3>1 DEF HasCall
  <2> QED BY <2>2, <2>3, <2>4 DEF HasCall
<1> QED BY <1>2 DEF Called, u

\* The result of an open batch has its call.
LEMMA AppendResultCalled ==
    ASSUME NEW t \in Seq(Message), NEW n \in Nat, NEW k \in Nat, Open(t, n, k), Called(t)
    PROVE  Called(Append(t, Result(k)))
<1> DEFINE u == Append(t, Result(k))
<1>1. /\ u \in Seq(Message) /\ DOMAIN u = 1..Len(t) + 1 /\ DOMAIN t = 1..Len(t)
      /\ Len(t) \in Nat /\ u[Len(t) + 1] = Result(k)
      /\ \A i \in 1..Len(t) : u[i] = t[i]
  BY Kinds
<1> HIDE DEF u
<1>2. k \in 1..n /\ k <= Len(t) /\ t[Len(t) - k + 1] = Uses(n)
  BY DEF Open
<1>3. ASSUME NEW i \in DOMAIN u, u[i].kind = "result"
      PROVE  HasCall(u, i)
  <2>1. CASE i = Len(t) + 1
    <3>1. Len(t) - k + 1 \in 1..i - 1 /\ i - (Len(t) - k + 1) = k
      BY <1>1, <1>2, <2>1
    <3>2. u[Len(t) - k + 1] = Uses(n) /\ u[i] = Result(k)
      BY <1>1, <1>2, <2>1
    <3> QED BY <3>1, <3>2, <1>2, Kinds DEF HasCall
  <2>2. CASE i \in DOMAIN t
    <3>1. HasCall(t, i)
      BY <2>2, <1>1, <1>3 DEF Called
    <3>2. CASE \E j \in 1..i - 1 : t[j].kind = "uses" /\ i - j = t[i].n /\ t[i].n <= t[j].n
      BY <3>2, <2>2, <1>1 DEF HasCall
    <3>3. CASE HasSummary(t) /\ \A j \in 2..i : t[j].kind = "result"
      <4>1. HasSummary(u) /\ \A j \in 2..i : u[j].kind = "result"
        BY <3>3, <2>2, <1>1 DEF HasSummary
      <4> QED BY <4>1 DEF HasCall
    <3> QED BY <3>1, <3>2, <3>3 DEF HasCall
  <2> QED BY <2>1, <2>2, <1>1
<1> QED BY <1>3 DEF Called, u

\* Compaction swallows calls, and then leaves their results right behind the
\* summary.
LEMMA CompactCalled ==
    ASSUME NEW t \in Seq(Message), Answered(t), Called(t)
    PROVE  Called(Compact(t))
<1>1. CASE ~Compactable(t)
  BY <1>1 DEF Compact
<1>2. CASE Compactable(t)
  <2> DEFINE c == Compact(t)
             d == Len(t) - Preserve
  <2>1. /\ c \in Seq(Message) /\ Len(c) = Preserve + 1 /\ c[1] = Summary
        /\ d \in Nat \ {0}
        /\ HasSummary(t) => d > 1
        /\ \A i \in 2..Preserve + 1 : c[i] = t[i - 1 + d] /\ i - 1 + d \in 1..Len(t)
    BY <1>2, CompactFields
  <2>2. Preserve \in Nat \ {0} /\ DOMAIN c = 1..Preserve + 1 /\ DOMAIN t = 1..Len(t)
        /\ Len(t) \in Nat /\ Len(t) = Preserve + d
    BY <2>1, TurnAssumption
  <2> HIDE DEF c, d
  <2>3. HasSummary(c)
    BY <2>1, <2>2, Kinds DEF HasSummary
  <2>4. ASSUME NEW i \in DOMAIN c, c[i].kind = "result"
        PROVE  HasCall(c, i)
    <3>1. i \in 2..Preserve + 1
      BY <2>1, <2>2, <2>4, Kinds
    <3> DEFINE p == i - 1 + d
    <3>2. p \in DOMAIN t /\ c[i] = t[p] /\ t[p].kind = "result"
      BY <2>1, <2>2, <2>4, <3>1
    <3>3. HasCall(t, p)
      BY <3>2 DEF Called
    <3>4. CASE \E j \in 1..p - 1 : t[j].kind = "uses" /\ p - j = t[p].n /\ t[p].n <= t[j].n
      <4>1. PICK j \in 1..p - 1 : t[j].kind = "uses" /\ p - j = t[p].n /\ t[p].n <= t[j].n
        BY <3>4
      <4>2. j \in DOMAIN t /\ t[j].n \in Nat
        <5>1. j \in DOMAIN t
          BY <3>2, <2>2
        <5>2. t[j] \in Message
          BY <5>1, ElementOfSeq, <2>2
        <5> QED BY <5>1, <5>2 DEF Message
      <4>3. /\ i \in Nat /\ d \in Nat /\ j \in Nat /\ j < i - 1 + d /\ i <= Preserve + 1
            /\ p - j <= t[j].n
        BY <4>1, <3>1, <2>1, <2>2
      <4> HIDE DEF p
      <4>4. CASE j > d
        <5>1. j - d + 1 \in 1..i - 1 /\ j - d + 1 \in 2..Preserve + 1
              /\ j - d + 1 - 1 + d = j
          BY <4>3, <4>4, <2>2
        <5>3. i - (j - d + 1) = p - j
          BY <4>3, <4>4 DEF p
        <5>2. c[j - d + 1] = t[j]
          BY <5>1, <2>1
        <5> QED BY <5>1, <5>2, <5>3, <4>1, <3>2 DEF HasCall
      <4>5. CASE j <= d
        <5>1. ASSUME NEW k \in 2..i
              PROVE  c[k].kind = "result"
          <6>1. k - 1 + d - j \in 1..t[j].n /\ j + (k - 1 + d - j) = k - 1 + d
            <7>1. k - 1 + d <= p /\ k \in Nat /\ k >= 2 /\ p \in Nat
              BY <4>3 DEF p
            <7>2. t[j].n \in Nat /\ d \in Nat /\ j \in Nat /\ p - j <= t[j].n /\ j <= d
              BY <4>2, <4>3, <4>5
            <7>3. k - 1 + d - j \in Nat /\ 1 <= k - 1 + d - j /\ j + (k - 1 + d - j) = k - 1 + d
              BY <7>1, <7>2
            <7>4. k - 1 + d - j <= t[j].n
              BY <7>1, <7>2
            <7> QED BY <7>2, <7>3, <7>4
          <6>2. t[k - 1 + d] = Result(k - 1 + d - j)
            BY <6>1, <4>1, <4>2 DEF Answered
          <6>3. c[k] = t[k - 1 + d]
            BY <3>1, <2>1, <2>2
          <6> QED BY <6>1, <6>2, <6>3, <4>2, Kinds
        <5> QED BY <5>1, <2>3 DEF HasCall
      <4> QED BY <4>3, <4>4, <4>5
    <3>5. CASE HasSummary(t) /\ \A k \in 2..p : t[k].kind = "result"
      <4>1. ASSUME NEW k \in 2..i
            PROVE  c[k].kind = "result"
        <5>1. k - 1 + d \in 2..p
          BY <3>5, <3>1, <2>1, <2>2
        <5>2. c[k] = t[k - 1 + d]
          BY <3>1, <2>1, <2>2
        <5> QED BY <5>1, <5>2, <3>5
      <4> QED BY <4>1, <2>3 DEF HasCall
    <3> QED BY <3>3, <3>4, <3>5 DEF HasCall
  <2> QED BY <2>4 DEF Called, c
<1> QED BY <1>1, <1>2

-----------------------------------------------------------------------------
(***************************************************************************)
(* The transcript of a turn.                                               *)
(***************************************************************************)

\* What holds of the transcripts at every place of the loop.
TranscriptInv ==
    /\ Answered(kept) /\ Called(kept)
    /\ Called(messages)
    /\ pc \in {"idle", "over"} => messages = <<>>
    /\ pc = "requesting" => Answered(messages)
    /\ pc = "calling" => Open(messages, size, next)

LEMMA EmptyIsFine == <<>> \in Seq(Message) /\ Answered(<<>>) /\ Called(<<>>)
BY DEF Answered, Called

\* The detector's record stays one.
LEMMA RecordType ==
    ASSUME NEW d \in Detector, NEW c \in Call
    PROVE  Record(d, c) \in Detector
BY DEF Record, Detector, Call

LEMMA TypeInit == Init => TypeOK /\ TranscriptInv
BY EmptyIsFine DEF Init, TypeOK, TranscriptInv, FreshDetector, Detector

\* A turn that is over leaves no transcript of its own.
LEMMA OverIsFine ==
    ASSUME TypeOK, NEW state \in {"idle", "over"}, NEW t \in Seq(Message),
           Answered(t), Called(t), TurnOver(state, t), UNCHANGED <<caller, turns>>
    PROVE  TypeOK' /\ TranscriptInv'
<1>1. /\ pc' = state /\ kept' = t /\ messages' = <<>> /\ caller' = caller /\ turns' = turns
      /\ iterations' = 0 /\ size' = 0 /\ next' = 0 /\ det' = FreshDetector /\ ran' = <<>>
  BY DEF TurnOver
<1>2. FreshDetector \in Detector /\ <<>> \in Seq(Call)
  BY DEF FreshDetector, Detector
<1>3. TypeOK'
  BY <1>1, <1>2, EmptyIsFine DEF TypeOK
<1>4. TranscriptInv'
  BY <1>1, EmptyIsFine DEF TranscriptInv
<1> QED BY <1>3, <1>4

LEMMA FailsIsFine ==
    ASSUME TypeOK, TranscriptInv, Fails
    PROVE  TypeOK' /\ TranscriptInv'
BY OverIsFine DEF Fails, TypeOK, TranscriptInv

\* The result of a call completes the batch, or brings it one further.
LEMMA PushIsFine ==
    ASSUME TypeOK, TranscriptInv, pc = "calling", PushResult,
           det' \in Detector, ran' \in Seq(Call)
    PROVE  TypeOK' /\ TranscriptInv'
<1>1. /\ messages \in Seq(Message) /\ size \in Nat /\ next \in Nat
      /\ Open(messages, size, next) /\ Called(messages)
  BY DEF TypeOK, TranscriptInv
<1>2. /\ messages' = Append(messages, Result(next)) /\ next' = next + 1
      /\ pc' = (IF next = size THEN "requesting" ELSE "calling")
      /\ caller' = caller /\ turns' = turns /\ kept' = kept
      /\ iterations' = iterations /\ size' = size
  BY DEF PushResult
<1>3. /\ messages' \in Seq(Message) /\ Called(messages')
      /\ next # size => Open(messages', size, next + 1)
      /\ next = size => Answered(messages')
  BY <1>1, <1>2, AppendResult, AppendResultCalled
<1>4. TypeOK'
  BY <1>2, <1>3 DEF TypeOK
<1>5. TranscriptInv'
  BY <1>2, <1>3 DEF TranscriptInv
<1> QED BY <1>4, <1>5

LEMMA HistoryIsFine ==
    ASSUME TypeOK, TranscriptInv
    PROVE  /\ History \in Seq(Message) /\ Answered(History) /\ Called(History)
           /\ Append(History, User) \in Seq(Message)
           /\ Answered(Append(History, User)) /\ Called(Append(History, User))
<1>1. kept \in Seq(Message) /\ Answered(kept) /\ Called(kept)
  BY DEF TypeOK, TranscriptInv
<1>2. User \in Message /\ User.kind \notin {"uses", "result", "summary"}
  BY Kinds
<1>3. History \in Seq(Message) /\ Answered(History) /\ Called(History)
  BY <1>1, <1>2, AppendAnswered, AppendCalled DEF History
<1> QED BY <1>2, <1>3, AppendAnswered, AppendCalled

LEMMA TranscriptStep ==
    ASSUME TypeOK, TranscriptInv, [Next]_vars
    PROVE  TypeOK' /\ TranscriptInv'
<1>1. CASE StartTurn
  <2>1. /\ pc' = "requesting" /\ kept' = History /\ messages' = Append(History, User)
        /\ turns' = turns + 1 /\ caller' = caller /\ UNCHANGED <<loop, det, ran>>
    BY <1>1 DEF StartTurn
  <2>2. TypeOK'
    BY <2>1, HistoryIsFine DEF TypeOK, loop
  <2>3. TranscriptInv'
    BY <2>1, HistoryIsFine DEF TranscriptInv
  <2> QED BY <2>2, <2>3
<1>2. CASE StartFails
  <2>1. /\ pc = "idle" /\ pc' \in {"idle", "over"} /\ kept' = History /\ messages' = messages
        /\ turns' = turns + 1 /\ caller' = caller /\ UNCHANGED <<loop, det, ran>>
    BY <1>2 DEF StartFails
  <2>2. TypeOK'
    BY <2>1, HistoryIsFine DEF TypeOK, loop
  <2>3. TranscriptInv'
    BY <2>1, HistoryIsFine DEF TranscriptInv
  <2> QED BY <2>2, <2>3
<1>3. CASE IterationsSpent
  BY <1>3, FailsIsFine DEF IterationsSpent
<1>4. CASE RequestFails
  BY <1>4, FailsIsFine DEF RequestFails
<1>5. CASE FinalAnswer
  <2>1. /\ kept \in Seq(Message) /\ Answered(kept) /\ Called(kept)
        /\ messages \in Seq(Message) /\ Answered(messages) /\ Called(messages)
    BY <1>5 DEF FinalAnswer, MayRequest, TypeOK, TranscriptInv
  <2>2. Answer \in Message /\ Answer.kind \notin {"uses", "result", "summary"}
    BY Kinds
  <2> DEFINE t == Append(messages, Answer)
  <2>3. t \in Seq(Message) /\ Answered(t) /\ Called(t)
    BY <2>1, <2>2, AppendAnswered, AppendCalled
  <2>4. Compact(t) \in Seq(Message) /\ Answered(Compact(t)) /\ Called(Compact(t))
    BY <2>3, CompactAnswered, CompactCalled
  <2>5. LET u == Append(kept, Answer) IN u \in Seq(Message) /\ Answered(u) /\ Called(u)
    BY <2>1, <2>2, AppendAnswered, AppendCalled
  <2>6. PICK new \in {Append(kept, Answer), Compact(t), t} : TurnOver("idle", new)
    BY <1>5 DEF FinalAnswer
  <2>7. UNCHANGED <<caller, turns>>
    BY <1>5 DEF FinalAnswer
  <2> QED BY <2>3, <2>4, <2>5, <2>6, <2>7, OverIsFine
<1>6. ASSUME NEW n \in 1..MaxUses, RequestTools(n)
      PROVE  TypeOK' /\ TranscriptInv'
  <2>1. messages \in Seq(Message) /\ Answered(messages) /\ Called(messages)
    BY <1>6 DEF RequestTools, MayRequest, TypeOK, TranscriptInv
  <2>2. n \in Nat \ {0} /\ Uses(n) \in Message /\ Uses(n).kind = "uses"
    BY Kinds, TurnAssumption
  <2>3. /\ messages' = Append(messages, Uses(n)) /\ iterations' = iterations + 1
        /\ pc' = "calling" /\ size' = n /\ next' = 1
        /\ UNCHANGED <<caller, turns, kept, det, ran>>
    BY <1>6 DEF RequestTools
  <2>4. messages' \in Seq(Message) /\ Open(messages', n, 1) /\ Called(messages')
    BY <2>1, <2>2, <2>3, AppendOpens, AppendCalled
  <2>5. TypeOK'
    BY <2>2, <2>3, <2>4 DEF TypeOK
  <2>6. TranscriptInv'
    BY <2>3, <2>4 DEF TranscriptInv
  <2> QED BY <2>5, <2>6
<1>7. CASE Deny
  BY <1>7, PushIsFine DEF Deny, TypeOK
<1>8. CASE Blocked
  BY <1>8, PushIsFine DEF Blocked, TypeOK
<1>9. CASE ResultFails
  BY <1>9, FailsIsFine DEF ResultFails
<1>10. ASSUME NEW tool \in Tools, NEW failed \in BOOLEAN, Run(tool, failed)
       PROVE  TypeOK' /\ TranscriptInv'
  <2> DEFINE c == [tool |-> tool, failed |-> failed]
  <2>1. c \in Call
    BY DEF Call
  <2>2. det \in Detector /\ ran \in Seq(Call)
    BY DEF TypeOK
  <2>3. \/ det' = Record(det, c) /\ ran' = Append(ran, c)
        \/ det' = det /\ ran' = ran
    BY <1>10 DEF Run
  <2> HIDE DEF c
  <2>4. det' \in Detector /\ ran' \in Seq(Call)
    BY <2>1, <2>2, <2>3, RecordType
  <2> QED BY <1>10, <2>4, PushIsFine DEF Run
<1>11. CASE CompactCommand
  <2>1. kept \in Seq(Message) /\ Answered(kept) /\ Called(kept)
    BY DEF TypeOK, TranscriptInv
  <2>2. /\ kept' = Compact(kept)
        /\ UNCHANGED <<caller, pc, turns, messages, loop, det, ran>>
    BY <1>11 DEF CompactCommand
  <2>3. kept' \in Seq(Message) /\ Answered(kept') /\ Called(kept')
    BY <2>1, <2>2, CompactAnswered, CompactCalled
  <2>4. TypeOK'
    BY <2>2, <2>3 DEF TypeOK, loop
  <2>5. TranscriptInv'
    BY <2>2, <2>3 DEF TranscriptInv, loop
  <2> QED BY <2>4, <2>5
<1>12. CASE UNCHANGED vars
  BY <1>12 DEF vars, loop, TypeOK, TranscriptInv
<1> QED
  BY <1>1, <1>2, <1>3, <1>4, <1>5, <1>6, <1>7, <1>8, <1>9, <1>10, <1>11, <1>12 DEF Next, Turn

LEMMA TranscriptAlways == Spec => [](TypeOK /\ TranscriptInv)
<1>1. Init => TypeOK /\ TranscriptInv
  BY TypeInit
<1>2. TypeOK /\ TranscriptInv /\ [Next]_vars => (TypeOK /\ TranscriptInv)'
  BY TranscriptStep
<1> QED BY <1>1, <1>2, PTL DEF Spec

\* No request and no kept transcript has a tool use without its result, for
\* any limits, any number of calls and wherever compaction cuts.
THEOREM EveryUseIsAnswered == Spec => []NoUnansweredUse
<1>1. TypeOK /\ TranscriptInv => NoUnansweredUse
  BY DEF TranscriptInv, NoUnansweredUse
<1> QED BY <1>1, TranscriptAlways, PTL

\* A result has its call, or stands right behind the summary that swallowed it.
THEOREM OnlyCompactionParts == Spec => []ResultsHaveCalls
<1>1. TypeOK /\ TranscriptInv => ResultsHaveCalls
  BY DEF TranscriptInv, ResultsHaveCalls, Called
<1> QED BY <1>1, TranscriptAlways, PTL

-----------------------------------------------------------------------------
(***************************************************************************)
(* The detector.                                                           *)
(***************************************************************************)

\* The counters are the lengths of the last row of calls of one tool and of
\* the last row of errors, and no call came after a loop.
Counts(d, r) ==
    /\ d.total = Len(r)
    /\ d.same <= Len(r) /\ (r # <<>> => d.same >= 1 /\ d.last = r[Len(r)].tool)
    /\ r = <<>> => d.last = NoTool
    /\ \A j \in Len(r) - d.same + 1..Len(r) : r[j].tool = d.last
    /\ d.same < Len(r) => r[Len(r) - d.same].tool # d.last
    /\ d.errors <= Len(r)
    /\ \A j \in Len(r) - d.errors + 1..Len(r) : r[j].failed
    /\ d.errors < Len(r) => ~r[Len(r) - d.errors].failed

Stopped(d, r) ==
    /\ \A k \in DOMAIN r : Loop(r, k) => k = Len(r)
    /\ d.triggered <=> \E k \in DOMAIN r : Loop(r, k)

\* A loop is told by the calls up to its last one.
LEMMA LoopLooksBack ==
    ASSUME NEW r \in Seq(Call), NEW c \in Call, NEW k \in DOMAIN r
    PROVE  Loop(Append(r, c), k) <=> Loop(r, k)
<1>1. /\ \A j \in 1..Len(r) : Append(r, c)[j] = r[j]
      /\ k \in 1..Len(r) /\ Len(r) \in Nat
  OBVIOUS
<1> DEFINE s == Append(r, c)
<1>2. s[k] = r[k]
  BY <1>1
<1> HIDE DEF s
<1>3. k >= MaxSame => \A j \in k - MaxSame + 1..k : s[j] = r[j]
  BY <1>1, TurnAssumption DEF s
<1>4. k >= MaxErrors => \A j \in k - MaxErrors + 1..k : s[j] = r[j]
  BY <1>1, TurnAssumption DEF s
<1>5. Loop(s, k) <=> Loop(r, k)
  BY <1>2, <1>3, <1>4 DEF Loop
<1> QED BY <1>5 DEF s

\* The counters keep up with the calls.
LEMMA CountsStep ==
    ASSUME NEW d \in Detector, NEW r \in Seq(Call), NEW c \in Call, Counts(d, r)
    PROVE  Counts(Record(d, c), Append(r, c))
<1> DEFINE s == Append(r, c)
           e == Record(d, c)
<1>1. /\ Len(s) = Len(r) + 1 /\ Len(r) \in Nat /\ s[Len(r) + 1] = c
      /\ \A j \in 1..Len(r) : s[j] = r[j]
      /\ s # <<>>
  OBVIOUS
<1>2. /\ e.total = d.total + 1 /\ e.last = c.tool
      /\ e.same = (IF d.last = c.tool THEN d.same + 1 ELSE 1)
      /\ e.errors = (IF c.failed THEN d.errors + 1 ELSE 0)
      /\ d.total \in Nat /\ d.same \in Nat /\ d.errors \in Nat
  BY DEF Record, Detector
<1>3. c.tool \in Tools /\ c.failed \in BOOLEAN /\ NoTool \notin Tools
  BY TurnAssumption DEF Call
<1> HIDE DEF s, e
<1>4. /\ e.total = Len(s)
      /\ e.same <= Len(s) /\ e.same >= 1 /\ e.last = s[Len(s)].tool
      /\ e.errors <= Len(s)
  BY <1>1, <1>2 DEF Counts
<1>5. /\ \A j \in Len(s) - e.same + 1..Len(s) : s[j].tool = e.last
      /\ e.same < Len(s) => s[Len(s) - e.same].tool # e.last
  <2>1. CASE d.last = c.tool
    <3>1. /\ e.same = d.same + 1
          /\ Len(s) - e.same = Len(r) - d.same
          /\ e.same < Len(s) => d.same < Len(r)
      BY <2>1, <1>1, <1>2
    <3>2. \A j \in Len(r) - d.same + 1..Len(r) : r[j].tool = d.last /\ j \in 1..Len(r)
      BY <1>1, <1>2 DEF Counts
    <3>3. d.same >= 1 /\ (d.same < Len(r) =>
             r[Len(r) - d.same].tool # d.last /\ Len(r) - d.same \in 1..Len(r))
      BY <2>1, <1>1, <1>2, <1>3 DEF Counts
    <3>4. ASSUME NEW j \in Len(s) - e.same + 1..Len(s)
          PROVE  s[j].tool = e.last
      <4>1. j = Len(r) + 1 \/ j \in Len(r) - d.same + 1..Len(r)
        BY <3>1, <1>1, <1>2
      <4>2. CASE j = Len(r) + 1
        BY <4>2, <2>1, <1>1, <1>2
      <4>3. CASE j \in Len(r) - d.same + 1..Len(r)
        BY <4>3, <2>1, <3>2, <1>1, <1>2
      <4> QED BY <4>1, <4>2, <4>3
    <3>5. e.same < Len(s) => s[Len(s) - e.same].tool # e.last
      <4>1. CASE d.same < Len(r)
        BY <2>1, <4>1, <3>1, <3>3, <1>1, <1>2
      <4>2. CASE d.same >= Len(r)
        BY <4>2, <3>1, <1>1, <1>2
      <4> QED BY <4>1, <4>2, <1>1, <1>2
    <3> QED BY <3>4, <3>5
  <2>2. CASE d.last # c.tool
    <3>1. e.same = 1
      BY <2>2, <1>2
    <3>2. Len(r) > 0 => s[Len(r)].tool # c.tool
      BY <2>2, <1>1 DEF Counts
    <3> QED BY <3>1, <3>2, <1>1, <1>2
  <2> QED BY <2>1, <2>2
<1>6. /\ \A j \in Len(s) - e.errors + 1..Len(s) : s[j].failed
      /\ e.errors < Len(s) => ~s[Len(s) - e.errors].failed
  <2>1. CASE c.failed
    <3>1. /\ e.errors = d.errors + 1
          /\ Len(s) - e.errors = Len(r) - d.errors
          /\ e.errors < Len(s) => d.errors < Len(r)
      BY <2>1, <1>1, <1>2
    <3>2. \A j \in Len(r) - d.errors + 1..Len(r) : r[j].failed /\ j \in 1..Len(r)
      BY <1>1, <1>2 DEF Counts
    <3>3. d.errors < Len(r) => ~r[Len(r) - d.errors].failed /\ Len(r) - d.errors \in 1..Len(r)
      BY <1>1, <1>2 DEF Counts
    <3>4. ASSUME NEW j \in Len(s) - e.errors + 1..Len(s)
          PROVE  s[j].failed
      <4>1. j = Len(r) + 1 \/ j \in Len(r) - d.errors + 1..Len(r)
        BY <3>1, <1>1, <1>2
      <4>2. CASE j = Len(r) + 1
        BY <4>2, <2>1, <1>1, <1>2
      <4>3. CASE j \in Len(r) - d.errors + 1..Len(r)
        BY <4>3, <2>1, <3>2, <1>1, <1>2
      <4> QED BY <4>1, <4>2, <4>3
    <3>5. e.errors < Len(s) => ~s[Len(s) - e.errors].failed
      <4>1. CASE d.errors < Len(r)
        BY <4>1, <3>1, <3>3, <1>1
      <4>2. CASE d.errors >= Len(r)
        BY <4>2, <3>1, <1>1, <1>2
      <4> QED BY <4>1, <4>2, <1>1, <1>2
    <3> QED BY <3>4, <3>5
  <2>2. CASE ~c.failed
    BY <2>2, <1>1, <1>2
  <2> QED BY <2>1, <2>2
<1> QED BY <1>1, <1>4, <1>5, <1>6 DEF Counts, s, e

\* The thresholds are met exactly when the last call makes a loop.
LEMMA ThresholdIsLoop ==
    ASSUME NEW d \in Detector, NEW r \in Seq(Call), r # <<>>, Counts(d, r)
    PROVE  Loop(r, Len(r)) <=>
              d.same >= MaxSame \/ d.errors >= MaxErrors \/ d.total >= MaxTotal
<1> DEFINE n == Len(r)
<1>1. /\ n \in Nat \ {0} /\ d.same \in Nat /\ d.errors \in Nat /\ d.total = n
      /\ MaxSame \in Nat \ {0} /\ MaxErrors \in Nat \ {0}
      /\ d.last = r[n].tool
  BY TurnAssumption DEF Counts, Detector
<1> HIDE DEF n
<1>2. d.same >= MaxSame =>
         n >= MaxSame /\ \A j \in n - MaxSame + 1..n : r[j].tool = r[n].tool
  BY <1>1 DEF Counts, n
<1>3. n >= MaxSame /\ d.same < MaxSame =>
         \E j \in n - MaxSame + 1..n : r[j].tool # r[n].tool
  <2> SUFFICES ASSUME n >= MaxSame, d.same < MaxSame
               PROVE  \E j \in n - MaxSame + 1..n : r[j].tool # r[n].tool
    OBVIOUS
  <2>1. n - d.same \in n - MaxSame + 1..n /\ d.same < n
    BY <1>1
  <2>2. r[n - d.same].tool # r[n].tool
    BY <2>1, <1>1 DEF Counts, n
  <2> QED BY <2>1, <2>2
<1>4. d.errors >= MaxErrors =>
         n >= MaxErrors /\ \A j \in n - MaxErrors + 1..n : r[j].failed
  BY <1>1 DEF Counts, n
<1>5. n >= MaxErrors /\ d.errors < MaxErrors =>
         \E j \in n - MaxErrors + 1..n : ~r[j].failed
  <2> SUFFICES ASSUME n >= MaxErrors, d.errors < MaxErrors
               PROVE  \E j \in n - MaxErrors + 1..n : ~r[j].failed
    OBVIOUS
  <2>1. n - d.errors \in n - MaxErrors + 1..n /\ d.errors < n
    BY <1>1
  <2>2. ~r[n - d.errors].failed
    BY <2>1, <1>1 DEF Counts, n
  <2> QED BY <2>1, <2>2
<1> QED BY <1>1, <1>2, <1>3, <1>4, <1>5 DEF Loop, n

LEMMA RecordStops ==
    ASSUME NEW d \in Detector, NEW r \in Seq(Call), NEW c \in Call,
           Counts(d, r), Stopped(d, r), ~d.triggered
    PROVE  /\ Counts(Record(d, c), Append(r, c))
           /\ Stopped(Record(d, c), Append(r, c))
<1> DEFINE s == Append(r, c)
           e == Record(d, c)
<1>1. Counts(e, s) /\ e \in Detector
  BY CountsStep, RecordType
<1>2. s \in Seq(Call) /\ s # <<>> /\ Len(s) = Len(r) + 1 /\ Len(r) \in Nat
      /\ DOMAIN s = 1..Len(r) + 1 /\ DOMAIN r = 1..Len(r)
  OBVIOUS
<1>3. \A k \in DOMAIN r : ~Loop(s, k)
  BY LoopLooksBack DEF Stopped
<1>4. e.triggered <=> Loop(s, Len(s))
  <2>1. e.triggered <=> e.same >= MaxSame \/ e.errors >= MaxErrors \/ e.total >= MaxTotal
    BY DEF Record
  <2> HIDE DEF s, e
  <2> QED BY <2>1, <1>1, <1>2, ThresholdIsLoop
<1> HIDE DEF s, e
<1>5. Stopped(e, s)
  <2>1. \A k \in DOMAIN s : Loop(s, k) => k = Len(s)
    BY <1>2, <1>3
  <2>2. e.triggered <=> \E k \in DOMAIN s : Loop(s, k)
    BY <1>2, <1>4, <2>1
  <2> QED BY <2>1, <2>2 DEF Stopped
<1> QED BY <1>1, <1>5 DEF s, e

DetectorInv == Counts(det, ran) /\ Stopped(det, ran)

LEMMA FreshStops == Counts(FreshDetector, <<>>) /\ Stopped(FreshDetector, <<>>)
BY DEF FreshDetector, Counts, Stopped

LEMMA DetectorStep ==
    ASSUME TypeOK, DetectorInv, [Next]_vars
    PROVE  DetectorInv'
<1>1. CASE UNCHANGED <<det, ran>>
  BY <1>1 DEF DetectorInv
<1>2. CASE det' = FreshDetector /\ ran' = <<>>
  BY <1>2, FreshStops DEF DetectorInv
<1>3. ASSUME NEW tool \in Tools, NEW failed \in BOOLEAN, Run(tool, failed)
      PROVE  DetectorInv'
  <2> DEFINE c == [tool |-> tool, failed |-> failed]
  <2>1. c \in Call /\ det \in Detector /\ ran \in Seq(Call) /\ ~det.triggered
    BY <1>3 DEF Call, TypeOK, Run
  <2>2. \/ det' = Record(det, c) /\ ran' = Append(ran, c)
        \/ UNCHANGED <<det, ran>>
    BY <1>3 DEF Run
  <2> HIDE DEF c
  <2> QED BY <2>1, <2>2, <1>1, RecordStops DEF DetectorInv
<1>4. \/ UNCHANGED <<det, ran>>
      \/ det' = FreshDetector /\ ran' = <<>>
      \/ \E tool \in Tools, failed \in BOOLEAN : Run(tool, failed)
  BY DEF Next, Turn, StartTurn, StartFails, IterationsSpent, RequestFails, FinalAnswer,
         RequestTools, Deny, Blocked, ResultFails, CompactCommand, Fails, TurnOver, vars
<1> QED BY <1>1, <1>2, <1>3, <1>4

\* No call runs after the one that makes a loop, and what the detector reports
\* is one, for any thresholds.
THEOREM LoopStopsTheTools == Spec => []NoCallAfterLoop
<1>1. Init => DetectorInv
  BY FreshStops DEF Init, DetectorInv
<1>2. TypeOK /\ DetectorInv /\ [Next]_vars => DetectorInv'
  BY DetectorStep
<1>3. DetectorInv => NoCallAfterLoop
  BY DEF DetectorInv, Stopped, NoCallAfterLoop
<1> QED BY <1>1, <1>2, <1>3, TranscriptAlways, PTL DEF Spec

-----------------------------------------------------------------------------
(***************************************************************************)
(* The model's stream: what is invariant.                                  *)
(***************************************************************************)

EventKind == [kind : {"start", "delta", "stop", "end"}, i : Blocks, pieces : Seq(Nat)]
Content   == [kind : {"text", "use"}, n : Nat, pieces : Seq(Nat)]
Said      == [named : BOOLEAN, args : Nat]
BlockState == [named : BOOLEAN, args : Nat, emitted : Nat, started : BOOLEAN, stopped : BOOLEAN]

StreamTypeOK ==
    /\ reader \in {"server", "agent"}
    /\ stage \in {"sending", "streaming", "finishing", "message", "failed"}
    /\ whole \in BOOLEAN /\ begun \in BOOLEAN /\ reason \in Reasons
    /\ said \in [Blocks -> Said]
    /\ block \in [Blocks -> BlockState]
    /\ todo \in SUBSET Delta /\ at \in Blocks
    /\ events \in Seq(EventKind)
    /\ open \in SUBSET Calls /\ gathered \in [Calls -> Seq(Nat)]
    /\ out \in Seq(Content)

\* A block is started when it has a name, and stops when all is handed on.
BlockSound(i) ==
    /\ block[i].emitted <= block[i].args
    /\ ~block[i].started => block[i].emitted = 0
    /\ block[i].started => block[i].named
    /\ block[i].stopped => block[i].started /\ block[i].emitted = block[i].args

\* With the deltas still to be taken up, a block is what was said of it.
Taken(i) ==
    /\ \A d \in todo : d.index = i =>
         /\ said[i].named = (block[i].named \/ d.name)
         /\ said[i].args = block[i].args + d.piece
         /\ ~block[i].stopped
    /\ (\A d \in todo : d.index # i) =>
         said[i].named = block[i].named /\ said[i].args = block[i].args

\* Only the block in hand has something to hand on, and none when a loop is over.
InOrder(i) ==
    /\ CanStart(i) \/ CanHandOn(i) =>
         stage = "failed" \/ (stage = "streaming" /\ i = at)
    /\ block[i].stopped /\ stage = "streaming" => i # 0 /\ reason = "tool_calls"

\* Text goes out piece by piece.
TextSound ==
    /\ block[0].args <= block[0].emitted + 1
    /\ ~block[0].named => block[0].args = 0

StreamInv ==
    /\ \A i \in Blocks : BlockSound(i) /\ Taken(i) /\ InOrder(i)
    /\ TextSound
    /\ \A d, e \in todo : d.index = e.index => d = e
    /\ \A d \in todo : d.index = at => at = 0
    /\ stage \notin {"streaming", "failed"} => todo = {}
    /\ stage = "sending" /\ ~whole => \A i \in Blocks : ~block[i].stopped
    /\ stage = "message" /\ ~whole => \A i \in Blocks : ~Unfinished(i)

EventsInv ==
    /\ BlocksAreBracketed
    /\ \A i \in Blocks :
         /\ block[i].started <=> \E k \in DOMAIN events : events[k].kind = "start" /\ events[k].i = i
         /\ block[i].stopped <=> \E k \in DOMAIN events : events[k].kind = "stop" /\ events[k].i = i

\* The server hands on all of it if it has one call at most.
OneSlotWillDo == reader = "agent" \/ \A i, j \in NamedCalls : i = j

\* The reader is through with the call: it has seen its stop, or the server's
\* bridge has seen that of the text.
Closed(i) == block[i].stopped \/ (reader = "server" /\ block[0].stopped)

CallRead(i) ==
    /\ i \in open <=> block[i].started /\ ~Closed(i)
    /\ i \in open => gathered[i] = Pieces(0, block[i].emitted)
    /\ UsesOf(out, i) # {} <=> block[i].started /\ Closed(i)
    /\ \A k \in UsesOf(out, i) : out[k].pieces = Pieces(0, block[i].emitted)
    /\ \A k, l \in UsesOf(out, i) : k = l

TextRead ==
    /\ \A p \in 1..block[0].emitted : \E k \in DOMAIN out : out[k] = Text(p)
    /\ \A k \in DOMAIN out : out[k].kind = "text" => out[k].n \in 1..block[0].emitted
    /\ \A k, l \in DOMAIN out :
         k < l /\ out[k].kind = "text" /\ out[l].kind = "text" => out[k].n < out[l].n

ReadInv ==
    /\ TextRead
    /\ OneSlotWillDo => \A i \in Calls : CallRead(i)

\* Events and the content of messages are of their types.
LEMMA EventTypes ==
    /\ 0 \in Blocks /\ Calls \subseteq Blocks
    /\ \A i \in Blocks : i # 0 <=> i \in Calls
    /\ \A i \in Blocks : i \in Nat
    /\ \A i \in Blocks, j \in Nat : j < i => j \in Blocks
BY StreamAssumption DEF Blocks, Calls

LEMMA PiecesType ==
    ASSUME NEW a \in Nat, NEW b \in Nat, a <= b
    PROVE  /\ Pieces(a, b) \in Seq(Nat) /\ Len(Pieces(a, b)) = b - a
           /\ \A k \in 1..(b - a) : Pieces(a, b)[k] = a + k
<1>1. b - a \in Nat
  OBVIOUS
<1>2. \A k \in 1..(b - a) : a + k \in Nat
  OBVIOUS
<1> QED BY <1>1, <1>2 DEF Pieces

\* What is handed on follows what was.
LEMMA PiecesFollow ==
    ASSUME NEW a \in Nat, NEW b \in Nat, a <= b
    PROVE  Pieces(0, a) \o Pieces(a, b) = Pieces(0, b)
<1> DEFINE s == Pieces(0, a)
           t == Pieces(a, b)
           u == Pieces(0, b)
<1>1. /\ s \in Seq(Nat) /\ Len(s) = a /\ \A k \in 1..a : s[k] = k
      /\ t \in Seq(Nat) /\ Len(t) = b - a /\ \A k \in 1..(b - a) : t[k] = a + k
      /\ u \in Seq(Nat) /\ Len(u) = b /\ \A k \in 1..b : u[k] = k
  <2>1. /\ 0 \in Nat /\ 0 <= a /\ 0 <= b /\ a - 0 = a /\ b - 0 = b
        /\ \A k \in Nat : 0 + k = k
    OBVIOUS
  <2>2. s \in Seq(Nat) /\ Len(s) = a /\ \A k \in 1..a : s[k] = 0 + k
    BY PiecesType, <2>1
  <2>3. t \in Seq(Nat) /\ Len(t) = b - a /\ \A k \in 1..(b - a) : t[k] = a + k
    BY PiecesType
  <2>4. u \in Seq(Nat) /\ Len(u) = b /\ \A k \in 1..b : u[k] = 0 + k
    BY PiecesType, <2>1
  <2> HIDE DEF s, t, u
  <2> QED BY <2>1, <2>2, <2>3, <2>4
<1> HIDE DEF s, t, u
<1>2. s \o t \in Seq(Nat) /\ Len(s \o t) = b
  BY <1>1
<1>3. \A k \in 1..b : (s \o t)[k] = u[k]
  BY <1>1
<1>4. s \o t = u
  BY <1>1, <1>2, <1>3, SeqEqual
<1> QED BY <1>4 DEF s, t, u

LEMMA PiecesNone == Pieces(0, 0) = <<>>
<1>1. Pieces(0, 0) \in Seq(Nat) /\ Len(Pieces(0, 0)) = 0
  BY PiecesType
<1> QED BY <1>1, EmptySeq

\* How an action changes the blocks.
LEMMA BlockType ==
    ASSUME block \in [Blocks -> BlockState], NEW i \in Blocks
    PROVE  /\ block[i] \in BlockState
           /\ block[i].named \in BOOLEAN /\ block[i].started \in BOOLEAN
           /\ block[i].stopped \in BOOLEAN
           /\ block[i].args \in Nat /\ block[i].emitted \in Nat
BY DEF BlockState

\* Of block i only these fields may have changed, and nothing of the others.
Becomes(i, named, args, emitted, started, stopped) ==
    /\ block' \in [Blocks -> BlockState]
    /\ block'[i].named = named /\ block'[i].args = args /\ block'[i].emitted = emitted
    /\ block'[i].started = started /\ block'[i].stopped = stopped
    /\ \A j \in Blocks : j # i => block'[j] = block[j]

LEMMA StartBlockMakes ==
    ASSUME StreamTypeOK, NEW i \in Blocks, StartBlock(i)
    PROVE  Becomes(i, block[i].named, block[i].args, block[i].emitted, TRUE, block[i].stopped)
BY BlockType DEF StreamTypeOK, StartBlock, Becomes, BlockState

LEMMA HandOnMakes ==
    ASSUME StreamTypeOK, NEW i \in Blocks, HandOn(i)
    PROVE  Becomes(i, block[i].named, block[i].args, block[i].args, block[i].started,
                   block[i].stopped)
BY BlockType DEF StreamTypeOK, HandOn, Becomes, BlockState

LEMMA StopBlockMakes ==
    ASSUME StreamTypeOK, NEW i \in Blocks, StopBlock(i)
    PROVE  Becomes(i, block[i].named, block[i].args, block[i].emitted, block[i].started, TRUE)
BY BlockType DEF StreamTypeOK, StopBlock, Becomes, BlockState

LEMMA TakeUpMakes ==
    ASSUME StreamTypeOK, NEW d \in todo, TakeUp(d)
    PROVE  LET i == d.index IN
             /\ i \in Blocks /\ d.name \in BOOLEAN /\ d.piece \in 0..1
             /\ Becomes(i, block[i].named \/ d.name, block[i].args + d.piece,
                        block[i].emitted, block[i].started, block[i].stopped)
<1> DEFINE i == d.index
<1>1. i \in Blocks /\ d.name \in BOOLEAN /\ d.piece \in 0..1
  BY DEF StreamTypeOK, Delta
<1>2. block \in [Blocks -> BlockState] /\ block' = [block EXCEPT ![i] = Applied(block[i], d)]
  BY DEF StreamTypeOK, TakeUp
<1> HIDE DEF i
<1>3. /\ block[i] \in BlockState
      /\ (block[i].named \/ d.name) \in BOOLEAN /\ block[i].args + d.piece \in Nat
  BY <1>1, <1>2, BlockType
<1>4. Applied(block[i], d) = [named |-> block[i].named \/ d.name,
                              args |-> block[i].args + d.piece, emitted |-> block[i].emitted,
                              started |-> block[i].started, stopped |-> block[i].stopped]
  <2> DEFINE b == block[i]
             named == b.named \/ d.name
             args == b.args + d.piece
  <2>1. b \in BlockState /\ named \in BOOLEAN /\ args \in Nat
    BY <1>3
  <2>2. Applied(b, d) = [b EXCEPT !.named = named, !.args = args]
    BY DEF Applied
  <2> HIDE DEF b, named, args
  <2>3. Applied(b, d) = [named |-> named, args |-> args, emitted |-> b.emitted,
                         started |-> b.started, stopped |-> b.stopped]
    BY <2>1, <2>2 DEF BlockState
  <2> QED BY <2>3 DEF b, named, args
<1>5. Becomes(i, block[i].named \/ d.name, block[i].args + d.piece,
              block[i].emitted, block[i].started, block[i].stopped)
  BY <1>1, <1>2, <1>3, <1>4 DEF Becomes, BlockState
<1> QED BY <1>1, <1>5 DEF i

\* What the reader keeps and hands on is of its type.
LEMMA ReadTypes ==
    ASSUME StreamTypeOK, NEW i \in Blocks, StartBlock(i) \/ HandOn(i) \/ StopBlock(i)
    PROVE  /\ events' \in Seq(EventKind) /\ open' \in SUBSET Calls
           /\ gathered' \in [Calls -> Seq(Nat)] /\ out' \in Seq(Content)
<1>1. /\ open \in SUBSET Calls /\ gathered \in [Calls -> Seq(Nat)] /\ out \in Seq(Content)
      /\ events \in Seq(EventKind) /\ block[i].args \in Nat /\ block[i].emitted \in Nat
      /\ block[0].args \in Nat /\ <<>> \in Seq(Nat)
      /\ i # 0 <=> i \in Calls
  BY EventTypes, BlockType DEF StreamTypeOK
<1>2. Meant(i) \subseteq Calls
  BY <1>1 DEF Meant
<1>3. CASE StartBlock(i)
  <2>1. Event("start", i, <<>>) \in EventKind
    BY <1>1 DEF Event, EventKind
  <2>2. events' = Append(events, Event("start", i, <<>>)) /\ ReadStart(i)
    BY <1>3 DEF StartBlock
  <2>3. events' \in Seq(EventKind)
    BY <1>1, <2>1, <2>2
  <2>4. CASE i = 0
    BY <1>1, <2>2, <2>3, <2>4 DEF ReadStart, reading
  <2>5. CASE i # 0
    <3>1. /\ open' = IF reader = "server" THEN {i} ELSE open \cup {i}
          /\ gathered' = [gathered EXCEPT ![i] = <<>>] /\ out' = out
      BY <2>2, <2>5 DEF ReadStart
    <3>2. open' \in SUBSET Calls
      BY <1>1, <2>5, <3>1
    <3>3. gathered' \in [Calls -> Seq(Nat)]
      BY <1>1, <3>1
    <3> QED BY <1>1, <2>3, <3>1, <3>2, <3>3
  <2> QED BY <2>4, <2>5
<1>4. CASE HandOn(i)
  <2> DEFINE p == Pieces(block[i].emitted, block[i].args)
  <2>1. p \in Seq(Nat)
    BY <1>1, <1>4, PiecesType DEF HandOn, CanHandOn
  <2>2. Event("delta", i, p) \in EventKind /\ Text(block[0].args) \in Content
    BY <1>1, <2>1 DEF Event, EventKind, Text, Content
  <2>3. events' = Append(events, Event("delta", i, p)) /\ ReadDelta(i, p)
    BY <1>4 DEF HandOn
  <2> HIDE DEF p
  <2>6. events' \in Seq(EventKind)
    BY <1>1, <2>2, <2>3
  <2>4. CASE i = 0
    <3>1. out' = Append(out, Text(block[0].args)) /\ UNCHANGED <<open, gathered>>
      BY <2>3, <2>4 DEF ReadDelta
    <3>2. out' \in Seq(Content)
      BY <1>1, <2>2, <3>1
    <3> QED BY <1>1, <2>6, <3>1, <3>2
  <2>5. CASE i # 0
    <3>1. \A j \in Calls : gathered[j] \o p \in Seq(Nat)
      BY <1>1, <2>1
    <3>2. gathered' \in [Calls -> Seq(Nat)] /\ UNCHANGED <<open, out>>
      BY <1>1, <2>3, <2>5, <3>1 DEF ReadDelta
    <3> QED BY <1>1, <2>6, <3>2
  <2> QED BY <2>4, <2>5
<1>5. CASE StopBlock(i)
  <2>1. Event("stop", i, <<>>) \in EventKind
    BY <1>1 DEF Event, EventKind
  <2>2. events' = Append(events, Event("stop", i, <<>>)) /\ ReadStop(i)
    BY <1>5 DEF StopBlock
  <2>3. events' \in Seq(EventKind)
    BY <1>1, <2>1, <2>2
  <2>4. CASE UNCHANGED reading
    BY <1>1, <2>3, <2>4 DEF reading
  <2>5. ASSUME NEW j \in Meant(i),
               open' = open \ {j}, gathered' = [gathered EXCEPT ![j] = <<>>],
               out' = Append(out, Use(j, gathered[j]))
        PROVE  open' \in SUBSET Calls /\ gathered' \in [Calls -> Seq(Nat)] /\ out' \in Seq(Content)
    <3>1. j \in Calls /\ j \in Nat /\ gathered[j] \in Seq(Nat)
      BY <1>1, <1>2, EventTypes
    <3>2. Use(j, gathered[j]) \in Content
      BY <3>1 DEF Use, Content
    <3>3. out' \in Seq(Content)
      BY <1>1, <2>5, <3>2
    <3>4. gathered' \in [Calls -> Seq(Nat)]
      BY <1>1, <2>5
    <3> QED BY <1>1, <2>5, <3>3, <3>4
  <2> QED BY <2>2, <2>3, <2>4, <2>5 DEF ReadStop
<1> QED BY <1>3, <1>4, <1>5

\* An event of a block changes nothing but the block, the events and the reader.
Emits(i) ==
    /\ StartBlock(i) \/ HandOn(i) \/ StopBlock(i)
    /\ UNCHANGED <<request, stage, heard, todo, at>>

LEMMA EmitTypes ==
    ASSUME StreamTypeOK, NEW i \in Blocks, Emits(i)
    PROVE  StreamTypeOK'
<1>1. block' \in [Blocks -> BlockState]
  BY StartBlockMakes, HandOnMakes, StopBlockMakes DEF Emits, Becomes
<1>2. /\ events' \in Seq(EventKind) /\ open' \in SUBSET Calls
      /\ gathered' \in [Calls -> Seq(Nat)] /\ out' \in Seq(Content)
  BY ReadTypes DEF Emits
<1> QED BY <1>1, <1>2 DEF StreamTypeOK, Emits, request, heard

\* Every step is one of these.
LEMMA StreamSteps ==
    ASSUME StreamTypeOK, [StreamNext]_streamVars
    PROVE  \/ UNCHANGED <<stage, heard, block, todo, at, events, reading, whole, reader>>
           \/ SendFails \/ StreamOpens \/ WholeAnswer \/ StreamEnds \/ Build \/ StreamBreaks
           \/ \E chunk \in Chunk : ChunkArrives(chunk)
           \/ \E d \in todo : TakeUp(d)
           \/ stage = "streaming" /\ Emits(at) /\ (StopBlock(at) => Stoppable(at))
           \/ \E i \in Blocks : stage = "streaming" /\ Emits(i) /\ StopBlock(i) /\ StopStarted(i)
           \/ \E i \in Blocks : stage = "finishing" /\ Emits(i)
<1>1. CASE UNCHANGED streamVars
  BY <1>1 DEF streamVars, request
<1>2. CASE SendRetried
  BY <1>2 DEF SendRetried
<1>3. CASE Ingest
  <2>1. StopBlock(at) /\ ~Stoppable(at) => ~CanStart(at) /\ ~CanHandOn(at)
    BY BlockType DEF StopBlock, CanStop, CanStart, StreamTypeOK
  <2> QED BY <1>3, <2>1 DEF Ingest, Emits, StartBlock, HandOn
<1>4. ASSUME NEW i \in Blocks, StopStarted(i)
      PROVE  stage = "streaming" /\ Emits(i) /\ StopBlock(i)
  BY <1>4 DEF StopStarted, Emits
<1>5. ASSUME NEW i \in Blocks, Finish(i)
      PROVE  stage = "finishing" /\ Emits(i)
  BY <1>5 DEF Finish, Emits
<1> QED BY <1>1, <1>2, <1>3, <1>4, <1>5 DEF StreamNext

LEMMA StreamInitTypes == StreamInit => StreamTypeOK
<1> SUFFICES ASSUME StreamInit PROVE StreamTypeOK
  OBVIOUS
<1>1. Unsaid \in Said /\ NewBlock \in BlockState
  BY DEF Unsaid, NewBlock, Said, BlockState
<1>2. said \in [Blocks -> Said] /\ block \in [Blocks -> BlockState]
  BY <1>1 DEF StreamInit
<1>3. events \in Seq(EventKind) /\ out \in Seq(Content) /\ <<>> \in Seq(Nat)
  BY DEF StreamInit
<1>4. gathered \in [Calls -> Seq(Nat)]
  BY <1>3 DEF StreamInit
<1> QED BY <1>2, <1>3, <1>4, EventTypes DEF StreamInit, StreamTypeOK, Reasons

LEMMA StreamTypeStep ==
    ASSUME StreamTypeOK, [StreamNext]_streamVars
    PROVE  StreamTypeOK'
<1>1. CASE UNCHANGED <<stage, heard, block, todo, at, events, reading, whole, reader>>
  BY <1>1 DEF StreamTypeOK, heard, reading
<1>2. CASE SendFails \/ StreamOpens \/ WholeAnswer \/ StreamEnds \/ StreamBreaks
  BY <1>2 DEF StreamTypeOK, SendFails, StreamOpens, WholeAnswer, StreamEnds, StreamBreaks,
              request, heard, reading
<1>3. CASE Build
  <2>1. Event("end", 0, <<>>) \in EventKind
    BY EventTypes DEF Event, EventKind
  <2>2. events' = events \/ events' = Append(events, Event("end", 0, <<>>))
    BY <1>3 DEF Build
  <2>3. events \in Seq(EventKind)
    BY DEF StreamTypeOK
  <2>4. events' \in Seq(EventKind)
    BY <2>1, <2>2, <2>3
  <2> QED BY <1>3, <2>4 DEF StreamTypeOK, Build, heard, reading
<1>4. ASSUME NEW chunk \in Chunk, ChunkArrives(chunk)
      PROVE  StreamTypeOK'
  <2>1. chunk.deltas \in SUBSET Delta /\ chunk.reason \in Reasons
    BY DEF Chunk
  <2>2. \A i \in Blocks : Brought(chunk.deltas, i) \in Nat
    BY DEF Brought
  <2>3. said' \in [Blocks -> Said]
    BY <1>4, <2>2 DEF ChunkArrives, StreamTypeOK, Said
  <2> QED BY <1>4, <2>1, <2>3, EventTypes DEF StreamTypeOK, ChunkArrives, request, reading
<1>5. ASSUME NEW d \in todo, TakeUp(d)
      PROVE  StreamTypeOK'
  <2>1. d.index \in Blocks /\ block' \in [Blocks -> BlockState]
    BY <1>5, TakeUpMakes DEF Becomes
  <2> QED BY <1>5, <2>1 DEF StreamTypeOK, TakeUp, request, heard, reading
<1>6. ASSUME NEW i \in Blocks, Emits(i)
      PROVE  StreamTypeOK'
  BY <1>6, EmitTypes
<1>7. at \in Blocks
  BY DEF StreamTypeOK
<1> QED BY <1>1, <1>2, <1>3, <1>4, <1>5, <1>6, <1>7, StreamSteps

\* What the request, the stream and its readers hold is of their types.
THEOREM StreamTypes == StreamSpec => []StreamTypeOK
<1>1. StreamTypeOK /\ [StreamNext]_streamVars => StreamTypeOK'
  BY StreamTypeStep
<1> QED BY <1>1, StreamInitTypes, PTL DEF StreamSpec

\* The blocks and what was said of them after each kind of step.
LEMMA EmitSound ==
    ASSUME StreamTypeOK, StreamInv, NEW i \in Blocks, Emits(i),
           stage \in {"streaming", "finishing"},
           stage = "streaming" /\ StopBlock(i) => Stoppable(i) /\ (i = at \/ todo = {})
    PROVE  StreamInv'
<1>1. /\ \A j \in Blocks : BlockSound(j) /\ Taken(j) /\ InOrder(j)
      /\ \A j \in Blocks : block[j].args \in Nat /\ block[j].emitted \in Nat
      /\ block[i].started \in BOOLEAN /\ block[i].stopped \in BOOLEAN
      /\ UNCHANGED <<request, stage, said, reason, begun, todo, at>>
      /\ 0 \in Blocks
  BY BlockType, EventTypes DEF StreamInv, StreamTypeOK, Emits, heard
<1>2. /\ StartBlock(i) => CanStart(i) /\ Becomes(i, block[i].named, block[i].args,
                                            block[i].emitted, TRUE, block[i].stopped)
      /\ HandOn(i) => CanHandOn(i) /\ Becomes(i, block[i].named, block[i].args,
                                          block[i].args, block[i].started, block[i].stopped)
      /\ StopBlock(i) => CanStop(i) /\ Becomes(i, block[i].named, block[i].args,
                                           block[i].emitted, block[i].started, TRUE)
  BY StartBlockMakes, HandOnMakes, StopBlockMakes DEF StartBlock, HandOn, StopBlock
<1>3. StopBlock(i) => \A d \in todo : d.index # i
  BY <1>1 DEF StreamInv, Stoppable
<1>4. /\ \A j \in Blocks : j # i => block'[j] = block[j]
      /\ block'[i].named = block[i].named /\ block'[i].args = block[i].args
      /\ block'[i].started \in BOOLEAN
  BY <1>1, <1>2 DEF Emits, Becomes
<1>5. ASSUME NEW j \in Blocks
      PROVE  BlockSound(j)'
  <2>1. CASE j # i
    BY <1>1, <1>4, <2>1 DEF BlockSound
  <2>2. CASE j = i /\ StartBlock(i)
    BY <1>1, <1>2, <2>2 DEF BlockSound, CanStart, Becomes
  <2>3. CASE j = i /\ HandOn(i)
    BY <1>1, <1>2, <2>3 DEF BlockSound, CanHandOn, Becomes
  <2>4. CASE j = i /\ StopBlock(i)
    BY <1>1, <1>2, <2>4 DEF BlockSound, CanStop, CanHandOn, Becomes
  <2> QED BY <2>1, <2>2, <2>3, <2>4 DEF Emits
<1>6. ASSUME NEW j \in Blocks
      PROVE  Taken(j)'
  <2>1. block'[j].named = block[j].named /\ block'[j].args = block[j].args
    BY <1>4
  <2>2. (\E d \in todo : d.index = j) /\ block'[j].stopped => block[j].stopped
    BY <1>2, <1>3, <1>4 DEF Emits, Becomes
  <2> QED BY <1>1, <2>1, <2>2 DEF Taken
<1>7. ASSUME NEW j \in Blocks
      PROVE  InOrder(j)'
  <2>1. CASE j # i
    BY <1>1, <1>4, <2>1 DEF InOrder, CanStart, CanHandOn
  <2>2. CASE j = i /\ StartBlock(i)
    BY <1>1, <1>2, <2>2 DEF InOrder, CanStart, CanHandOn, Becomes
  <2>3. CASE j = i /\ HandOn(i)
    BY <1>1, <1>2, <2>3 DEF InOrder, CanStart, CanHandOn, Becomes
  <2>4. CASE j = i /\ StopBlock(i)
    BY <1>1, <1>2, <2>4 DEF InOrder, CanStart, CanHandOn, CanStop, Becomes, Stoppable
  <2> QED BY <2>1, <2>2, <2>3, <2>4 DEF Emits
<1>8. TextSound'
  <2>1. block'[0].emitted \in {block[0].emitted, block[0].args}
    BY <1>1, <1>2, <1>4 DEF Emits, Becomes
  <2>2. block'[0].named = block[0].named /\ block'[0].args = block[0].args
    BY <1>1, <1>4
  <2> QED BY <1>1, <2>1, <2>2 DEF StreamInv, TextSound
<1>9. /\ (\A d, e \in todo : d.index = e.index => d = e)'
      /\ (\A d \in todo : d.index = at => at = 0)'
      /\ (stage \notin {"streaming", "failed"} => todo = {})'
      /\ stage' \notin {"sending", "message"}
  BY <1>1 DEF StreamInv
<1> QED BY <1>5, <1>6, <1>7, <1>8, <1>9 DEF StreamInv

LEMMA ArrivalSound ==
    ASSUME StreamTypeOK, StreamInv, NEW chunk \in Chunk, ChunkArrives(chunk)
    PROVE  StreamInv'
<1>1. /\ \A j \in Blocks : BlockSound(j) /\ Taken(j) /\ InOrder(j)
      /\ \A j \in Blocks : block[j].args \in Nat /\ block[j].emitted \in Nat
      /\ \A j \in Blocks : block[j].named \in BOOLEAN
      /\ stage = "streaming" /\ reason = "none" /\ todo = {} /\ ~AtWork
      /\ UNCHANGED <<request, stage, block>>
      /\ at' = 0 /\ todo' = chunk.deltas
      /\ \A j \in Blocks : said[j].args = block[j].args /\ said[j].named = block[j].named
  BY BlockType DEF StreamInv, StreamTypeOK, ChunkArrives, Taken, Idle
<1>2. /\ \A d \in chunk.deltas : d.name \in BOOLEAN /\ d.piece \in 0..1 /\ d.index \in Blocks
      /\ \A d, e \in chunk.deltas : d.index = e.index => d = e
  BY DEF Chunk, Delta
<1>3. \A j \in Blocks : /\ ~CanStart(j) /\ ~CanHandOn(j) /\ ~block[j].stopped
  BY <1>1 DEF InOrder, AtWork
<1>4. ASSUME NEW j \in Blocks
      PROVE  /\ said'[j].named = (said[j].named \/ \E d \in chunk.deltas : d.index = j /\ d.name)
             /\ said'[j].args = said[j].args + Brought(chunk.deltas, j)
  BY DEF ChunkArrives
<1>5. ASSUME NEW j \in Blocks
      PROVE  Taken(j)'
  <2>1. CASE \A d \in chunk.deltas : d.index # j
    <3>1. Brought(chunk.deltas, j) = 0
      BY <2>1 DEF Brought
    <3>2. said'[j].named = block[j].named /\ said'[j].args = block[j].args
      BY <1>1, <1>4, <2>1, <3>1
    <3> QED BY <1>1, <2>1, <3>2 DEF Taken
  <2>2. ASSUME NEW d \in chunk.deltas, d.index = j
        PROVE  Taken(j)'
    <3>1. \A e \in chunk.deltas : e.index = j <=> e = d
      BY <1>2, <2>2
    <3>2. Brought(chunk.deltas, j) = d.piece
      BY <1>2, <3>1 DEF Brought
    <3>3. (\E e \in chunk.deltas : e.index = j /\ e.name) <=> d.name
      BY <3>1
    <3>4. said'[j].named = (block[j].named \/ d.name)
      BY <1>1, <1>2, <1>4, <3>3
    <3>5. said'[j].args = block[j].args + d.piece
      BY <1>1, <1>4, <3>2
    <3> QED BY <1>1, <1>3, <3>1, <3>4, <3>5 DEF Taken
  <2> QED BY <2>1, <2>2
<1>6. \A j \in Blocks : BlockSound(j)' /\ InOrder(j)'
  BY <1>1, <1>3 DEF BlockSound, InOrder, CanStart, CanHandOn
<1>7. TextSound'
  BY <1>1 DEF TextSound, StreamInv
<1> QED BY <1>1, <1>2, <1>5, <1>6, <1>7 DEF StreamInv

LEMMA TakeUpSound ==
    ASSUME StreamTypeOK, StreamInv, NEW d \in todo, TakeUp(d)
    PROVE  StreamInv'
<1> DEFINE i == d.index
<1>1. /\ i \in Blocks /\ d.name \in BOOLEAN /\ d.piece \in 0..1
      /\ i = 0 => d.name /\ d.piece = 1
      /\ Becomes(i, block[i].named \/ d.name, block[i].args + d.piece,
                 block[i].emitted, block[i].started, block[i].stopped)
      /\ at' = i /\ todo' = todo \ {d} /\ stage = "streaming" /\ ~AtWork
      /\ UNCHANGED <<request, stage, said, reason, begun>>
  BY TakeUpMakes DEF TakeUp, heard, StreamTypeOK, Delta
<1>2. /\ \A j \in Blocks : BlockSound(j) /\ Taken(j) /\ InOrder(j)
      /\ \A j \in Blocks : block[j].args \in Nat /\ block[j].emitted \in Nat
      /\ \A e \in todo : e.index = i => e = d
      /\ 0 \in Blocks /\ at \in Blocks /\ ~block[i].stopped
      /\ said[i].named = (block[i].named \/ d.name)
      /\ said[i].args = block[i].args + d.piece
  BY <1>1, BlockType, EventTypes DEF StreamInv, StreamTypeOK, Taken
<1> HIDE DEF i
<1>3. \A j \in Blocks : ~CanStart(j) /\ ~CanHandOn(j)
  BY <1>1, <1>2 DEF InOrder, AtWork
<1>4. ASSUME NEW j \in Blocks
      PROVE  BlockSound(j)' /\ InOrder(j)'
  <2>1. CASE j # i
    BY <1>1, <1>2, <1>3, <2>1 DEF BlockSound, InOrder, CanStart, CanHandOn, Becomes
  <2>2. CASE j = i
    <3>1. /\ block'[i].args = block[i].args + d.piece /\ block'[i].emitted = block[i].emitted
          /\ block'[i].started = block[i].started /\ block'[i].stopped = block[i].stopped
          /\ block[i].named => block'[i].named
      BY <1>1 DEF Becomes
    <3>2. BlockSound(i)'
      BY <1>1, <1>2, <3>1 DEF BlockSound
    <3>3. InOrder(i)'
      BY <1>1, <1>2, <3>1 DEF InOrder
    <3> QED BY <2>2, <3>2, <3>3
  <2> QED BY <2>1, <2>2
<1>5. ASSUME NEW j \in Blocks
      PROVE  Taken(j)'
  <2>1. CASE j # i
    <3>1. block'[j] = block[j]
      BY <1>1, <2>1 DEF Becomes
    <3>2. \A e \in todo : e.index = j => e \in todo'
      BY <1>1, <2>1 DEF i
    <3> QED BY <1>1, <1>2, <3>1, <3>2 DEF Taken
  <2>2. CASE j = i
    <3>1. \A e \in todo' : e.index # i
      BY <1>1, <1>2
    <3>2. said'[i].named = block'[i].named /\ said'[i].args = block'[i].args
      BY <1>1, <1>2 DEF Becomes
    <3> QED BY <2>2, <3>1, <3>2 DEF Taken
  <2> QED BY <2>1, <2>2
<1>6. TextSound'
  <2>1. CASE i = 0
    <3>1. block[0].args <= block[0].emitted
      BY <1>2, <1>3 DEF CanStart, CanHandOn, StreamInv, TextSound
    <3> QED BY <1>1, <1>2, <2>1, <3>1 DEF TextSound, Becomes
  <2>2. CASE i # 0
    BY <1>1, <1>2, <2>2 DEF TextSound, Becomes, StreamInv
  <2> QED BY <2>1, <2>2
<1>7. \A e \in todo' : e.index = at' => at' = 0
  BY <1>1, <1>2
<1> QED BY <1>1, <1>4, <1>5, <1>6, <1>7 DEF StreamInv

LEMMA StreamInvStep ==
    ASSUME StreamTypeOK, StreamInv, [StreamNext]_streamVars
    PROVE  StreamInv'
<1>1. CASE UNCHANGED <<stage, heard, block, todo, at, events, reading, whole, reader>>
  BY <1>1 DEF StreamInv, heard, BlockSound, Taken, InOrder, TextSound, CanStart, CanHandOn,
              CanStop, Unfinished
<1>2. CASE SendFails \/ StreamOpens \/ WholeAnswer \/ StreamEnds \/ Build \/ StreamBreaks
  <2>1. UNCHANGED <<said, reason, block, todo, at>>
    BY <1>2 DEF SendFails, StreamOpens, WholeAnswer, StreamEnds, Build, StreamBreaks, heard
  <2>2. \A j \in Blocks : BlockSound(j)' /\ Taken(j)'
    BY <2>1 DEF StreamInv, BlockSound, Taken
  <2>3. TextSound' /\ (\A d, e \in todo : d.index = e.index => d = e)'
        /\ (\A d \in todo : d.index = at => at = 0)'
    BY <2>1 DEF StreamInv, TextSound
  <2>4. \A j \in Blocks : InOrder(j)'
    <3> SUFFICES ASSUME NEW j \in Blocks PROVE InOrder(j)'
      OBVIOUS
    <3>1. (CanStart(j) <=> CanStart(j)') /\ (CanHandOn(j) <=> CanHandOn(j)')
      BY <2>1 DEF CanStart, CanHandOn
    <3>2. CASE stage' = "failed"
      BY <3>2 DEF InOrder
    <3>3. CASE StreamOpens
      BY <2>1, <3>1, <3>3 DEF StreamInv, InOrder, StreamOpens
    <3>4. CASE StreamEnds
      BY <2>1, <3>1, <3>4 DEF StreamInv, InOrder, StreamEnds, Idle, AtWork
    <3>5. CASE (WholeAnswer \/ Build) /\ stage' # "failed"
      BY <2>1, <3>1, <3>5 DEF StreamInv, InOrder, WholeAnswer, Build
    <3> QED BY <1>2, <3>2, <3>3, <3>4, <3>5 DEF SendFails, StreamBreaks
  <2>5. (stage \notin {"streaming", "failed"} => todo = {})'
    BY <1>2, <2>1 DEF StreamInv, SendFails, StreamOpens, WholeAnswer, StreamEnds, Build,
                      StreamBreaks, Idle
  <2>6. (stage = "sending" /\ ~whole => \A i \in Blocks : ~block[i].stopped)'
    BY <1>2 DEF SendFails, StreamOpens, WholeAnswer, StreamEnds, Build, StreamBreaks
  <2>7. (stage = "message" /\ ~whole => \A i \in Blocks : ~Unfinished(i))'
    <3>1. \A i \in Blocks : Unfinished(i) <=> Unfinished(i)'
      BY <2>1 DEF Unfinished, CanStart, CanHandOn, CanStop
    <3>2. CASE Build
      BY <3>1, <3>2 DEF Build
    <3>3. CASE ~Build
      BY <1>2, <3>3 DEF SendFails, StreamOpens, WholeAnswer, StreamEnds, StreamBreaks, request
    <3> QED BY <3>2, <3>3
  <2> QED BY <2>2, <2>3, <2>4, <2>5, <2>6, <2>7 DEF StreamInv
<1>3. ASSUME stage = "streaming", Emits(at), StopBlock(at) => Stoppable(at)
      PROVE  StreamInv'
  BY <1>3, EmitSound DEF StreamTypeOK
<1>4. ASSUME NEW i \in Blocks, stage = "streaming", Emits(i), StopStarted(i)
      PROVE  StreamInv'
  BY <1>4, EmitSound DEF StopStarted
<1>5. ASSUME NEW i \in Blocks, stage = "finishing", Emits(i)
      PROVE  StreamInv'
  BY <1>5, EmitSound
<1> QED BY <1>1, <1>2, <1>3, <1>4, <1>5, ArrivalSound, TakeUpSound, StreamSteps

LEMMA StreamInvInit == StreamInit => StreamInv
BY EventTypes DEF StreamInit, StreamInv, BlockSound, Taken, InOrder, TextSound, CanStart,
                  CanHandOn, NewBlock, Unsaid

LEMMA StreamInvAlways == StreamSpec => [](StreamTypeOK /\ StreamInv)
<1>1. StreamTypeOK /\ StreamInv /\ [StreamNext]_streamVars => (StreamTypeOK /\ StreamInv)'
  BY StreamTypeStep, StreamInvStep
<1> QED BY <1>1, StreamInitTypes, StreamInvInit, PTL DEF StreamSpec

-----------------------------------------------------------------------------
(***************************************************************************)
(* The events.                                                             *)
(***************************************************************************)

Marked(s, k, kind, i) == s[k].kind = kind /\ s[k].i = i

\* BlocksAreBracketed, of one event of a sequence.
Bracketed(s, k) ==
    /\ s[k].kind = "start" => \A l \in 1..(k - 1) : ~Marked(s, l, "start", s[k].i)
    /\ s[k].kind \in {"delta", "stop"} =>
         /\ \E l \in 1..(k - 1) : Marked(s, l, "start", s[k].i)
         /\ \A l \in 1..(k - 1) : ~Marked(s, l, "stop", s[k].i)
    /\ s[k].kind = "end" =>
         \A l \in 1..k : s[l].kind = "start" => \E n \in l..k : Marked(s, n, "stop", s[l].i)

LEMMA BracketedAll == BlocksAreBracketed <=> \A k \in DOMAIN events : Bracketed(events, k)
BY DEF BlocksAreBracketed, Bracketed, Marked

\* An event is in its place after those that went before.
LEMMA BracketAppend ==
    ASSUME NEW s \in Seq(EventKind), NEW e \in EventKind,
           \A k \in DOMAIN s : Bracketed(s, k),
           e.kind = "start" => \A l \in DOMAIN s : ~Marked(s, l, "start", e.i),
           e.kind \in {"delta", "stop"} =>
             /\ \E l \in DOMAIN s : Marked(s, l, "start", e.i)
             /\ \A l \in DOMAIN s : ~Marked(s, l, "stop", e.i),
           e.kind = "end" => \A l \in DOMAIN s : s[l].kind = "start" =>
                               \E n \in DOMAIN s : Marked(s, n, "stop", s[l].i)
    PROVE  \A k \in DOMAIN Append(s, e) : Bracketed(Append(s, e), k)
<1> DEFINE t == Append(s, e)
<1>1. /\ Len(s) \in Nat /\ DOMAIN s = 1..Len(s) /\ DOMAIN t = 1..(Len(s) + 1)
      /\ t[Len(s) + 1] = e /\ \A k \in 1..Len(s) : t[k] = s[k]
  OBVIOUS
<1> HIDE DEF t
<1>2. ASSUME NEW k \in 1..Len(s)
      PROVE  Bracketed(t, k)
  <2>1. Bracketed(s, k) /\ \A l \in 1..k : t[l] = s[l]
    BY <1>1
  <2> QED BY <1>1, <2>1 DEF Bracketed, Marked
<1>3. Bracketed(t, Len(s) + 1)
  <2> DEFINE k == Len(s) + 1
  <2>1. t[k] = e /\ 1..(k - 1) = DOMAIN s /\ \A l \in DOMAIN s : t[l] = s[l]
    BY <1>1
  <2>2. e.kind = "start" => \A l \in 1..(k - 1) : ~Marked(t, l, "start", e.i)
    BY <2>1 DEF Marked
  <2>3. e.kind \in {"delta", "stop"} =>
          /\ \E l \in 1..(k - 1) : Marked(t, l, "start", e.i)
          /\ \A l \in 1..(k - 1) : ~Marked(t, l, "stop", e.i)
    BY <2>1 DEF Marked
  <2>4. ASSUME e.kind = "end", NEW l \in 1..k, t[l].kind = "start"
        PROVE  \E n \in l..k : Marked(t, n, "stop", t[l].i)
    <3>1. l \in DOMAIN s /\ t[l] = s[l]
      BY <1>1, <2>1, <2>4
    <3>2. PICK n \in DOMAIN s : Marked(s, n, "stop", s[l].i)
      BY <2>4, <3>1
    <3>3. n >= l
      <4>1. Bracketed(s, n) /\ Bracketed(s, l) /\ n \in 1..Len(s) /\ l \in 1..Len(s)
        BY <1>1, <3>1
      <4>2. \E m \in 1..(n - 1) : Marked(s, m, "start", s[l].i)
        BY <3>2, <4>1 DEF Bracketed, Marked
      <4>3. \A m \in 1..(l - 1) : ~Marked(s, m, "start", s[l].i)
        BY <2>4, <3>1, <4>1 DEF Bracketed
      <4> QED BY <4>1, <4>2, <4>3
    <3>4. n \in l..k /\ t[n] = s[n]
      BY <1>1, <3>1, <3>3
    <3> QED BY <3>1, <3>2, <3>4 DEF Marked
  <2> QED BY <2>1, <2>2, <2>3, <2>4 DEF Bracketed
<1> QED BY <1>1, <1>2, <1>3 DEF t

\* What has started and stopped is what the events say.
Told(i, s, b) ==
    /\ b[i].started <=> \E k \in DOMAIN s : Marked(s, k, "start", i)
    /\ b[i].stopped <=> \E k \in DOMAIN s : Marked(s, k, "stop", i)

LEMMA EventsInvIs ==
    EventsInv <=> BlocksAreBracketed /\ \A i \in Blocks : Told(i, events, block)
BY DEF EventsInv, Told, Marked

LEMMA MarkedAppend ==
    ASSUME NEW s \in Seq(EventKind), NEW e \in EventKind, NEW kind, NEW i
    PROVE  (\E k \in DOMAIN Append(s, e) : Marked(Append(s, e), k, kind, i))
             <=> (\E k \in DOMAIN s : Marked(s, k, kind, i)) \/ (e.kind = kind /\ e.i = i)
<1> DEFINE t == Append(s, e)
<1>1. /\ Len(s) \in Nat /\ DOMAIN s = 1..Len(s) /\ DOMAIN t = 1..(Len(s) + 1)
      /\ t[Len(s) + 1] = e /\ \A k \in 1..Len(s) : t[k] = s[k]
  OBVIOUS
<1> HIDE DEF t
<1>2. \A k \in 1..Len(s) : Marked(t, k, kind, i) <=> Marked(s, k, kind, i)
  BY <1>1 DEF Marked
<1>3. Marked(t, Len(s) + 1, kind, i) <=> e.kind = kind /\ e.i = i
  BY <1>1 DEF Marked
<1>4. (\E k \in DOMAIN t : Marked(t, k, kind, i))
        <=> (\E k \in DOMAIN s : Marked(s, k, kind, i)) \/ (e.kind = kind /\ e.i = i)
  BY <1>1, <1>2, <1>3
<1> QED BY <1>4 DEF t

LEMMA EventsEmit ==
    ASSUME StreamTypeOK, StreamInv, EventsInv, NEW i \in Blocks, Emits(i)
    PROVE  EventsInv'
<1>1. /\ events \in Seq(EventKind) /\ <<>> \in Seq(Nat) /\ BlockSound(i)
      /\ block[i].emitted \in Nat /\ block[i].args \in Nat
      /\ BlocksAreBracketed /\ \A j \in Blocks : Told(j, events, block)
  BY BlockType, EventsInvIs DEF StreamTypeOK, StreamInv
<1>2. ASSUME NEW e \in EventKind, e.i = i, e.kind \in {"start", "delta", "stop"},
             events' = Append(events, e),
             e.kind = "start" => ~block[i].started,
             e.kind # "start" => block[i].started /\ ~block[i].stopped,
             \A j \in Blocks : j # i => block'[j] = block[j],
             block'[i].started <=> block[i].started \/ e.kind = "start",
             block'[i].stopped <=> block[i].stopped \/ e.kind = "stop"
      PROVE  EventsInv'
  <2>1. ASSUME NEW j \in Blocks
        PROVE  Told(j, events', block')
    <3>1. Told(j, events, block)
      BY <1>1
    <3>2. \A kind : (\E k \in DOMAIN events' : Marked(events', k, kind, j))
                     <=> (\E k \in DOMAIN events : Marked(events, k, kind, j))
                           \/ (e.kind = kind /\ e.i = j)
      BY <1>1, <1>2, MarkedAppend
    <3>3. CASE j # i
      BY <1>2, <3>1, <3>2, <3>3 DEF Told
    <3>4. CASE j = i
      <4>1. (\E k \in DOMAIN events' : Marked(events', k, "start", i)) <=> block'[i].started
        BY <1>2, <3>1, <3>2, <3>4 DEF Told
      <4>2. (\E k \in DOMAIN events' : Marked(events', k, "stop", i)) <=> block'[i].stopped
        BY <1>2, <3>1, <3>2, <3>4 DEF Told
      <4> QED BY <3>4, <4>1, <4>2 DEF Told
    <3> QED BY <3>3, <3>4
  <2>2. Told(i, events, block) /\ \A k \in DOMAIN events : Bracketed(events, k)
    BY <1>1, BracketedAll
  <2>3. \A k \in DOMAIN events' : Bracketed(events', k)
    <3>1. e.kind = "start" => \A l \in DOMAIN events : ~Marked(events, l, "start", e.i)
      BY <1>2, <2>2 DEF Told
    <3>2. e.kind \in {"delta", "stop"} =>
            /\ \E l \in DOMAIN events : Marked(events, l, "start", e.i)
            /\ \A l \in DOMAIN events : ~Marked(events, l, "stop", e.i)
      BY <1>2, <2>2 DEF Told
    <3> QED BY <1>1, <1>2, <2>2, <3>1, <3>2, BracketAppend
  <2>4. BlocksAreBracketed'
    BY <2>3 DEF BlocksAreBracketed, Bracketed, Marked
  <2> QED BY <2>1, <2>4 DEF EventsInv, Told, Marked
<1>3. CASE StartBlock(i)
  <2> DEFINE e == Event("start", i, <<>>)
  <2>1. e \in EventKind /\ e.i = i /\ e.kind = "start"
    BY <1>1 DEF Event, EventKind
  <2>2. Becomes(i, block[i].named, block[i].args, block[i].emitted, TRUE, block[i].stopped)
    BY <1>3, StartBlockMakes
  <2>3. events' = Append(events, e) /\ ~block[i].started
    BY <1>3 DEF StartBlock, CanStart
  <2> HIDE DEF e
  <2> QED BY <1>2, <2>1, <2>2, <2>3 DEF Becomes
<1>4. CASE HandOn(i)
  <2> DEFINE e == Event("delta", i, Pieces(block[i].emitted, block[i].args))
  <2>1. e \in EventKind /\ e.i = i /\ e.kind = "delta"
    BY <1>1, <1>4, PiecesType DEF Event, EventKind, HandOn, CanHandOn
  <2>2. Becomes(i, block[i].named, block[i].args, block[i].args, block[i].started,
                block[i].stopped)
    BY <1>4, HandOnMakes
  <2>3. events' = Append(events, e) /\ block[i].started /\ block[i].emitted < block[i].args
    BY <1>4 DEF HandOn, CanHandOn
  <2>4. ~block[i].stopped
    BY <1>1, <2>3 DEF BlockSound
  <2> HIDE DEF e
  <2> QED BY <1>2, <2>1, <2>2, <2>3, <2>4 DEF Becomes
<1>5. CASE StopBlock(i)
  <2> DEFINE e == Event("stop", i, <<>>)
  <2>1. e \in EventKind /\ e.i = i /\ e.kind = "stop"
    BY <1>1 DEF Event, EventKind
  <2>2. Becomes(i, block[i].named, block[i].args, block[i].emitted, block[i].started, TRUE)
    BY <1>5, StopBlockMakes
  <2>3. events' = Append(events, e) /\ block[i].started /\ ~block[i].stopped
    BY <1>5 DEF StopBlock, CanStop
  <2> HIDE DEF e
  <2> QED BY <1>2, <2>1, <2>2, <2>3 DEF Becomes
<1> QED BY <1>3, <1>4, <1>5 DEF Emits

LEMMA EventsInvStep ==
    ASSUME StreamTypeOK, StreamInv, EventsInv, [StreamNext]_streamVars
    PROVE  EventsInv'
<1>1. CASE UNCHANGED <<block, events>>
  BY <1>1 DEF EventsInv, BlocksAreBracketed
<1>2. CASE Build /\ begun
  <2> DEFINE e == Event("end", 0, <<>>)
  <2>1. e \in EventKind /\ e.kind = "end"
    BY EventTypes DEF Event, EventKind
  <2>2. events' = Append(events, e) /\ block' = block /\ \A i \in Blocks : ~Unfinished(i)
    BY <1>2 DEF Build
  <2> HIDE DEF e
  <2>3. /\ events \in Seq(EventKind) /\ \A k \in DOMAIN events : events[k].i \in Blocks
        /\ \A i \in Blocks : Told(i, events, block)
        /\ \A k \in DOMAIN events : Bracketed(events, k)
    <3>1. events \in Seq(EventKind)
      BY DEF StreamTypeOK
    <3>2. \A k \in DOMAIN events : events[k] \in EventKind
      BY <3>1
    <3> QED BY <3>1, <3>2, EventsInvIs, BracketedAll DEF EventKind
  <2>4. \A i \in Blocks : block[i].started => block[i].stopped
    BY <2>2 DEF Unfinished, CanHandOn, CanStop
  <2>5. \A l \in DOMAIN events : events[l].kind = "start" =>
          \E n \in DOMAIN events : Marked(events, n, "stop", events[l].i)
    BY <2>3, <2>4 DEF Told, Marked
  <2>6. \A k \in DOMAIN events' : Bracketed(events', k)
    BY <2>1, <2>2, <2>3, <2>5, BracketAppend
  <2>7. \A i \in Blocks : Told(i, events', block')
    <3>1. \A kind, i : (\E k \in DOMAIN events' : Marked(events', k, kind, i))
                     <=> (\E k \in DOMAIN events : Marked(events, k, kind, i))
                           \/ (e.kind = kind /\ e.i = i)
      BY <2>1, <2>2, <2>3, MarkedAppend
    <3> QED BY <2>1, <2>2, <2>3, <3>1 DEF Told
  <2> QED BY <2>6, <2>7 DEF EventsInv, BlocksAreBracketed, Bracketed, Told, Marked
<1>3. ASSUME NEW d \in todo, TakeUp(d)
      PROVE  EventsInv'
  <2>1. events' = events /\ \A j \in Blocks : /\ block'[j].started = block[j].started
                                              /\ block'[j].stopped = block[j].stopped
    BY <1>3, TakeUpMakes DEF TakeUp, Becomes
  <2> QED BY <2>1 DEF EventsInv, BlocksAreBracketed
<1>4. at \in Blocks
  BY DEF StreamTypeOK
<1> QED BY <1>1, <1>2, <1>3, <1>4, EventsEmit, StreamSteps
        DEF SendFails, StreamOpens, WholeAnswer, StreamEnds, Build, StreamBreaks, ChunkArrives

\* Blocks start once, stop once, hold what is between, and end before the message,
\* for any number of calls and pieces, whatever the order of the chunks.
THEOREM EventsAreBracketed == StreamSpec => []BlocksAreBracketed
<1>1. StreamInit => EventsInv
  BY DEF StreamInit, EventsInv, BlocksAreBracketed, NewBlock
<1>2. StreamTypeOK /\ StreamInv /\ EventsInv /\ [StreamNext]_streamVars => EventsInv'
  BY EventsInvStep
<1>3. EventsInv => BlocksAreBracketed
  BY DEF EventsInv
<1> QED BY <1>1, <1>2, <1>3, StreamInvAlways, PTL DEF StreamSpec

-----------------------------------------------------------------------------
(***************************************************************************)
(* The message.                                                            *)
(***************************************************************************)

\* What is in a sequence of content after one more entry.
LEMMA UsesAppend ==
    ASSUME NEW s \in Seq(Content), NEW m \in Content, NEW i
    PROVE  LET t == Append(s, m) IN
             /\ UsesOf(t, i) = UsesOf(s, i) \cup
                  (IF m.kind = "use" /\ m.n = i THEN {Len(s) + 1} ELSE {})
             /\ \A k \in UsesOf(s, i) : t[k] = s[k]
             /\ t[Len(s) + 1] = m /\ Len(s) + 1 \notin UsesOf(s, i)
<1> DEFINE t == Append(s, m)
<1>1. /\ Len(s) \in Nat /\ DOMAIN s = 1..Len(s) /\ DOMAIN t = 1..(Len(s) + 1)
      /\ t[Len(s) + 1] = m /\ \A k \in 1..Len(s) : t[k] = s[k]
  OBVIOUS
<1> HIDE DEF t
<1>2. /\ UsesOf(t, i) = UsesOf(s, i) \cup
                  (IF m.kind = "use" /\ m.n = i THEN {Len(s) + 1} ELSE {})
      /\ \A k \in UsesOf(s, i) : t[k] = s[k]
      /\ t[Len(s) + 1] = m /\ Len(s) + 1 \notin UsesOf(s, i)
  BY <1>1 DEF UsesOf
<1> QED BY <1>2 DEF t

TextOf(s, n) ==
    /\ \A p \in 1..n : \E k \in DOMAIN s : s[k] = Text(p)
    /\ \A k \in DOMAIN s : s[k].kind = "text" => s[k].n \in 1..n
    /\ \A k, l \in DOMAIN s :
         k < l /\ s[k].kind = "text" /\ s[l].kind = "text" => s[k].n < s[l].n

LEMMA TextAppend ==
    ASSUME NEW s \in Seq(Content), NEW m \in Content, NEW n \in Nat, TextOf(s, n)
    PROVE  /\ m = Text(n + 1) => TextOf(Append(s, m), n + 1)
           /\ m.kind = "use" => TextOf(Append(s, m), n)
<1> DEFINE t == Append(s, m)
<1>1. /\ Len(s) \in Nat /\ DOMAIN s = 1..Len(s) /\ DOMAIN t = 1..(Len(s) + 1)
      /\ t[Len(s) + 1] = m /\ \A k \in 1..Len(s) : t[k] = s[k]
  OBVIOUS
<1> HIDE DEF t
<1>2. ASSUME m.kind = "use"
      PROVE  TextOf(t, n)
  <2>1. \A k \in DOMAIN t : t[k].kind = "text" => k \in DOMAIN s /\ t[k] = s[k]
    BY <1>1, <1>2
  <2>2. \A p \in 1..n : \E k \in DOMAIN t : t[k] = Text(p)
    <3> SUFFICES ASSUME NEW p \in 1..n PROVE \E k \in DOMAIN t : t[k] = Text(p)
      OBVIOUS
    <3>1. PICK k \in DOMAIN s : s[k] = Text(p)
      BY DEF TextOf
    <3> QED BY <1>1, <3>1
  <2>3. \A k \in DOMAIN t : t[k].kind = "text" => t[k].n \in 1..n
    BY <2>1 DEF TextOf
  <2>4. \A k, l \in DOMAIN t :
          k < l /\ t[k].kind = "text" /\ t[l].kind = "text" => t[k].n < t[l].n
    BY <2>1 DEF TextOf
  <2> QED BY <2>2, <2>3, <2>4 DEF TextOf
<1>3. ASSUME m = Text(n + 1)
      PROVE  TextOf(t, n + 1)
  <2>1. m.kind = "text" /\ m.n = n + 1
    BY <1>3 DEF Text
  <2>2. ASSUME NEW p \in 1..(n + 1)
        PROVE  \E k \in DOMAIN t : t[k] = Text(p)
    <3>1. CASE p = n + 1
      BY <1>1, <1>3, <3>1
    <3>2. CASE p # n + 1
      <4>1. PICK k \in DOMAIN s : s[k] = Text(p)
        BY <3>2 DEF TextOf
      <4> QED BY <1>1, <4>1
    <3> QED BY <3>1, <3>2
  <2>3. \A k \in DOMAIN t : t[k].kind = "text" => t[k].n \in 1..(n + 1)
    BY <1>1, <2>1 DEF TextOf
  <2>4. ASSUME NEW k \in DOMAIN t, NEW l \in DOMAIN t, k < l,
               t[k].kind = "text", t[l].kind = "text"
        PROVE  t[k].n < t[l].n
    <3>1. k \in DOMAIN s
      BY <1>1, <2>4
    <3>2. t[k].n \in 1..n
      BY <1>1, <2>4, <3>1 DEF TextOf
    <3>3. CASE l = Len(s) + 1
      BY <1>1, <2>1, <3>2, <3>3
    <3>4. CASE l # Len(s) + 1
      BY <1>1, <2>4, <3>1, <3>4 DEF TextOf
    <3> QED BY <3>3, <3>4
  <2> QED BY <2>2, <2>3, <2>4 DEF TextOf
<1> QED BY <1>2, <1>3 DEF t

\* Two calls that have started are one, if the server hands on one only.
LEMMA OneStarted ==
    ASSUME StreamTypeOK, StreamInv, OneSlotWillDo, reader = "server",
           NEW i \in Calls, NEW j \in Calls, block[i].named, block[j].named
    PROVE  i = j
<1>1. i \in Blocks /\ j \in Blocks
  BY EventTypes
<1>2. ASSUME NEW l \in Blocks, block[l].named
      PROVE  said[l].named
  BY <1>2 DEF StreamInv, Taken
<1> QED BY <1>1, <1>2 DEF OneSlotWillDo, NamedCalls, StreamTypeOK

\* A block that has something to start or to hand on is not closed, nor is the text.
LEMMA AtWorkIsOpen ==
    ASSUME StreamTypeOK, StreamInv, NEW i \in Blocks, CanStart(i) \/ CanHandOn(i),
           stage \in {"streaming", "finishing"}
    PROVE  ~Closed(i) /\ ~block[0].stopped
<1>1. stage = "streaming" /\ BlockSound(i) /\ InOrder(0)
      /\ block[i].args \in Nat /\ block[i].emitted \in Nat
  BY EventTypes, BlockType DEF StreamInv, InOrder, StreamTypeOK
<1>2. ~block[0].stopped
  BY <1>1 DEF InOrder
<1>3. ~block[i].stopped
  BY <1>1 DEF BlockSound, CanStart, CanHandOn
<1> QED BY <1>2, <1>3 DEF Closed

LEMMA ReadIsOfSameBlocks ==
    ASSUME ReadInv, UNCHANGED <<reading, reader>>, OneSlotWillDo' => OneSlotWillDo,
           \A j \in Blocks : /\ block'[j].started = block[j].started
                             /\ block'[j].stopped = block[j].stopped
                             /\ block'[j].emitted = block[j].emitted
    PROVE  ReadInv'
<1>1. 0 \in Blocks /\ Calls \subseteq Blocks
  BY EventTypes
<1>2. TextRead'
  BY <1>1 DEF ReadInv, TextRead, reading
<1>3. ASSUME NEW j \in Calls, CallRead(j)
      PROVE  CallRead(j)'
  <2>1. Closed(j)' <=> Closed(j)
    BY <1>1 DEF Closed
  <2> QED BY <1>1, <1>3, <2>1 DEF CallRead, UsesOf, reading
<1> QED BY <1>2, <1>3 DEF ReadInv

\* CallRead, of values.
Read1(i, b, closed, o, g, s) ==
    /\ i \in o <=> b.started /\ ~closed
    /\ i \in o => g = Pieces(0, b.emitted)
    /\ UsesOf(s, i) # {} <=> b.started /\ closed
    /\ \A k \in UsesOf(s, i) : s[k].pieces = Pieces(0, b.emitted)
    /\ \A k, l \in UsesOf(s, i) : k = l

LEMMA CallReadIs == \A i \in Calls :
    /\ CallRead(i) <=> Read1(i, block[i], Closed(i), open, gathered[i], out)
    /\ CallRead(i)' <=> Read1(i, block'[i], Closed(i)', open', gathered'[i], out')
BY DEF CallRead, Read1, UsesOf

LEMMA TextReadIs == TextRead <=> TextOf(out, block[0].emitted)
BY DEF TextRead, TextOf

\* An event of text, of a start, or of the arguments adds what it says to the text.
LEMMA EmitText ==
    ASSUME StreamTypeOK, StreamInv, TextRead, NEW i \in Blocks, Emits(i)
    PROVE  TextRead'
<1>1. /\ out \in Seq(Content) /\ 0 \in Blocks /\ TextOf(out, block[0].emitted)
      /\ block[0].emitted \in Nat /\ block[0].args \in Nat
      /\ block[0].args <= block[0].emitted + 1
  BY EventTypes, BlockType, TextReadIs DEF StreamTypeOK, StreamInv, TextSound
<1>2. CASE StartBlock(i)
  <2>1. out' = out /\ block'[0].emitted = block[0].emitted
    BY <1>1, <1>2, StartBlockMakes DEF StartBlock, ReadStart, reading, Becomes
  <2> QED BY <1>1, <2>1 DEF TextRead, TextOf
<1>3. CASE HandOn(i) /\ i = 0
  <2>1. block[0].args = block[0].emitted + 1
    BY <1>1, <1>3 DEF HandOn, CanHandOn
  <2>2. out' = Append(out, Text(block[0].args)) /\ block'[0].emitted = block[0].args
    BY <1>3, HandOnMakes DEF HandOn, ReadDelta, Becomes
  <2>3. Text(block[0].args) \in Content
    BY <1>1 DEF Text, Content
  <2>4. TextOf(out', block'[0].emitted)
    BY <1>1, <2>1, <2>2, <2>3, TextAppend
  <2> QED BY <2>4 DEF TextRead, TextOf
<1>4. CASE HandOn(i) /\ i # 0
  <2>1. out' = out /\ block'[0].emitted = block[0].emitted
    BY <1>1, <1>4, HandOnMakes DEF HandOn, ReadDelta, Becomes
  <2> QED BY <1>1, <2>1 DEF TextRead, TextOf
<1>5. CASE StopBlock(i)
  <2>1. block'[0].emitted = block[0].emitted
    BY <1>1, <1>5, StopBlockMakes DEF Becomes
  <2>2. CASE out' = out
    BY <1>1, <2>1, <2>2 DEF TextRead, TextOf
  <2>3. ASSUME NEW j \in Calls, out' = Append(out, Use(j, gathered[j]))
        PROVE  TextRead'
    <3>1. Use(j, gathered[j]) \in Content /\ Use(j, gathered[j]).kind = "use"
      BY EventTypes DEF Use, Content, StreamTypeOK
    <3>2. TextOf(out', block'[0].emitted)
      BY <1>1, <2>1, <2>3, <3>1, TextAppend
    <3> QED BY <3>2 DEF TextRead, TextOf
  <2>4. Meant(i) \subseteq Calls
    BY DEF Meant, StreamTypeOK
  <2> QED BY <1>5, <2>2, <2>3, <2>4 DEF StopBlock, ReadStop, reading
<1> QED BY <1>2, <1>3, <1>4, <1>5 DEF Emits

\* A call is not disturbed by other content.
LEMMA NotUsed ==
    ASSUME NEW s \in Seq(Content), NEW m \in Content, NEW i, ~(m.kind = "use" /\ m.n = i)
    PROVE  /\ UsesOf(Append(s, m), i) = UsesOf(s, i)
           /\ \A k \in UsesOf(s, i) : Append(s, m)[k] = s[k]
<1> DEFINE t == Append(s, m)
<1>1. /\ Len(s) \in Nat /\ DOMAIN s = 1..Len(s) /\ DOMAIN t = 1..(Len(s) + 1)
      /\ t[Len(s) + 1] = m /\ \A k \in 1..Len(s) : t[k] = s[k]
  OBVIOUS
<1> HIDE DEF t
<1>2. UsesOf(t, i) = UsesOf(s, i) /\ \A k \in UsesOf(s, i) : t[k] = s[k]
  BY <1>1 DEF UsesOf
<1> QED BY <1>2 DEF t

\* A call is read as before if neither its block nor what is kept of it changes.
LEMMA CallReadSame ==
    ASSUME NEW j \in Calls, CallRead(j), out \in Seq(Content),
           block'[j] = block[j], Closed(j)' <=> Closed(j),
           j \in open' <=> j \in open, gathered'[j] = gathered[j],
           \/ out' = out
           \/ \E m \in Content : out' = Append(out, m) /\ ~(m.kind = "use" /\ m.n = j)
    PROVE  CallRead(j)'
<1>1. UsesOf(out', j) = UsesOf(out, j) /\ \A k \in UsesOf(out, j) : out'[k] = out[k]
  BY NotUsed
<1>2. Read1(j, block'[j], Closed(j)', open', gathered'[j], out')
  BY <1>1, CallReadIs DEF Read1
<1> QED BY <1>2, CallReadIs

\* What a stop closes is handed on, and nothing else.
LEMMA StopMeans ==
    ASSUME StreamTypeOK, StreamInv, OneSlotWillDo, \A j \in Calls : CallRead(j),
           NEW i \in Blocks, Emits(i), StopBlock(i)
    PROVE  /\ \A j \in Calls : Closed(j) => Closed(j)'
           /\ \A j \in Calls : j \in Meant(i) <=> j \in open /\ Closed(j)'
           /\ \A j, k \in Meant(i) : j = k
<1>1. /\ Becomes(i, block[i].named, block[i].args, block[i].emitted, block[i].started, TRUE)
      /\ reader' = reader /\ 0 \in Blocks /\ Calls \subseteq Blocks /\ open \subseteq Calls
      /\ \A j \in Blocks : BlockSound(j)
      /\ block[i].started /\ reader \in {"server", "agent"}
  BY StopBlockMakes, EventTypes DEF Emits, request, StreamTypeOK, StreamInv, StopBlock, CanStop
<1>2. \A j \in Blocks : block'[j].stopped <=> block[j].stopped \/ j = i
  BY <1>1 DEF Becomes
<1>3. \A j \in open : block[j].started /\ ~Closed(j) /\ block[j].named
  BY <1>1 DEF CallRead, BlockSound
<1>4. CASE reader = "agent"
  BY <1>1, <1>2, <1>3, <1>4 DEF Closed, Meant
<1>5. CASE reader = "server"
  <2>1. \A j, k \in open : j = k
    BY <1>1, <1>3, <1>5, OneStarted
  <2>2. \A j \in open : i # 0 => j = i
    BY <1>1, <1>3, <1>5, OneStarted, EventTypes DEF BlockSound
  <2>3. \A j \in open : Closed(j)'
    BY <1>1, <1>2, <1>5, <2>2 DEF Closed
  <2>4. \A j \in Calls : Closed(j) => Closed(j)'
    BY <1>1, <1>2 DEF Closed
  <2> QED BY <1>5, <2>1, <2>3, <2>4 DEF Meant
<1> QED BY <1>1, <1>4, <1>5

LEMMA EmitCalls ==
    ASSUME StreamTypeOK, StreamInv, OneSlotWillDo, \A j \in Calls : CallRead(j),
           NEW i \in Blocks, Emits(i), stage \in {"streaming", "finishing"},
           NEW j \in Calls
    PROVE  CallRead(j)'
<1>1. /\ out \in Seq(Content) /\ gathered \in [Calls -> Seq(Nat)] /\ open \subseteq Calls
      /\ 0 \in Blocks /\ j \in Blocks /\ j # 0 /\ j \in Nat /\ (i # 0 => i \in Calls)
      /\ reader' = reader /\ reader \in {"server", "agent"}
      /\ \A l \in Blocks : BlockSound(l)
      /\ \A l \in Blocks : block[l].emitted \in Nat /\ block[l].args \in Nat
      /\ CallRead(j)
  BY EventTypes, BlockType DEF StreamTypeOK, StreamInv, Emits, request
<1>2. \A l \in open : block[l].started /\ block[l].named /\ ~Closed(l)
  BY <1>1, EventTypes DEF CallRead, BlockSound
<1>3. CASE StartBlock(i)
  <2>1. Becomes(i, block[i].named, block[i].args, block[i].emitted, TRUE, block[i].stopped)
    BY <1>3, StartBlockMakes
  <2>2. Closed(j)' <=> Closed(j)
    BY <1>1, <2>1 DEF Becomes, Closed
  <2>3. CanStart(i) /\ ReadStart(i)
    BY <1>3 DEF StartBlock
  <2>4. CASE i = 0
    BY <1>1, <2>1, <2>2, <2>3, <2>4, CallReadSame DEF ReadStart, reading, Becomes
  <2>5. CASE i # 0
    <3>1. /\ open' = IF reader = "server" THEN {i} ELSE open \cup {i}
          /\ gathered' = [gathered EXCEPT ![i] = <<>>] /\ out' = out
      BY <2>3, <2>5 DEF ReadStart
    <3>2. CASE j = i
      <4>1. ~Closed(i) /\ ~block[i].started /\ block[i].emitted = 0
        BY <1>1, <2>3, AtWorkIsOpen DEF CanStart, BlockSound
      <4>2. UsesOf(out, i) = {}
        BY <1>1, <3>2, <4>1 DEF CallRead
      <4>3. gathered'[i] = <<>> /\ i \in open' /\ block'[i].started /\ block'[i].emitted = 0
        BY <1>1, <2>1, <3>1, <3>2, <4>1 DEF Becomes
      <4>4. Read1(i, block'[i], Closed(i)', open', gathered'[i], out')
        BY <2>2, <3>1, <3>2, <4>1, <4>2, <4>3, PiecesNone DEF Read1
      <4> QED BY <3>2, <4>4, CallReadIs
    <3>3. CASE j # i
      <4>1. reader = "server" => j \notin open
        BY <1>1, <1>2, <2>3, <2>5, <3>3, OneStarted DEF CanStart
      <4>2. j \in open' <=> j \in open
        BY <1>1, <3>1, <3>3, <4>1
      <4>3. gathered'[j] = gathered[j] /\ block'[j] = block[j]
        BY <1>1, <2>1, <3>1, <3>3 DEF Becomes
      <4> QED BY <1>1, <2>2, <3>1, <4>2, <4>3, CallReadSame
    <3> QED BY <3>2, <3>3
  <2> QED BY <2>4, <2>5
<1>4. CASE HandOn(i)
  <2> DEFINE p == Pieces(block[i].emitted, block[i].args)
  <2>1. Becomes(i, block[i].named, block[i].args, block[i].args, block[i].started,
                block[i].stopped)
    BY <1>4, HandOnMakes
  <2>2. Closed(j)' <=> Closed(j)
    BY <1>1, <2>1 DEF Becomes, Closed
  <2>3. CanHandOn(i) /\ ReadDelta(i, p)
    BY <1>4 DEF HandOn
  <2>4. CASE i = 0
    <3>1. out' = Append(out, Text(block[0].args)) /\ UNCHANGED <<open, gathered>>
      BY <2>3, <2>4 DEF ReadDelta
    <3>2. Text(block[0].args) \in Content /\ Text(block[0].args).kind # "use"
      BY <1>1 DEF Text, Content
    <3>3. block'[j] = block[j]
      BY <1>1, <2>1, <2>4 DEF Becomes
    <3> QED BY <1>1, <2>2, <3>1, <3>2, <3>3, CallReadSame
  <2>5. CASE i # 0
    <3>1. ~Closed(i) /\ block[i].started /\ i \in Calls /\ CallRead(i) /\ block[i].named
      BY <1>1, <2>3, <2>5, AtWorkIsOpen DEF CanHandOn, BlockSound
    <3>2. i \in open
      BY <3>1 DEF CallRead
    <3>3. Meant(i) = {i}
      <4>1. CASE reader = "agent"
        BY <3>2, <4>1 DEF Meant
      <4>2. CASE reader = "server"
        <5>1. \A l \in open : l = i
          BY <1>1, <1>2, <3>1, <4>2, OneStarted
        <5> QED BY <3>2, <4>2, <5>1 DEF Meant
      <4> QED BY <1>1, <4>1, <4>2
    <3>4. /\ gathered' = [l \in Calls |-> IF l \in Meant(i) THEN gathered[l] \o p ELSE gathered[l]]
          /\ UNCHANGED <<open, out>>
      BY <2>3, <2>5 DEF ReadDelta
    <3>5. CASE j = i
      <4>1. gathered[i] = Pieces(0, block[i].emitted)
        BY <3>1, <3>2 DEF CallRead
      <4>2. Pieces(0, block[i].emitted) \o p = Pieces(0, block[i].args)
        BY <1>1, PiecesFollow DEF BlockSound
      <4>3. gathered'[i] = Pieces(0, block[i].args)
        BY <3>1, <3>3, <3>4, <4>1, <4>2
      <4>4. UsesOf(out, i) = {}
        BY <3>1 DEF CallRead
      <4>5. block'[i].emitted = block[i].args /\ block'[i].started
        BY <2>1, <3>1 DEF Becomes
      <4> HIDE DEF p
      <4>6. Read1(i, block'[i], Closed(i)', open', gathered'[i], out')
        BY <2>2, <3>1, <3>2, <3>4, <3>5, <4>3, <4>4, <4>5 DEF Read1
      <4> QED BY <3>5, <4>6, CallReadIs
    <3>6. CASE j # i
      <4> HIDE DEF p
      <4>1. gathered'[j] = gathered[j] /\ block'[j] = block[j]
        BY <1>1, <2>1, <3>3, <3>4, <3>6 DEF Becomes
      <4> QED BY <1>1, <2>2, <3>4, <4>1, CallReadSame
    <3> QED BY <3>5, <3>6
  <2> QED BY <2>4, <2>5
<1>5. CASE StopBlock(i)
  <2>1. Becomes(i, block[i].named, block[i].args, block[i].emitted, block[i].started, TRUE)
    BY <1>5, StopBlockMakes
  <2>2. /\ Closed(j) => Closed(j)'
        /\ j \in Meant(i) <=> j \in open /\ Closed(j)'
        /\ \A l, k \in Meant(i) : l = k
        /\ Meant(i) \subseteq Calls
    BY <1>1, <1>5, StopMeans DEF Meant
  <2>3. block'[j].started = block[j].started /\ block'[j].emitted = block[j].emitted
    BY <1>1, <2>1 DEF Becomes
  <2>4. ReadStop(i)
    BY <1>5 DEF StopBlock
  <2>5. \A l \in Calls : Use(l, gathered[l]) \in Content
    BY <1>1, EventTypes DEF Use, Content
  <2>6. CASE j \in Meant(i)
    <3>1. /\ open' = open \ {j}
          /\ out' = Append(out, Use(j, gathered[j]))
      BY <2>2, <2>4, <2>6 DEF ReadStop
    <3>2. /\ block[j].started /\ ~Closed(j) /\ UsesOf(out, j) = {} /\ Closed(j)'
          /\ gathered[j] = Pieces(0, block[j].emitted)
      BY <1>1, <2>2, <2>6 DEF CallRead
    <3>3. UsesOf(out', j) = {Len(out) + 1} /\ out'[Len(out) + 1] = Use(j, gathered[j])
      BY <1>1, <2>5, <3>1, <3>2, UsesAppend DEF Use
    <3>4. Use(j, gathered[j]).pieces = Pieces(0, block'[j].emitted)
      BY <2>3, <3>2 DEF Use
    <3>5. Read1(j, block'[j], Closed(j)', open', gathered'[j], out')
      BY <2>3, <3>1, <3>2, <3>3, <3>4 DEF Read1
    <3> QED BY <3>5, CallReadIs
  <2>7. CASE j \notin Meant(i)
    <3>1. /\ j \in open' <=> j \in open
          /\ UsesOf(out', j) = UsesOf(out, j)
          /\ \A k \in UsesOf(out, j) : out'[k] = out[k]
      <4>1. CASE UNCHANGED reading
        BY <4>1 DEF reading
      <4>2. ASSUME NEW k \in Meant(i), open' = open \ {k}, out' = Append(out, Use(k, gathered[k]))
            PROVE  /\ j \in open' <=> j \in open
                   /\ UsesOf(out', j) = UsesOf(out, j)
                   /\ \A l \in UsesOf(out, j) : out'[l] = out[l]
        <5>1. Use(k, gathered[k]) \in Content /\ Use(k, gathered[k]).n # j
          BY <2>2, <2>5, <2>7 DEF Use
        <5>2. UsesOf(out', j) = UsesOf(out, j) /\ \A l \in UsesOf(out, j) : out'[l] = out[l]
          BY <1>1, <4>2, <5>1, NotUsed
        <5> QED BY <2>7, <4>2, <5>2
      <4> QED BY <2>4, <4>1, <4>2 DEF ReadStop
    <3>2. j \in open' => gathered'[j] = gathered[j]
      BY <1>1, <2>4, <2>7 DEF ReadStop, reading
    <3>3. block[j].started => (Closed(j)' <=> Closed(j))
      BY <1>1, <2>2, <2>7 DEF CallRead
    <3>4. Read1(j, block'[j], Closed(j)', open', gathered'[j], out')
      BY <1>1, <2>3, <3>1, <3>2, <3>3, CallReadIs DEF Read1
    <3> QED BY <3>4, CallReadIs
  <2> QED BY <2>6, <2>7
<1> QED BY <1>3, <1>4, <1>5 DEF Emits

LEMMA EmitRead ==
    ASSUME StreamTypeOK, StreamInv, ReadInv, NEW i \in Blocks, Emits(i),
           stage \in {"streaming", "finishing"}
    PROVE  ReadInv'
<1>1. OneSlotWillDo' <=> OneSlotWillDo
  BY DEF Emits, request, heard, OneSlotWillDo, NamedCalls
<1> QED BY <1>1, EmitText, EmitCalls DEF ReadInv

LEMMA ReadInvStep ==
    ASSUME StreamTypeOK, StreamInv, ReadInv, [StreamNext]_streamVars
    PROVE  ReadInv'
<1>1. CASE UNCHANGED <<said, block, reading, reader>>
  BY <1>1, ReadIsOfSameBlocks DEF OneSlotWillDo, NamedCalls
<1>2. ASSUME NEW chunk \in Chunk, ChunkArrives(chunk)
      PROVE  ReadInv'
  <2>1. UNCHANGED <<reader, block, reading>>
    BY <1>2 DEF ChunkArrives, request
  <2>2. \A j \in Blocks : said[j].named => said'[j].named
    BY <1>2 DEF ChunkArrives
  <2>3. OneSlotWillDo' => OneSlotWillDo
    BY <2>1, <2>2, EventTypes DEF OneSlotWillDo, NamedCalls
  <2> QED BY <2>1, <2>3, ReadIsOfSameBlocks
<1>3. ASSUME NEW d \in todo, TakeUp(d)
      PROVE  ReadInv'
  <2>1. UNCHANGED <<reader, said, reading>>
    BY <1>3 DEF TakeUp, request, heard
  <2>2. \A j \in Blocks : /\ block'[j].started = block[j].started
                          /\ block'[j].stopped = block[j].stopped
                          /\ block'[j].emitted = block[j].emitted
    BY <1>3, TakeUpMakes DEF Becomes
  <2> QED BY <2>1, <2>2, ReadIsOfSameBlocks DEF OneSlotWillDo, NamedCalls
<1>4. SendFails \/ StreamOpens \/ WholeAnswer \/ StreamEnds \/ Build \/ StreamBreaks =>
        UNCHANGED <<said, block, reading, reader>>
  BY DEF SendFails, StreamOpens, WholeAnswer, StreamEnds, Build, StreamBreaks, request, heard
<1>5. at \in Blocks
  BY DEF StreamTypeOK
<1> QED BY <1>1, <1>2, <1>3, <1>4, <1>5, EmitRead, StreamSteps DEF heard

LEMMA ReadInvInit == StreamInit => ReadInv
<1> SUFFICES ASSUME StreamInit PROVE ReadInv
  OBVIOUS
<1>1. out = <<>> /\ open = {} /\ \A i \in Blocks : block[i] = NewBlock
  BY DEF StreamInit
<1>2. TextRead
  BY <1>1, EventTypes DEF TextRead, NewBlock
<1>3. \A i \in Calls : CallRead(i)
  BY <1>1, EventTypes DEF CallRead, UsesOf, NewBlock
<1> QED BY <1>2, <1>3 DEF ReadInv

\* If one call at most is named, any two are the same.
LEMMA OneNamed == Cardinality(NamedCalls) <= 1 => \A i, j \in NamedCalls : i = j
<1> SUFFICES ASSUME Cardinality(NamedCalls) <= 1, NEW i \in NamedCalls, NEW j \in NamedCalls,
                    i # j
             PROVE  FALSE
  OBVIOUS
<1>1. IsFiniteSet(Calls)
  BY StreamAssumption, FS_Interval DEF Calls
<1>2. IsFiniteSet(NamedCalls)
  BY <1>1, FS_Subset DEF NamedCalls
<1>3. IsFiniteSet({i, j}) /\ Cardinality({i, j}) <= Cardinality(NamedCalls)
  BY <1>2, FS_Subset
<1>4. Cardinality({j}) = 1 /\ IsFiniteSet({j})
  BY FS_Singleton
<1>5. Cardinality({j} \cup {i}) = 2
  BY <1>4, FS_AddElement
<1>6. {j} \cup {i} = {i, j}
  OBVIOUS
<1>7. Cardinality({i, j}) = 2
  BY <1>5, <1>6
<1>8. Cardinality(NamedCalls) \in Nat
  BY <1>2, FS_CardinalityType
<1> QED BY <1>3, <1>7, <1>8

\* When nothing is unfinished, what was read is what was said.
LEMMA WhatArrivedIsRead == StreamTypeOK /\ StreamInv /\ ReadInv => MessageIsWhatArrived
<1> SUFFICES ASSUME StreamTypeOK, StreamInv, ReadInv, stage = "message", ~whole
             PROVE  /\ TextsAreSaid(out)
                    /\ reader = "agent" \/ Cardinality(NamedCalls) <= 1 => CallsAreSaid(out)
  BY DEF MessageIsWhatArrived
<1>1. /\ 0 \in Blocks /\ Calls \subseteq Blocks /\ todo = {}
      /\ \A i \in Blocks : BlockSound(i) /\ Taken(i) /\ ~Unfinished(i)
      /\ \A i \in Blocks : block[i].args \in Nat /\ block[i].emitted \in Nat
      /\ ~block[0].named => block[0].args = 0
  BY EventTypes, BlockType DEF StreamInv, StreamTypeOK, TextSound
<1>2. ASSUME NEW i \in Blocks
      PROVE  /\ said[i].named = block[i].named /\ said[i].args = block[i].args
             /\ block[i].named <=> block[i].started
             /\ block[i].started <=> block[i].stopped
             /\ block[i].named => block[i].emitted = block[i].args
             /\ ~block[i].named => block[i].emitted = 0
  <2>1. said[i].named = block[i].named /\ said[i].args = block[i].args
    BY <1>1 DEF Taken
  <2>2. block[i].named <=> block[i].started
    BY <1>1 DEF Unfinished, CanStart, BlockSound
  <2>3. block[i].started <=> block[i].stopped
    BY <1>1 DEF Unfinished, CanStop, CanHandOn, BlockSound
  <2> QED BY <1>1, <2>1, <2>2, <2>3 DEF BlockSound
<1>3. block[0].emitted = said[0].args
  BY <1>1, <1>2
<1>4. TextsAreSaid(out)
  BY <1>3 DEF ReadInv, TextRead, TextsAreSaid
<1>5. ASSUME reader = "agent" \/ Cardinality(NamedCalls) <= 1
      PROVE  CallsAreSaid(out)
  <2>1. OneSlotWillDo
    BY <1>5, OneNamed DEF OneSlotWillDo
  <2>2. ASSUME NEW i \in Calls
        PROVE  /\ said[i].named <=> UsesOf(out, i) # {}
               /\ \A k \in UsesOf(out, i) : out[k].pieces = Pieces(0, said[i].args)
               /\ \A k, l \in UsesOf(out, i) : k = l
    <3>1. CallRead(i) /\ i \in Blocks
      BY <1>1, <2>1 DEF ReadInv
    <3>2. block[i].started => Closed(i)
      BY <1>2, <3>1 DEF Closed
    <3>3. said[i].named <=> UsesOf(out, i) # {}
      BY <1>2, <3>1, <3>2 DEF CallRead
    <3>4. UsesOf(out, i) # {} => block[i].emitted = said[i].args
      BY <1>2, <3>1, <3>3
    <3> QED BY <3>1, <3>3, <3>4 DEF CallRead
  <2> QED BY <2>2 DEF CallsAreSaid
<1> QED BY <1>4, <1>5

\* The message is what arrived, for any number of calls, pieces and retries and
\* however they are spread over the chunks: all for the sub-agent, and for the
\* server if no two calls are in one answer.
THEOREM MessagesAreWhatArrived == StreamSpec => []MessageIsWhatArrived
<1>1. StreamTypeOK /\ StreamInv /\ ReadInv /\ [StreamNext]_streamVars => ReadInv'
  BY ReadInvStep
<1> QED BY <1>1, ReadInvInit, WhatArrivedIsRead, StreamInvAlways, PTL DEF StreamSpec
=============================================================================
