------------------------ MODULE EvaluationEventsProofs ------------------------
(***************************************************************************)
(* The tape and its readers, for any number of owners at once, any crashes *)
(* and lost requests, any page size and any readers.                       *)
(*                                                                         *)
(* No event is lost or doubled: the number a writer read before its INSERT *)
(* may be stale but never too large; a stale one is taken, and the second  *)
(* attempt runs with the write lock in hand.  The rows are then numbered 1 *)
(* to returned, a page is a segment of them, and a reader holds a segment  *)
(* that begins with the first row (ReaderInv).  A success is announced on  *)
(* the tape before the job row says so (JobInv).                           *)
(***************************************************************************)
EXTENDS EvaluationEvents, FiniteSetTheorems, SequenceTheorems, TLAPS

WriterStep == {"idle", "work", "read", "insert", "retry", "mark"}
Call == [step : WriterStep, type : EventType, seq : Nat, fate : Terminal \cup {"none"}]

Types ==
  /\ wlock \in Writers \cup {Nobody} /\ returned \in Nat
  /\ writer \in [Writers -> Call]
  /\ IsFiniteSet(tape) /\ tape \subseteq EventRow

\* The lock is held through the second attempt and nothing else.
LockInv == \A w \in Writers : wlock = w <=> writer[w].step = "retry"

\* What a writer is about to insert is a number of the tape or the next one.
NumberInv == \A w \in Writers : writer[w].step = "insert" => writer[w].seq \in 1..returned + 1

Inv == Types /\ LockInv /\ NumberInv /\ NoEventLost

Appended(w, seq) ==
  /\ tape' = tape \cup {[seq |-> seq, type |-> writer[w].type]} /\ returned' = returned + 1
  /\ seq = returned + 1
----------------------------------------------------------------------------

\* The last number of the tape is the number of calls that returned.
LEMMA LastNumber == ASSUME Inv PROVE MaxSeq = returned
<1>1. returned \in Nat /\ {x.seq : x \in tape} = 1..returned
  BY DEF Inv, Types, NoEventLost
<1>2. CASE tape = {}
  <2>1. {x.seq : x \in tape} = {}
    BY <1>2
  <2>2. returned = 0
    BY <1>1, <2>1
  <2> QED
    BY <1>2, <2>2 DEF MaxSeq
<1>3. CASE tape # {}
  <2>1. 1..returned # {}
    BY <1>1, <1>3
  <2>2. returned \in 1..returned /\ \A y \in 1..returned : returned >= y
    BY <1>1, <2>1
  <2>3. \A x \in 1..returned : (\A y \in 1..returned : x >= y) => x = returned
    BY <1>1, <2>2
  <2>4. Max(1..returned) = returned
    BY <2>2, <2>3 DEF Max
  <2> QED
    BY <1>1, <1>3, <2>4 DEF MaxSeq
<1> QED
  BY <1>2, <1>3

\* One more event, with the next number.
LEMMA Grows ==
  ASSUME Inv, NEW w \in Writers, Appended(w, returned + 1)
  PROVE  /\ returned' \in Nat /\ IsFiniteSet(tape') /\ tape' \subseteq EventRow
         /\ NoEventLost'
<1> DEFINE row == [seq |-> returned + 1, type |-> writer[w].type]
<1>1. returned \in Nat /\ IsFiniteSet(tape) /\ tape \subseteq EventRow /\ writer[w] \in Call
  BY DEF Inv, Types
<1>2. row \in EventRow
  BY <1>1 DEF EventRow, Call
<1>3. tape' = tape \cup {row} /\ returned' = returned + 1
  BY DEF Appended
<1>4. {x.seq : x \in tape} = 1..returned /\ Cardinality(tape) = returned
  BY DEF Inv, NoEventLost
<1>5. row \notin tape
  <2>1. row.seq = returned + 1 /\ row.seq \notin 1..returned
    BY <1>1
  <2> QED
    BY <2>1, <1>4
<1>6. IsFiniteSet(tape') /\ Cardinality(tape') = returned + 1
  BY <1>1, <1>3, <1>4, <1>5, FS_AddElement
<1>7. {x.seq : x \in tape'} = {x.seq : x \in tape} \cup {row.seq}
  BY <1>3
<1>8. {x.seq : x \in tape'} = 1..returned'
  BY <1>1, <1>3, <1>4, <1>7
<1> QED
  BY <1>1, <1>2, <1>3, <1>6, <1>8 DEF NoEventLost

\* The initial state satisfies the invariant.
LEMMA InitInv == Init => Inv
<1> SUFFICES ASSUME Init PROVE Inv
  OBVIOUS
<1>1. Types
  BY FS_EmptySet DEF Init, Types, Call, IdleWriter, WriterStep, EventType, Terminal
<1>2. LockInv /\ NumberInv
  BY EventsAssumption DEF Init, LockInv, NumberInv, IdleWriter
<1>3. NoEventLost
  BY FS_EmptySet DEF Init, NoEventLost
<1> QED
  BY <1>1, <1>2, <1>3 DEF Inv

\* An INSERT that finds its number free has the next one.
LEMMA InsertInv ==
  ASSUME Inv, NEW w \in Writers, Insert(w)
  PROVE  Inv'
<1>1. CASE ~Taken(writer[w].seq) /\ Written(w, writer[w].seq) /\ UNCHANGED wlock
  <2>1. writer[w].seq = returned + 1
    <3>1. writer[w].seq \in 1..returned + 1 /\ returned \in Nat
      BY DEF Insert, Inv, NumberInv, Types
    <3>2. writer[w].seq \notin 1..returned
      BY <1>1 DEF Taken, Inv, NoEventLost
    <3> QED
      BY <3>1, <3>2
  <2>2. Appended(w, returned + 1)
    BY <1>1, <2>1 DEF Written, Appended
  <2>3. /\ returned' \in Nat /\ returned' = returned + 1 /\ IsFiniteSet(tape') /\ tape' \subseteq EventRow
        /\ NoEventLost'
    BY <2>2, Grows DEF Appended
  <2>4. writer' \in [Writers -> Call] /\ writer'[w].step \in {"mark", "work", "idle"}
        /\ \A v \in Writers : v # w => writer'[v] = writer[v]
    BY <1>1 DEF Written, Returned, AfterAppend, IdleWriter, Inv, Types, Call, WriterStep, EventType
  <2>5. wlock' = wlock /\ writer[w].step = "insert" /\ wlock = Nobody
    BY <1>1 DEF Insert
  <2> QED
    BY <2>3, <2>4, <2>5, EventsAssumption DEF Inv, Types, LockInv, NumberInv
<1>2. CASE Taken(writer[w].seq) /\ wlock' = w /\ writer' = [writer EXCEPT ![w].step = "retry"]
             /\ UNCHANGED <<tape, returned>>
  <2>1. writer' \in [Writers -> Call] /\ writer'[w].step = "retry"
        /\ \A v \in Writers : v # w => writer'[v] = writer[v]
    BY <1>2 DEF Inv, Types, Call, WriterStep
  <2>2. wlock = Nobody
    BY DEF Insert
  <2> QED
    BY <1>2, <2>1, <2>2, EventsAssumption DEF Inv, Types, LockInv, NumberInv, NoEventLost
<1> QED
  BY <1>1, <1>2 DEF Insert

\* The second attempt has the lock, so its number is the next one.
LEMMA RetryInv ==
  ASSUME Inv, NEW w \in Writers, Retry(w)
  PROVE  Inv'
<1>1. Appended(w, returned + 1)
  BY LastNumber DEF Retry, Written, Appended
<1>2. /\ returned' \in Nat /\ returned' = returned + 1 /\ IsFiniteSet(tape') /\ tape' \subseteq EventRow
      /\ NoEventLost'
  BY <1>1, Grows DEF Appended
<1>3. writer' \in [Writers -> Call] /\ writer'[w].step \in {"mark", "work", "idle"}
      /\ \A v \in Writers : v # w => writer'[v] = writer[v]
  BY DEF Retry, Written, Returned, AfterAppend, IdleWriter, Inv, Types, Call, WriterStep, EventType
<1>4. wlock' = Nobody /\ writer[w].step = "retry" /\ wlock = w
  BY DEF Retry, Inv, LockInv
<1> QED
  BY <1>2, <1>3, <1>4, EventsAssumption DEF Inv, Types, LockInv, NumberInv

\* Everything else moves one writer, or none, and leaves the tape alone.
Moves(w) ==
  /\ UNCHANGED <<tape, returned>> /\ wlock' \in {wlock, Nobody}
  /\ writer' \in [Writers -> Call]
  /\ \A v \in Writers : v # w => writer'[v] = writer[v]
  /\ wlock' # wlock => wlock = w
  /\ writer[w].step = "retry" => writer'[w] = writer[w] \/ wlock' = Nobody
  /\ writer'[w].step = "retry" => writer'[w] = writer[w] /\ wlock' = wlock
  /\ writer'[w].step = "insert" => writer'[w] = writer[w] \/ writer'[w].seq = returned + 1

\* A move preserves the invariant.
LEMMA MovesInv ==
  ASSUME Inv, NEW w \in Writers, Moves(w)
  PROVE  Inv'
<1>1. Types' /\ NoEventLost'
  BY DEF Inv, Types, NoEventLost, Moves
<1>2. LockInv'
  BY EventsAssumption DEF Inv, LockInv, Moves
<1>3. NumberInv'
  BY DEF Inv, Types, NumberInv, Moves
<1> QED
  BY <1>1, <1>2, <1>3 DEF Inv

\* What the other actions of a writer do.
LEMMA WriterMoves ==
  ASSUME Inv, NEW w \in Writers,
         ReadMax(w) \/ Claim(w) \/ RunEvent(w) \/ Abandon(w) \/ End(w) \/ MarkTerminal(w) \/ Crash(w)
  PROVE  Moves(w)
<1> USE DEF Inv, Types, Call, WriterStep
<1>1. CASE ReadMax(w)
  <2>1. MaxSeq + 1 = returned + 1 /\ returned + 1 \in Nat
    BY LastNumber
  <2> QED
    BY <1>1, <2>1 DEF ReadMax, Moves
<1>2. CASE Claim(w) \/ RunEvent(w)
  BY <1>2 DEF Claim, RunEvent, Begin, Moves, EventType
<1>3. CASE End(w)
  BY <1>3 DEF End, Endings, Begin, Moves, EventType, Terminal
<1>4. CASE Abandon(w) \/ MarkTerminal(w) \/ Crash(w)
  BY <1>4 DEF Abandon, MarkTerminal, Crash, Moves, IdleWriter, EventType, LockInv
<1> QED
  BY <1>1, <1>2, <1>3, <1>4

\* Recovery and a resume append after they have committed a status.
LEMMA CallerMoves ==
  ASSUME Inv
  PROVE  (Recover => Moves(Recovery)) /\ (Resume => Moves(Resumer))
<1> USE DEF Inv, Types, Call, WriterStep, Begin, Moves, EventType, Writers
<1>1. Recover => Moves(Recovery)
  BY DEF Recover
<1>2. Resume => Moves(Resumer)
  BY DEF Resume
<1> QED
  BY <1>1, <1>2

\* Every step preserves the invariant.
LEMMA NextInv == Inv /\ [Next]_vars => Inv'
<1> SUFFICES ASSUME Inv, [Next]_vars PROVE Inv'
  OBVIOUS
<1>1. ASSUME NEW w \in Writers,
             \/ ReadMax(w) \/ Insert(w) \/ Retry(w) \/ Claim(w) \/ RunEvent(w)
             \/ Abandon(w) \/ End(w) \/ MarkTerminal(w) \/ Crash(w)
      PROVE  Inv'
  BY <1>1, InsertInv, RetryInv, WriterMoves, MovesInv
<1>2. CASE Recover \/ Resume
  BY <1>2, CallerMoves, MovesInv DEF Writers
<1>3. CASE UNCHANGED <<tape, wlock, writer, returned>>
  BY <1>3 DEF Inv, Types, LockInv, NumberInv, NoEventLost
<1>4. ASSUME CancelQueued \/ UNCHANGED vars \/ \E c \in Readers : Connect(c) \/ RequestFails(c) \/ ReaderWork(c)
      PROVE  Inv'
  BY <1>3, <1>4 DEF CancelQueued, vars, Connect, RequestFails, ReaderWork, PollEvents, PollStatus, Deliver,
     ReadJob, ReadPage, OnlyReader
<1> QED
  BY <1>1, <1>2, <1>4 DEF Next

\* The invariant holds in every reachable state, with or without fairness.
LEMMA Invariance == Spec => []Inv
  BY InitInv, NextInv, PTL DEF Spec

\* The tape has an event for every call of append_event that returned, numbered
\* 1, 2, 3 and so on, whoever appends beside whom and dies where (append_event).
THEOREM TapeSafe == Spec => []NoEventLost
<1>1. Inv => NoEventLost
  BY DEF Inv
<1> QED
  BY <1>1, Invariance, PTL
----------------------------------------------------------------------------
(* Pages of the tape.                                                      *)

\* The rows numbered a + 1 to b.
Slice(a, b) == {x \in tape : x.seq > a /\ x.seq <= b}

\* The sequence is the rows numbered a + 1, a + 2 and so on.
Segment(s, a) ==
  /\ s \in Seq(EventRow)
  /\ \A i \in 1..Len(s) : s[i] \in tape /\ s[i].seq = a + i

\* The rows are numbered 1 to returned, each number once.
LEMMA Numbered ==
  ASSUME Inv
  PROVE  /\ \A x \in tape : x.seq \in 1..returned /\ x \in EventRow
         /\ \A i \in 1..returned : \E x \in tape : x.seq = i
         /\ \A x, y \in tape : x.seq = y.seq => x = y
<1> DEFINE f == [x \in tape |-> x.seq]
<1>1. /\ {x.seq : x \in tape} = 1..returned /\ Cardinality(tape) = returned
      /\ returned \in Nat /\ IsFiniteSet(tape) /\ tape \subseteq EventRow
  BY DEF Inv, Types, NoEventLost
<1>2. f \in Surjection(tape, 1..returned)
  BY <1>1 DEF Surjection
<1>3. Cardinality(1..returned) = returned
  BY <1>1, FS_Interval
<1>4. f \in Injection(tape, 1..returned)
  BY <1>1, <1>2, <1>3, FS_SurjSameCardinalityImpliesInj
<1>5. \A x, y \in tape : x.seq = y.seq => x = y
  BY <1>4 DEF Injection, IsInjective
<1>6. /\ \A x \in tape : x.seq \in 1..returned /\ x \in EventRow
      /\ \A i \in 1..returned : \E x \in tape : x.seq = i
  BY <1>1
<1> QED
  BY <1>5, <1>6

\* A slice has as many rows as numbers.
LEMMA SliceSize ==
  ASSUME Inv, NEW a \in Nat, NEW b \in Nat, a <= b, b <= returned
  PROVE  Cardinality(Slice(a, b)) = b - a
<1> DEFINE S == Slice(a, b)
           f == [x \in S |-> x.seq]
<1>1. returned \in Nat /\ IsFiniteSet(tape) /\ S \in SUBSET tape
  BY DEF Inv, Types, Slice
<1>2. IsFiniteSet(S)
  BY <1>1, FS_Subset
<1>3. \A x \in S : x.seq \in (a + 1)..b
  BY Numbered, <1>1 DEF Slice
<1>4. \A i \in (a + 1)..b : \E x \in S : x.seq = i
  BY Numbered, <1>1 DEF Slice
<1>5. \A x, y \in S : x.seq = y.seq => x = y
  BY Numbered, <1>1
<1>6. f \in Bijection(S, (a + 1)..b)
  BY <1>3, <1>4, <1>5 DEF Bijection, Injection, Surjection, IsInjective
<1>7. ExistsBijection(S, (a + 1)..b)
  BY <1>6 DEF ExistsBijection
<1>8. Cardinality((a + 1)..b) = Cardinality(S)
  BY <1>2, <1>7, FS_Bijection
<1>9. Cardinality((a + 1)..b) = b - a
  <2>1. a + 1 \in Int /\ b \in Int
    OBVIOUS
  <2>2. Cardinality((a + 1)..b) = IF a + 1 > b THEN 0 ELSE b - (a + 1) + 1
    BY <2>1, FS_Interval
  <2> QED
    BY <2>2
<1> QED
  BY <1>8, <1>9

\* Put in order, a slice is a segment (the ORDER BY seq of events_since).
LEMMA SliceInOrder ==
  ASSUME Inv, NEW a \in Nat, NEW b \in Nat, a <= b, b <= returned
  PROVE  Segment(InOrder(Slice(a, b)), a) /\ Len(InOrder(Slice(a, b))) = b - a
<1> DEFINE S == Slice(a, b)
           s == InOrder(S)
<1>1. returned \in Nat /\ b - a \in Nat /\ Cardinality(S) = b - a
  BY SliceSize DEF Inv, Types
<1>2. ASSUME NEW i \in 1..(b - a)
      PROVE  s[i] \in tape /\ s[i] \in EventRow /\ s[i].seq = a + i
  <2>1. PICK x \in tape : x.seq = a + i
    BY <1>1, Numbered
  <2>2. \A y \in S : y \in tape /\ y.seq \in Nat /\ y.seq > a /\ y.seq <= b
    BY Numbered, <1>1 DEF Slice
  <2>3. ASSUME NEW y \in S
        PROVE  Cardinality({z \in S : z.seq <= y.seq}) = y.seq - a
    <3>1. {z \in S : z.seq <= y.seq} = Slice(a, y.seq)
      BY <2>2, Numbered, <1>1 DEF Slice
    <3>2. y.seq \in Nat /\ a <= y.seq /\ y.seq <= returned
      BY <2>2, <1>1
    <3>3. Cardinality(Slice(a, y.seq)) = y.seq - a
      BY <3>2, SliceSize
    <3> QED
      BY <3>1, <3>3
  <2>4. x \in S
    BY <2>1, <1>1 DEF Slice
  <2>5. Cardinality({z \in S : z.seq <= x.seq}) = i
    BY <2>1, <2>3, <2>4
  <2>6. s[i] = CHOOSE y \in S : Cardinality({z \in S : z.seq <= y.seq}) = i
    BY <1>1 DEF InOrder
  <2>7. s[i] \in S /\ Cardinality({z \in S : z.seq <= s[i].seq}) = i
    BY <2>4, <2>5, <2>6
  <2>8. s[i].seq = a + i
    BY <2>2, <2>3, <2>7
  <2> QED
    BY <2>7, <2>8, <2>2, Numbered
<1>3. DOMAIN s = 1..(b - a) /\ s = [i \in DOMAIN s |-> s[i]]
  <2> DEFINE At(i) == CHOOSE x \in S : Cardinality({y \in S : y.seq <= x.seq}) = i
  <2>1. s = [i \in 1..Cardinality(S) |-> At(i)]
    BY DEF InOrder
  <2>2. Cardinality(S) = b - a
    BY <1>1
  <2> HIDE DEF s, S, At
  <2> QED
    BY <2>1, <2>2
<1> HIDE DEF s
<1>4. s \in [1..(b - a) -> EventRow]
  BY <1>2, <1>3
<1>5. s \in Seq(EventRow) /\ Len(s) = b - a
  BY <1>1, <1>4
<1>6. Segment(s, a) /\ Len(s) = b - a
  BY <1>2, <1>5 DEF Segment
<1> QED
  BY <1>6 DEF s

\* A segment ends where the tape does, or before.
LEMMA SegmentEnds ==
  ASSUME Inv, NEW a \in Nat, NEW s, Segment(s, a), a <= returned
  PROVE  /\ Len(s) \in Nat /\ a + Len(s) <= returned /\ (Len(s) = 0 <=> s = <<>>)
         /\ LastSeq(s, a) = a + Len(s)
<1>1. s \in Seq(EventRow) /\ Len(s) \in Nat /\ (Len(s) = 0 <=> s = <<>>) /\ returned \in Nat
  BY EmptySeq, LenProperties DEF Segment, Inv, Types
<1>2. CASE s = <<>>
  BY <1>1, <1>2 DEF LastSeq
<1>3. CASE s # <<>>
  <2>1. Len(s) \in 1..Len(s)
    BY <1>1, <1>3
  <2>2. s[Len(s)] \in tape /\ s[Len(s)].seq = a + Len(s)
    BY <2>1 DEF Segment
  <2> QED
    BY <1>1, <1>3, <2>2, Numbered DEF LastSeq, Last
<1> QED
  BY <1>2, <1>3

\* A segment is known by where it begins and how long it is.
LEMMA SegmentsEqual ==
  ASSUME Inv, NEW a \in Nat, NEW s, NEW t, Segment(s, a), Segment(t, a), Len(s) = Len(t)
  PROVE  s = t
<1>1. s \in Seq(EventRow) /\ t \in Seq(EventRow)
  BY DEF Segment
<1>2. ASSUME NEW i \in 1..Len(s) PROVE s[i] = t[i]
  BY <1>2, Numbered DEF Segment
<1> QED
  BY <1>1, <1>2, SeqEqual

\* A page is the segment after the cursor; a short one ends with the tape.
LEMMA PageRead ==
  ASSUME Inv, NEW c \in Nat, c <= returned
  PROVE  /\ Segment(EventsSince(c), c)
         /\ Len(EventsSince(c)) < PageLimit => c + Len(EventsSince(c)) = returned
<1> DEFINE rows == InOrder(Slice(c, returned))
           k == IF Len(rows) < PageLimit THEN Len(rows) ELSE PageLimit
<1>1. returned \in Nat /\ PageLimit \in Nat \ {0}
  BY EventsAssumption DEF Inv, Types
<1>2. {x \in tape : x.seq > c} = Slice(c, returned)
  BY Numbered, <1>1 DEF Slice
<1>3. Segment(rows, c) /\ Len(rows) = returned - c
  BY <1>1, SliceInOrder
<1>4. EventsSince(c) = SubSeq(rows, 1, k)
  BY <1>2 DEF EventsSince
<1> HIDE DEF rows
<1>5. k \in Nat /\ k <= Len(rows) /\ Len(rows) \in Nat
  BY <1>1, <1>3
<1> HIDE DEF k
<1>6. \A i \in 1..k : rows[i] \in EventRow /\ rows[i] \in tape /\ rows[i].seq = c + i
  <2>1. \A i \in 1..k : i \in 1..Len(rows)
    BY <1>5
  <2> QED
    BY <1>3, <2>1, ElementOfSeq DEF Segment
<1>7. /\ SubSeq(rows, 1, k) \in Seq(EventRow) /\ Len(SubSeq(rows, 1, k)) = k
      /\ \A i \in 1..k : SubSeq(rows, 1, k)[i] = rows[i]
  <2>1. 1 \in Int /\ k \in Int
    BY <1>5
  <2>2. /\ SubSeq(rows, 1, k) \in Seq(EventRow)
        /\ Len(SubSeq(rows, 1, k)) = IF 1 <= k THEN k - 1 + 1 ELSE 0
        /\ \A i \in 1..(k - 1 + 1) : SubSeq(rows, 1, k)[i] = rows[1 + i - 1]
    BY <1>6, <2>1, SubSeqProperties
  <2> QED
    BY <1>5, <2>2
<1>8. Segment(EventsSince(c), c) /\ Len(EventsSince(c)) = k
  BY <1>4, <1>6, <1>7 DEF Segment
<1>9. k < PageLimit => c + k = returned
  BY <1>1, <1>3 DEF k
<1> QED
  BY <1>8, <1>9

\* What a segment from the first event holds is a slice of the tape.
LEMMA SegmentRange ==
  ASSUME Inv, NEW a \in Nat, NEW s, Segment(s, a), a <= returned
  PROVE  ToSet(s) = Slice(a, a + Len(s))
<1>1. Len(s) \in Nat /\ DOMAIN s = 1..Len(s) /\ a + Len(s) <= returned /\ returned \in Nat
  BY SegmentEnds, LenProperties DEF Segment, Inv, Types
<1>2. ASSUME NEW x \in ToSet(s) PROVE x \in Slice(a, a + Len(s))
  BY <1>1 DEF ToSet, Segment, Slice
<1>3. ASSUME NEW x \in Slice(a, a + Len(s)) PROVE x \in ToSet(s)
  <2>1. x \in tape /\ x.seq - a \in 1..Len(s)
    BY <1>1, Numbered DEF Slice
  <2>2. s[x.seq - a] \in tape /\ s[x.seq - a].seq = a + (x.seq - a)
    BY <2>1 DEF Segment
  <2>3. s[x.seq - a].seq = x.seq
    BY <2>1, <2>2, Numbered
  <2>4. s[x.seq - a] = x
    BY <2>1, <2>2, <2>3, Numbered
  <2> QED
    BY <1>1, <2>1, <2>4 DEF ToSet
<1> QED
  BY <1>2, <1>3

Larger(m, n) == IF m < n THEN n ELSE m

\* Rows that begin where the reader is, or before, take it to their end, or
\* leave it where it is (ingest of jobEvents.ts).
LEMMA Ingested ==
  ASSUME Inv, NEW got, Segment(got, 0), NEW a \in Nat, NEW rows, Segment(rows, a), a <= Len(got)
  PROVE  /\ Segment(Ingest(got, rows), 0)
         /\ Len(Ingest(got, rows)) = Larger(Len(got), a + Len(rows))
<1> DEFINE k == Larger(Len(got), a + Len(rows))
<1>1. Len(got) \in Nat /\ Len(got) <= returned /\ returned \in Nat /\ ToSet(got) = Slice(0, Len(got))
  <2>1. returned \in Nat /\ 0 <= returned
    BY DEF Inv, Types
  <2>2. Len(got) \in Nat /\ 0 + Len(got) <= returned
    BY <2>1, SegmentEnds
  <2>3. ToSet(got) = Slice(0, 0 + Len(got))
    BY <2>1, SegmentRange
  <2> QED
    BY <2>1, <2>2, <2>3
<1>2. /\ Len(rows) \in Nat /\ a + Len(rows) <= returned /\ ToSet(rows) = Slice(a, a + Len(rows))
  <2>1. a <= returned
    BY <1>1
  <2> QED
    BY <2>1, SegmentEnds, SegmentRange
<1>3. k \in Nat /\ 0 <= k /\ k <= returned
  BY <1>1, <1>2 DEF Larger
<1>4. Slice(0, Len(got)) \cup Slice(a, a + Len(rows)) = Slice(0, k)
  BY <1>1, <1>2, Numbered DEF Slice, Larger
<1>5. Ingest(got, rows) = InOrder(Slice(0, k))
  BY <1>1, <1>2, <1>4 DEF Ingest
<1> HIDE DEF k
<1>6. Segment(InOrder(Slice(0, k)), 0) /\ Len(InOrder(Slice(0, k))) = k - 0
  BY <1>3, SliceInOrder
<1> QED
  BY <1>3, <1>5, <1>6 DEF k

\* Two adjacent segments make one.
LEMMA Adjacent ==
  ASSUME NEW a \in Nat, NEW s, NEW t, Segment(s, a), Segment(t, a + Len(s))
  PROVE  Segment(s \o t, a) /\ Len(s \o t) = Len(s) + Len(t)
<1>1. /\ s \in Seq(EventRow) /\ t \in Seq(EventRow) /\ Len(s) \in Nat /\ Len(t) \in Nat
  BY LenProperties DEF Segment
<1>2. /\ s \o t \in Seq(EventRow) /\ Len(s \o t) = Len(s) + Len(t)
      /\ \A i \in 1..Len(s) + Len(t) : (s \o t)[i] = IF i <= Len(s) THEN s[i] ELSE t[i - Len(s)]
  BY <1>1, ConcatProperties
<1>3. ASSUME NEW i \in 1..Len(s) + Len(t)
      PROVE  (s \o t)[i] \in tape /\ (s \o t)[i].seq = a + i
  <2>1. CASE i <= Len(s)
    BY <1>1, <1>2, <2>1 DEF Segment
  <2>2. CASE ~(i <= Len(s))
    <3>1. i - Len(s) \in 1..Len(t) /\ a + Len(s) + (i - Len(s)) = a + i
      BY <1>1, <2>2
    <3>2. t[i - Len(s)] \in tape /\ t[i - Len(s)].seq = a + Len(s) + (i - Len(s))
      BY <3>1 DEF Segment
    <3> QED
      BY <1>2, <2>2, <3>1, <3>2
  <2> QED
    BY <2>1, <2>2
<1> QED
  BY <1>2, <1>3 DEF Segment

\* The first row of a segment, and the rest.
LEMMA FirstRow ==
  ASSUME NEW a \in Nat, NEW s, Segment(s, a), s # <<>>
  PROVE  /\ Segment(<<Head(s)>>, a) /\ Len(<<Head(s)>>) = 1
         /\ Head(s) \in tape /\ Head(s) \in EventRow /\ Head(s).seq = a + 1
         /\ Segment(Tail(s), a + 1) /\ Len(Tail(s)) = Len(s) - 1 /\ Len(s) \in Nat \ {0}
<1>1. s \in Seq(EventRow) /\ Len(s) \in Nat \ {0}
  BY EmptySeq DEF Segment
<1>2. Head(s) = s[1]
  BY <1>1
<1>3. 1 \in 1..Len(s)
  BY <1>1
<1>4. Head(s) \in tape /\ Head(s) \in EventRow /\ Head(s).seq = a + 1
  BY <1>1, <1>2, <1>3, ElementOfSeq DEF Segment
<1>5. Segment(<<Head(s)>>, a) /\ Len(<<Head(s)>>) = 1
  BY <1>4 DEF Segment
<1>6. /\ Tail(s) \in Seq(EventRow) /\ Len(Tail(s)) = Len(s) - 1
      /\ \A i \in 1..Len(Tail(s)) : Tail(s)[i] = s[i + 1]
  BY <1>1, HeadTailProperties
<1>7. ASSUME NEW i \in 1..Len(Tail(s)) PROVE Tail(s)[i] \in tape /\ Tail(s)[i].seq = a + 1 + i
  <2>1. i + 1 \in 1..Len(s) /\ a + (i + 1) = a + 1 + i
    BY <1>1, <1>6
  <2> QED
    BY <1>6, <2>1 DEF Segment
<1> QED
  BY <1>1, <1>4, <1>5, <1>6, <1>7 DEF Segment

\* One row more.
LEMMA OneMore ==
  ASSUME NEW s, Segment(s, 0), NEW e \in EventRow, e \in tape, e.seq = Len(s) + 1
  PROVE  Segment(Append(s, e), 0) /\ Len(Append(s, e)) = Len(s) + 1
<1>1. s \in Seq(EventRow) /\ Len(s) \in Nat
  BY LenProperties DEF Segment
<1>2. /\ Append(s, e) \in Seq(EventRow) /\ Len(Append(s, e)) = Len(s) + 1
      /\ \A i \in 1..Len(s) : Append(s, e)[i] = s[i]
      /\ Append(s, e)[Len(s) + 1] = e
  BY <1>1, AppendProperties
<1>3. ASSUME NEW i \in 1..Len(s) + 1 PROVE Append(s, e)[i] \in tape /\ Append(s, e)[i].seq = i
  <2>1. CASE i = Len(s) + 1
    BY <1>2, <2>1
  <2>2. CASE i # Len(s) + 1
    <3>1. i \in 1..Len(s)
      BY <1>1, <2>2
    <3> QED
      BY <1>2, <3>1 DEF Segment
  <2> QED
    BY <2>1, <2>2
<1> QED
  BY <1>2, <1>3 DEF Segment

\* A segment stays one as the tape grows.
LEMMA SegmentsStay ==
  ASSUME tape \subseteq tape', NEW a, NEW s, Segment(s, a)
  PROVE  Segment(s, a)'
BY DEF Segment

----------------------------------------------------------------------------
(* What the job row and the writers say of an end.                         *)

Announced == \E x \in tape : x.type = "job_done"

\* The event comes first, the status after it.
JobInv ==
  /\ status \in {"queued", "running"} \cup Terminal /\ owner \in Owners \cup {Nobody}
  /\ status = "succeeded" => Announced
  /\ \A w \in Writers : writer[w].step = "mark" => writer[w].fate # "none"
  /\ \A w \in Writers :
       writer[w].fate = "succeeded" =>
         \/ writer[w].step \in {"read", "insert", "retry"} /\ writer[w].type = "job_done"
         \/ writer[w].step = "mark" /\ Announced

\* The tape only grows.
LEMMA TapeGrows == ASSUME [Next]_vars PROVE tape \subseteq tape'
BY DEF Next, vars, ReadMax, Insert, Retry, Written, Claim, RunEvent, Abandon, End, MarkTerminal, Crash, Recover,
       Resume, CancelQueued, Connect, RequestFails, ReaderWork, PollEvents, PollStatus, Deliver, ReadJob,
       ReadPage, OnlyReader

\* An append that announces the success puts it on the tape.
LEMMA WrittenJob ==
  ASSUME Inv, JobInv, NEW w \in Writers, NEW seq, Written(w, seq), UNCHANGED jobVars,
         writer[w].step \in {"insert", "retry"}
  PROVE  JobInv'
<1> USE DEF Inv, Types, Call, WriterStep
<1>1. writer' = [writer EXCEPT ![w] = [IdleWriter EXCEPT !.step = AfterAppend(w), !.fate = writer[w].fate]]
  BY DEF Written, Returned
<1>2. writer'[w].step = AfterAppend(w) /\ writer'[w].fate = writer[w].fate
  BY <1>1 DEF IdleWriter
<1>3. \A v \in Writers : v # w => writer'[v] = writer[v]
  BY <1>1
<1>4. Announced => Announced'
  BY DEF Written, Announced
<1>5. writer[w].type = "job_done" => Announced'
  <2>1. [seq |-> seq, type |-> writer[w].type] \in tape'
    BY DEF Written
  <2>2. [seq |-> seq, type |-> writer[w].type].type = writer[w].type
    OBVIOUS
  <2> QED
    BY <2>1, <2>2 DEF Announced
<1>6. /\ writer'[w].step = "mark" => writer'[w].fate # "none"
      /\ writer'[w].fate = "succeeded" => writer'[w].step = "mark" /\ Announced'
  BY <1>2, <1>5 DEF AfterAppend, JobInv
<1>7. status' = status /\ owner' = owner
  BY DEF jobVars
<1> QED
  BY <1>3, <1>4, <1>6, <1>7 DEF JobInv

\* A writer's call moves on, begins or is gone.
JobMoves(w) ==
  /\ tape' = tape
  /\ \A v \in Writers : v # w => writer'[v] = writer[v]
  /\ \/ status' \in {"queued", "running", "canceled", "failed", status}
     \/ writer[w].step = "mark" /\ status' = writer[w].fate
  /\ owner' \in {owner, Nobody} \cup (Owners \cap {w})
  /\ \/ writer'[w].step # "mark" /\ writer'[w].fate = "none"
     \/ /\ writer[w].step \in {"read", "insert"} /\ writer'[w].step \in {"insert", "retry"}
        /\ writer'[w].fate = writer[w].fate /\ writer'[w].type = writer[w].type
     \/ /\ writer'[w].step = "read" /\ writer'[w].fate # "none"
        /\ writer'[w].fate = "succeeded" => writer'[w].type = "job_done"

\* A move keeps what is said of an end.
LEMMA JobMovesInv ==
  ASSUME Inv, JobInv, NEW w \in Writers, JobMoves(w)
  PROVE  JobInv'
<1>1. Announced' <=> Announced
  BY DEF JobMoves, Announced
<1>2. /\ status' \in {"queued", "running"} \cup Terminal
      /\ status' = "succeeded" => Announced
  <2>1. writer[w].fate \in Terminal \cup {"none"}
    BY DEF Inv, Types, Call
  <2> QED
    BY <2>1 DEF JobMoves, JobInv, Terminal
<1>3. owner' \in Owners \cup {Nobody}
  BY DEF JobMoves, JobInv
<1>4. /\ writer'[w].step = "mark" => writer'[w].fate # "none"
      /\ writer'[w].fate = "succeeded" =>
           writer'[w].step \in {"read", "insert", "retry"} /\ writer'[w].type = "job_done"
  BY DEF JobMoves, JobInv, Endings
<1>5. \A v \in Writers : v # w => writer'[v] = writer[v]
  BY DEF JobMoves
<1> QED
  BY <1>1, <1>2, <1>3, <1>4, <1>5 DEF JobInv

\* The steps of a writer but its INSERTs are such moves.
LEMMA WriterJob ==
  ASSUME Inv, JobInv, NEW w \in Writers,
         \/ ReadMax(w) \/ Claim(w) \/ RunEvent(w) \/ Abandon(w) \/ End(w) \/ MarkTerminal(w) \/ Crash(w)
  PROVE  JobMoves(w)
<1> USE DEF Inv, Types, Call, WriterStep, JobMoves, jobVars
<1>1. CASE ReadMax(w)
  BY <1>1 DEF ReadMax
<1>2. CASE Claim(w) \/ RunEvent(w)
  BY <1>2 DEF Claim, RunEvent, Begin
<1>3. CASE Abandon(w) \/ Crash(w)
  BY <1>3 DEF Abandon, Crash, IdleWriter
<1>4. CASE MarkTerminal(w)
  <2>1. writer'[w] = IdleWriter /\ tape' = tape /\ \A v \in Writers : v # w => writer'[v] = writer[v]
    BY <1>4 DEF MarkTerminal
  <2>2. /\ writer[w].step = "mark"
        /\ \/ status' = writer[w].fate /\ owner' = Nobody
           \/ status' = status /\ owner' = owner
    BY <1>4 DEF MarkTerminal
  <2>3. writer'[w].fate = "none" /\ writer'[w].step = "idle"
    BY <2>1 DEF IdleWriter
  <2> QED
    BY <2>1, <2>2, <2>3
<1>5. CASE End(w)
  <2>1. PICK e \in Endings : Begin(w, e[1], e[2])
    BY <1>5 DEF End
  <2>2. writer'[w].step = "read" /\ writer'[w].type = e[1] /\ writer'[w].fate = e[2]
        /\ \A v \in Writers : v # w => writer'[v] = writer[v]
    BY <2>1 DEF Begin
  <2>3. e[2] # "none" /\ (e[2] = "succeeded" => e[1] = "job_done")
    BY DEF Endings
  <2>4. status' = status /\ owner' = owner /\ tape' = tape
    BY <1>5 DEF End
  <2> QED
    BY <2>2, <2>3, <2>4
<1> QED
  BY <1>1, <1>2, <1>3, <1>4, <1>5

\* Every step keeps it.
LEMMA NextJob == ASSUME Inv, JobInv, [Next]_vars PROVE JobInv'
<1>1. ASSUME NEW w \in Writers, Insert(w) PROVE JobInv'
  <2>1. CASE ~Taken(writer[w].seq) /\ Written(w, writer[w].seq)
    BY <1>1, <2>1, WrittenJob DEF Insert
  <2>2. CASE writer' = [writer EXCEPT ![w].step = "retry"] /\ UNCHANGED <<tape, returned>>
    <3>1. JobMoves(w)
      BY <1>1, <2>2 DEF Insert, JobMoves, jobVars, Inv, Types, Call, WriterStep
    <3> QED
      BY <3>1, JobMovesInv
  <2> QED
    BY <1>1, <2>1, <2>2 DEF Insert
<1>2. ASSUME NEW w \in Writers, Retry(w) PROVE JobInv'
  BY <1>2, WrittenJob DEF Retry
<1>3. ASSUME NEW w \in Writers,
             \/ ReadMax(w) \/ Claim(w) \/ RunEvent(w) \/ Abandon(w) \/ End(w) \/ MarkTerminal(w) \/ Crash(w)
      PROVE  JobInv'
  BY <1>3, WriterJob, JobMovesInv
<1>4. CASE Recover
  <2>1. JobMoves(Recovery) /\ Recovery \in Writers
    BY <1>4 DEF Recover, Begin, JobMoves, Inv, Types, Call, WriterStep, Writers
  <2> QED
    BY <2>1, JobMovesInv
<1>5. CASE Resume
  <2>1. JobMoves(Resumer) /\ Resumer \in Writers
    BY <1>5 DEF Resume, Begin, JobMoves, Inv, Types, Call, WriterStep, Writers
  <2> QED
    BY <2>1, JobMovesInv
<1>6. CASE CancelQueued
  BY <1>6 DEF CancelQueued, JobInv, Announced, Terminal
<1>7. CASE UNCHANGED <<jobVars, tape, writer>>
  BY <1>7 DEF jobVars, JobInv, Announced
<1>8. ASSUME UNCHANGED vars \/ \E c \in Readers : Connect(c) \/ RequestFails(c) \/ ReaderWork(c)
      PROVE  JobInv'
  BY <1>7, <1>8 DEF jobVars, vars, Connect, RequestFails, ReaderWork, PollEvents, PollStatus, Deliver,
     ReadJob, ReadPage, OnlyReader
<1> QED
  BY <1>1, <1>2, <1>3, <1>4, <1>5, <1>6, <1>8 DEF Next

----------------------------------------------------------------------------
(* The readers.                                                            *)

ReaderState ==
  [step : {"off", "events", "status", "deliver", "page", "closed"}, mode : {"history", "sse", "poll"},
   cursor : Nat, batch : Seq(EventRow), status : {"queued", "running"} \cup Terminal,
   got : Seq(EventRow), failures : 0..2]

\* A stream, or a page that has one: what is on its way begins at the cursor,
\* which a page set back to the start when its history was complete.
Streaming(c, r) ==
  r.mode = "sse" =>
    /\ r.step # "page"
    /\ Segment(r.batch, r.cursor) /\ r.cursor <= Len(r.got)
    /\ c \in Streams => r.cursor = Len(r.got)
    /\ r.step = "deliver" => r.batch # <<>>

\* A page that drains: what it has read and not yet shown begins where it is.
Draining(r) ==
  r.mode # "sse" =>
    /\ r.step \in {"status", "page", "closed"}
    /\ r.step # "closed" => Segment(r.batch, Len(r.got)) /\ r.cursor = Len(r.got) + Len(r.batch)
    /\ r.step = "status" => r.batch = <<>>
    /\ r.status = "succeeded" =>
         /\ r.step = "page" => Announced
         /\ r.step = "closed" => \E i \in 1..Len(r.got) : r.got[i].type = "job_done"

Reading(c, r) ==
  /\ r \in ReaderState /\ Segment(r.got, 0)
  /\ c \in Streams => r.mode = "sse"
  /\ r.step = "off" => r = OffReader
  /\ Streaming(c, r) /\ Draining(r)

ReaderInv ==
  /\ reader \in [Readers -> ReaderState]
  /\ \A c \in Readers : Reading(c, reader[c])

\* What is read of a tape that grows stays right.
LEMMA ReadingStays ==
  ASSUME tape \subseteq tape', NEW c, NEW r, Reading(c, r)
  PROVE  Reading(c, r)'
<1>1. Segment(r.got, 0)' /\ (Announced => Announced')
  BY SegmentsStay DEF Reading, Announced
<1>2. Streaming(c, r)'
  BY SegmentsStay DEF Reading, Streaming
<1>3. Draining(r)'
  BY <1>1, SegmentsStay DEF Reading, Draining
<1> QED
  BY <1>1, <1>2, <1>3 DEF Reading

\* The empty sequence is a segment anywhere.
LEMMA Nothing == ASSUME NEW a PROVE Segment(<<>>, a) /\ Len(<<>>) = 0 /\ <<>> \in Seq(EventRow)
BY EmptySeq DEF Segment

\* Facts of a reader that every step needs.
LEMMA Reader ==
  ASSUME Inv, ReaderInv, NEW c \in Readers
  PROVE  /\ reader[c] \in ReaderState /\ Reading(c, reader[c])
         /\ Segment(reader[c].got, 0) /\ Len(reader[c].got) \in Nat
         /\ Len(reader[c].got) <= returned /\ returned \in Nat
         /\ LastSeq(reader[c].got, 0) = Len(reader[c].got)
         /\ reader[c].cursor \in Nat
<1>1. /\ reader[c] \in ReaderState /\ Reading(c, reader[c]) /\ Segment(reader[c].got, 0) /\ returned \in Nat
  BY DEF ReaderInv, Reading, Inv, Types
<1> DEFINE s == reader[c].got
<1>2. Segment(s, 0) /\ 0 <= returned
  BY <1>1
<1> HIDE DEF s
<1>3. Len(s) \in Nat /\ 0 + Len(s) <= returned /\ LastSeq(s, 0) = 0 + Len(s)
  BY <1>2, SegmentEnds
<1>4. Len(s) \in Nat /\ Len(s) <= returned /\ LastSeq(s, 0) = Len(s)
  BY <1>1, <1>3
<1> QED
  BY <1>1, <1>4 DEF s, ReaderState

\* A reader connects.
LEMMA ConnectReads ==
  ASSUME Inv, ReaderInv, NEW c \in Readers, Connect(c)
  PROVE  Reading(c, reader'[c])
<1>1. OffReader \in ReaderState
  BY Nothing DEF OffReader, ReaderState
<1>2. OffReader.mode = "sse" /\ OffReader.cursor = 0 /\ OffReader.batch = <<>> /\ OffReader.got = <<>>
      /\ OffReader.status = "queued"
  BY DEF OffReader
<1>3. CASE c \in Streams
  <2> DEFINE q == [OffReader EXCEPT !.step = "events"]
  <2>1. reader'[c] = q
    BY <1>3 DEF Connect, Set, ReaderInv
  <2>2. q \in ReaderState /\ q.mode = "sse" /\ q.step = "events" /\ q.cursor = 0 /\ q.batch = <<>> /\ q.got = <<>>
    BY <1>1, <1>2 DEF ReaderState
  <2> HIDE DEF q
  <2>3. Reading(c, q)
    BY <1>3, <2>2, Nothing DEF Reading, Streaming, Draining
  <2> QED
    BY <2>1, <2>3
<1>4. CASE c \notin Streams
  <2> DEFINE q == [OffReader EXCEPT !.step = "status", !.mode = "history"]
  <2>1. reader'[c] = q
    BY <1>4 DEF Connect, Set, ReaderInv
  <2>2. /\ q \in ReaderState /\ q.mode = "history" /\ q.step = "status" /\ q.cursor = 0 /\ q.batch = <<>>
        /\ q.got = <<>> /\ q.status = "queued"
    BY <1>1, <1>2 DEF ReaderState
  <2> HIDE DEF q
  <2>3. Reading(c, q)
    BY <1>4, <2>2, Nothing DEF Reading, Streaming, Draining
  <2> QED
    BY <2>1, <2>3
<1> QED
  BY <1>3, <1>4

\* A page that polls, or a stream that is opened again.
LEMMA LostReads ==
  ASSUME Inv, ReaderInv, NEW c \in Readers, reader[c].step \notin {"off", "closed"}
  PROVE  /\ c \notin Streams => Reading(c, Polling(c))
         /\ reader[c].mode = "sse" => Reading(c, Reconnected(c))
         /\ reader[c].mode = "sse" /\ reader[c].failures # 2 =>
              Reading(c, [Reconnected(c) EXCEPT !.failures = @ + 1])
<1> DEFINE r == reader[c]
<1>1. /\ r \in ReaderState /\ Reading(c, r) /\ Segment(r.got, 0) /\ Len(r.got) \in Nat
      /\ LastSeq(r.got, 0) = Len(r.got)
  BY Reader
<1>2. ASSUME c \notin Streams PROVE Reading(c, Polling(c))
  <2> DEFINE q == Polling(c)
  <2>1. /\ q \in ReaderState /\ q.mode = "poll" /\ q.step = "status" /\ q.cursor = Len(r.got) /\ q.batch = <<>>
        /\ q.got = r.got
    BY <1>1, Nothing DEF Polling, ReaderState
  <2> HIDE DEF q, r
  <2> QED
    BY <1>1, <1>2, <2>1, Nothing DEF Reading, Streaming, Draining, q
<1>3. ASSUME NEW q, q \in ReaderState, r.mode = "sse",
             q.mode = "sse", q.step = "events", q.cursor = r.cursor, q.batch = <<>>, q.got = r.got
      PROVE  Reading(c, q)
  <2>1. r.cursor <= Len(r.got) /\ (c \in Streams => r.cursor = Len(r.got))
    BY <1>1, <1>3 DEF Reading, Streaming
  <2> HIDE DEF r
  <2> QED
    BY <1>1, <1>3, <2>1, Nothing DEF Reading, Streaming, Draining
<1>4. ASSUME r.mode = "sse" PROVE Reading(c, Reconnected(c))
  <2> DEFINE q == Reconnected(c)
  <2>1. /\ q \in ReaderState /\ q.mode = "sse" /\ q.step = "events" /\ q.cursor = r.cursor /\ q.batch = <<>>
        /\ q.got = r.got
    BY <1>1, <1>4, Nothing DEF Reconnected, ReaderState
  <2> QED
    BY <1>3, <1>4, <2>1
<1>5. ASSUME r.mode = "sse", r.failures # 2
      PROVE  Reading(c, [Reconnected(c) EXCEPT !.failures = @ + 1])
  <2> DEFINE q == [Reconnected(c) EXCEPT !.failures = @ + 1]
  <2>1. r.failures + 1 \in 0..2
    BY <1>1, <1>5 DEF ReaderState
  <2>2. /\ q \in ReaderState /\ q.mode = "sse" /\ q.step = "events" /\ q.cursor = r.cursor /\ q.batch = <<>>
        /\ q.got = r.got
    BY <1>1, <1>5, <2>1, Nothing DEF Reconnected, ReaderState
  <2> HIDE DEF q
  <2>3. Reading(c, q)
    BY <1>3, <1>5, <2>2
  <2> QED
    BY <2>3 DEF q
<1> QED
  BY <1>2, <1>4, <1>5
\* A request fails.
LEMMA FailedReads ==
  ASSUME Inv, ReaderInv, NEW c \in Readers, RequestFails(c)
  PROVE  Reading(c, reader'[c])
<1>1. /\ reader[c].step \notin {"off", "closed"}
      /\ reader'[c] \in {Polling(c), Reconnected(c), [Reconnected(c) EXCEPT !.failures = @ + 1]}
      /\ reader[c].mode # "sse" => reader'[c] = Polling(c)
      /\ reader[c].mode = "sse" /\ c \in Streams => reader'[c] = Reconnected(c)
      /\ reader[c].mode = "sse" /\ reader[c].failures = 2 => reader'[c] \in {Polling(c), Reconnected(c)}
  BY DEF RequestFails, Set, ReaderInv
<1>2. c \in Streams => reader[c].mode = "sse"
  BY Reader DEF Reading
<1> QED
  BY <1>1, <1>2, LostReads

\* A poll of the stream reads the events after the cursor.
LEMMA PollEventsReads ==
  ASSUME Inv, ReaderInv, NEW c \in Readers, PollEvents(c)
  PROVE  Reading(c, reader'[c])
<1> DEFINE r == reader[c]
           rows == EventsSince(r.cursor)
           q == [r EXCEPT !.step = "status", !.batch = rows]
<1>1. /\ r \in ReaderState /\ Reading(c, r) /\ Len(r.got) <= returned /\ Len(r.got) \in Nat /\ returned \in Nat
      /\ r.cursor \in Nat
  BY Reader
<1>2. r.step = "events" /\ reader'[c] = q
  BY DEF PollEvents, ReaderInv
<1>3. r.mode = "sse" /\ r.cursor <= Len(r.got) /\ (c \in Streams => r.cursor = Len(r.got))
  BY <1>1, <1>2 DEF Reading, Streaming, Draining
<1>4. Segment(rows, r.cursor)
  BY <1>1, <1>3, PageRead
<1>5. rows \in Seq(EventRow)
  BY <1>4 DEF Segment
<1> HIDE DEF rows
<1>6. /\ q \in ReaderState /\ q.step = "status" /\ q.batch = rows /\ q.mode = "sse" /\ q.cursor = r.cursor
      /\ q.got = r.got
  BY <1>1, <1>3, <1>5 DEF ReaderState
<1> HIDE DEF q
<1>7. Reading(c, q)
  BY <1>1, <1>3, <1>4, <1>6 DEF Reading, Streaming, Draining
<1> QED
  BY <1>2, <1>7

\* Then the status of the evaluation.
LEMMA PollStatusReads ==
  ASSUME Inv, JobInv, ReaderInv, NEW c \in Readers, PollStatus(c)
  PROVE  Reading(c, reader'[c])
<1> DEFINE r == reader[c]
           next == IF r.batch # <<>> THEN "deliver" ELSE IF status \in Terminal THEN "closed" ELSE "events"
           q == [r EXCEPT !.status = status, !.step = next]
<1>1. r \in ReaderState /\ Reading(c, r)
  BY Reader
<1>2. r.mode = "sse" /\ reader'[c] = q
  BY DEF PollStatus, ReaderInv
<1>3. next \in {"deliver", "closed", "events"} /\ (next = "deliver" => r.batch # <<>>)
  OBVIOUS
<1>4. status \in {"queued", "running"} \cup Terminal
  BY DEF JobInv
<1> HIDE DEF next
<1>5. /\ q \in ReaderState /\ q.step = next /\ q.batch = r.batch /\ q.mode = "sse" /\ q.cursor = r.cursor
      /\ q.got = r.got
  BY <1>1, <1>2, <1>3, <1>4 DEF ReaderState
<1> HIDE DEF q
<1>6. Reading(c, q)
  BY <1>1, <1>2, <1>3, <1>5 DEF Reading, Streaming, Draining
<1> QED
  BY <1>2, <1>6

\* An event is delivered: a stream appends it, a page ingests it.
LEMMA DeliverReads ==
  ASSUME Inv, ReaderInv, NEW c \in Readers, Deliver(c)
  PROVE  Reading(c, reader'[c])
<1> DEFINE r == reader[c]
           e == Head(r.batch)
           fresh == e \notin ToSet(r.got)
           got == IF c \in Streams THEN Append(r.got, e) ELSE Ingest(r.got, <<e>>)
           failed == IF fresh THEN 0 ELSE r.failures
           next == IF c \in Hooks /\ fresh /\ e.type \in TerminalEvents THEN "closed"
                   ELSE IF Len(r.batch) = 1 THEN "events" ELSE "deliver"
           q == [r EXCEPT !.got = got, !.cursor = e.seq, !.batch = Tail(r.batch), !.failures = failed, !.step = next]
<1>1. /\ r \in ReaderState /\ Reading(c, r) /\ Len(r.got) <= returned /\ Len(r.got) \in Nat /\ Segment(r.got, 0)
      /\ r.cursor \in Nat
  BY Reader
<1>2. r.step = "deliver" /\ reader'[c] = q
  BY DEF Deliver, Set, ReaderInv
<1>3. /\ r.mode = "sse" /\ r.cursor <= Len(r.got) /\ (c \in Streams => r.cursor = Len(r.got))
      /\ Segment(r.batch, r.cursor) /\ r.batch # <<>>
  BY <1>1, <1>2 DEF Reading, Streaming, Draining
<1>4. /\ Segment(<<e>>, r.cursor) /\ Len(<<e>>) = 1 /\ e \in tape /\ e \in EventRow /\ e.seq = r.cursor + 1
      /\ Segment(Tail(r.batch), r.cursor + 1) /\ Len(Tail(r.batch)) = Len(r.batch) - 1 /\ Len(r.batch) \in Nat \ {0}
  BY <1>1, <1>3, FirstRow
<1>5. /\ Segment(got, 0) /\ Len(got) \in Nat /\ e.seq <= Len(got) /\ (c \in Streams => e.seq = Len(got))
  <2>1. CASE c \in Streams
    <3>1. e.seq = Len(r.got) + 1
      BY <1>3, <1>4, <2>1
    <3>2. Segment(Append(r.got, e), 0) /\ Len(Append(r.got, e)) = Len(r.got) + 1
      BY <1>1, <1>4, <3>1, OneMore
    <3> QED
      BY <1>1, <2>1, <3>1, <3>2
  <2>2. CASE c \notin Streams
    <3>1. /\ Segment(Ingest(r.got, <<e>>), 0)
          /\ Len(Ingest(r.got, <<e>>)) = Larger(Len(r.got), r.cursor + Len(<<e>>))
      BY <1>1, <1>3, <1>4, Ingested
    <3> HIDE DEF e
    <3> QED
      BY <1>1, <1>4, <2>2, <3>1 DEF Larger
  <2> QED
    BY <2>1, <2>2
<1>6. /\ next \in {"closed", "events", "deliver"} /\ (next = "deliver" => Len(r.batch) # 1)
      /\ failed \in 0..2
  BY <1>1 DEF ReaderState
<1>7. got \in Seq(EventRow) /\ Tail(r.batch) \in Seq(EventRow) /\ e.seq \in Nat
  BY <1>1, <1>4, <1>5 DEF Segment
<1>8. next = "deliver" => Tail(r.batch) # <<>>
  <2>1. next = "deliver" => Len(Tail(r.batch)) # 0
    BY <1>4, <1>6
  <2> HIDE DEF next, r
  <2>2. Len(<<>>) = 0
    BY Nothing
  <2> QED
    BY <2>1, <2>2
<1> HIDE DEF got, next, failed, e
<1>9. /\ q \in ReaderState /\ q.step = next /\ q.batch = Tail(r.batch) /\ q.mode = "sse" /\ q.cursor = e.seq
      /\ q.got = got
  BY <1>1, <1>3, <1>6, <1>7 DEF ReaderState
<1> HIDE DEF q
<1>10. Reading(c, q)
  <2>1. Segment(q.batch, q.cursor) /\ Segment(q.got, 0)
    BY <1>4, <1>5, <1>9
  <2> HIDE DEF r
  <2> QED
    BY <2>1, <1>5, <1>6, <1>8, <1>9 DEF Reading, Streaming, Draining
<1> QED
  BY <1>2, <1>10

\* A page reads the status before the events: a success is then on the tape.
LEMMA ReadJobReads ==
  ASSUME Inv, JobInv, ReaderInv, NEW c \in Readers, ReadJob(c)
  PROVE  Reading(c, reader'[c])
<1> DEFINE r == reader[c]
           q == [r EXCEPT !.status = status, !.step = "page"]
<1>1. r \in ReaderState /\ Reading(c, r)
  BY Reader
<1>2. r.mode # "sse" /\ r.step = "status" /\ reader'[c] = q
  BY DEF ReadJob, Set, ReaderInv
<1>3. status \in {"queued", "running"} \cup Terminal /\ (status = "succeeded" => Announced)
  BY DEF JobInv
<1>4. /\ q \in ReaderState /\ q.step = "page" /\ q.batch = r.batch /\ q.mode = r.mode /\ q.cursor = r.cursor
      /\ q.got = r.got /\ q.status = status
  BY <1>1, <1>2, <1>3 DEF ReaderState
<1> HIDE DEF q
<1>5. Reading(c, q)
  BY <1>1, <1>2, <1>3, <1>4 DEF Reading, Streaming, Draining
<1> QED
  BY <1>2, <1>5

\* A page that has drained the tape has all of it.
LEMMA DrainedReads ==
  ASSUME Inv, ReaderInv, NEW c \in Readers, reader[c].mode # "sse", reader[c].step = "page",
         NEW rows, Segment(rows, Len(reader[c].got)), Len(reader[c].got) + Len(rows) = returned
  PROVE  Reading(c, Drained(c, rows))
<1> DEFINE r == reader[c]
           got == Ingest(r.got, rows)
           ended == r.status \in Terminal /\ (r.mode = "poll" => rows = <<>>)
           q == Drained(c, rows)
           n == Len(r.got)
<1>1. /\ r \in ReaderState /\ Reading(c, r) /\ n \in Nat /\ Segment(r.got, 0) /\ n <= returned /\ returned \in Nat
  BY Reader
<1>2. Segment(got, 0) /\ Len(got) = returned
  <2>1. Segment(r.got, 0) /\ n \in Nat /\ n <= Len(r.got) /\ Segment(rows, n)
    BY <1>1
  <2>2. Segment(got, 0) /\ Len(got) = Larger(Len(r.got), n + Len(rows))
    <3> HIDE DEF n, r
    <3> QED
      BY <2>1, Ingested
  <2> QED
    BY <1>1, <2>2 DEF Larger
<1>3. got \in Seq(EventRow) /\ LastSeq(got, 0) = returned
  <2> HIDE DEF got
  <2>1. 0 <= returned /\ got \in Seq(EventRow)
    BY <1>1, <1>2 DEF Segment
  <2>2. LastSeq(got, 0) = 0 + Len(got)
    BY <1>2, <2>1, SegmentEnds
  <2> QED
    BY <1>1, <1>2, <2>1, <2>2
<1>4. c \notin Streams
  BY <1>1 DEF Reading
<1>5. r.status = "succeeded" => \E i \in 1..Len(got) : got[i].type = "job_done"
  <2>1. SUFFICES ASSUME r.status = "succeeded" PROVE \E i \in 1..Len(got) : got[i].type = "job_done"
    OBVIOUS
  <2>2. PICK x \in tape : x.type = "job_done"
    BY <1>1, <2>1 DEF Reading, Draining, Announced
  <2>3. x.seq \in 1..Len(got)
    BY <1>2, Numbered
  <2> HIDE DEF got
  <2>4. got[x.seq] \in tape /\ got[x.seq].seq = 0 + x.seq
    BY <1>2, <2>3 DEF Segment
  <2>5. got[x.seq] = x
    BY <2>3, <2>4, <1>1, <1>2, Numbered
  <2> QED
    BY <2>2, <2>3, <2>5
<1>6. r.mode \in {"history", "poll"} /\ r.status \in {"queued", "running"} \cup Terminal
  BY <1>1 DEF ReaderState
<1> DEFINE d == [r EXCEPT !.got = got, !.batch = <<>>]
<1>10. /\ Drained(c, rows) = IF ended THEN [d EXCEPT !.step = "closed", !.cursor = 0]
                            ELSE IF r.mode = "poll" THEN [d EXCEPT !.step = "status", !.cursor = LastSeq(got, 0)]
                            ELSE [d EXCEPT !.mode = "sse", !.step = "events", !.cursor = 0]
  <2>1. d.status = r.status /\ d.mode = r.mode /\ d.got = got
    BY <1>1 DEF ReaderState
  <2> QED
    BY <2>1 DEF Drained
<1> HIDE DEF got
<1>11. /\ d \in ReaderState /\ d.status = r.status /\ d.mode = r.mode /\ d.got = got /\ d.batch = <<>>
  BY <1>1, <1>3, Nothing DEF ReaderState
<1> HIDE DEF d
<1>7. CASE ended
  <2> DEFINE start == 0
  <2>1. q = [d EXCEPT !.step = "closed", !.cursor = start]
    BY <1>7, <1>10
  <2>4. start \in Nat
    OBVIOUS
  <2> HIDE DEF q, start
  <2>2. q \in ReaderState /\ q.step = "closed" /\ q.mode = r.mode /\ q.got = got /\ q.status = r.status
    BY <1>11, <2>1, <2>4 DEF ReaderState
  <2>3. Reading(c, q)
    BY <1>2, <1>4, <1>5, <1>6, <2>2 DEF Reading, Streaming, Draining
  <2> QED
    BY <2>3 DEF q
<1>8. CASE ~ended /\ r.mode = "poll"
  <2> DEFINE last == LastSeq(got, 0)
  <2>1. q = [d EXCEPT !.step = "status", !.cursor = last]
    BY <1>8, <1>10
  <2>4. last = Len(got) /\ last \in Nat
    BY <1>2, <1>3
  <2> HIDE DEF q, last
  <2>2. /\ q \in ReaderState /\ q.step = "status" /\ q.mode = "poll" /\ q.got = got /\ q.batch = <<>>
        /\ q.cursor = Len(got)
    BY <1>8, <1>11, <2>1, <2>4 DEF ReaderState
  <2>3. Reading(c, q)
    BY <1>1, <1>2, <1>4, <2>2, Nothing DEF Reading, Streaming, Draining
  <2> QED
    BY <2>3 DEF q
<1>9. CASE ~ended /\ r.mode # "poll"
  <2> DEFINE start == 0
  <2>1. q = [d EXCEPT !.mode = "sse", !.step = "events", !.cursor = start]
    BY <1>9, <1>10
  <2>4. start \in Nat /\ start = 0
    OBVIOUS
  <2> HIDE DEF q, start
  <2>2. /\ q \in ReaderState /\ q.step = "events" /\ q.mode = "sse" /\ q.got = got /\ q.batch = <<>> /\ q.cursor = 0
    BY <1>11, <2>1, <2>4 DEF ReaderState
  <2>3. Reading(c, q)
    BY <1>1, <1>2, <1>4, <2>2, Nothing DEF Reading, Streaming, Draining
  <2> QED
    BY <2>3 DEF q
<1> QED
  BY <1>7, <1>8, <1>9

\* A page of the history or of a poll is read.
LEMMA ReadPageReads ==
  ASSUME Inv, ReaderInv, NEW c \in Readers, ReadPage(c)
  PROVE  Reading(c, reader'[c])
<1> DEFINE r == reader[c]
           page == EventsSince(r.cursor)
           rows == r.batch \o page
           n == Len(r.got)
<1>1. /\ r \in ReaderState /\ Reading(c, r) /\ n \in Nat /\ Segment(r.got, 0) /\ n <= returned /\ returned \in Nat
  BY Reader
<1>2. r.step = "page" /\ r.mode # "sse" /\ Segment(r.batch, n) /\ r.cursor = n + Len(r.batch)
  BY <1>1 DEF ReadPage, Reading, Streaming, Draining
<1>3. Len(r.batch) \in Nat /\ r.cursor <= returned /\ r.cursor \in Nat
  <2>1. Segment(r.batch, n) /\ n \in Nat /\ n <= returned
    BY <1>1, <1>2
  <2>2. Len(r.batch) \in Nat /\ n + Len(r.batch) <= returned
    <3> HIDE DEF n
    <3> QED
      BY <2>1, SegmentEnds
  <2> DEFINE m == Len(r.batch)
             at == r.cursor
  <2>3. at = n + m /\ m \in Nat /\ n \in Nat /\ n + m <= returned
    BY <1>1, <1>2, <2>2
  <2> HIDE DEF n, m, at, r
  <2>4. at \in Nat /\ at <= returned
    BY <2>3
  <2>5. m \in Nat /\ at <= returned /\ at \in Nat
    BY <2>3, <2>4
  <2> QED
    BY <2>5 DEF m, at
<1>4. Segment(page, r.cursor) /\ (Len(page) < PageLimit => r.cursor + Len(page) = returned) /\ Len(page) \in Nat
  <2>1. Segment(page, r.cursor) /\ (Len(page) < PageLimit => r.cursor + Len(page) = returned)
    BY <1>3, PageRead
  <2> HIDE DEF page, r
  <2>2. page \in Seq(EventRow)
    BY <2>1 DEF Segment
  <2>3. Len(page) \in Nat
    BY <2>2
  <2> QED
    BY <2>1, <2>3
<1> HIDE DEF page
<1>5. Segment(rows, n) /\ Len(rows) = Len(r.batch) + Len(page)
  <2> DEFINE s == r.batch
  <2>1. Segment(s, n) /\ Segment(page, n + Len(s)) /\ n \in Nat /\ rows = s \o page
    BY <1>1, <1>2, <1>4
  <2> HIDE DEF s, n, rows
  <2>2. Segment(s \o page, n) /\ Len(s \o page) = Len(s) + Len(page)
    BY <2>1, Adjacent
  <2> QED
    BY <2>1, <2>2 DEF s
<1>6. CASE Len(page) < PageLimit
  <2>1. reader'[c] = Drained(c, rows)
    BY <1>6 DEF ReadPage, Set, ReaderInv, page
  <2> HIDE DEF rows
  <2>2. n + Len(rows) = returned
    <3> HIDE DEF n, r
    <3> QED
      BY <1>1, <1>2, <1>3, <1>4, <1>5, <1>6
  <2> QED
    BY <1>2, <1>5, <2>1, <2>2, DrainedReads
<1>7. CASE ~(Len(page) < PageLimit)
  <2> DEFINE k == LastSeq(rows, r.cursor)
             q == [r EXCEPT !.batch = rows, !.cursor = k]
  <2>1. reader'[c] = q
    BY <1>7 DEF ReadPage, Set, ReaderInv, page
  <2>2. rows # <<>> /\ Len(rows) \in Nat \ {0} /\ rows \in Seq(EventRow)
    <3>1. Len(rows) # 0
      BY <1>3, <1>4, <1>5, <1>7, EventsAssumption
    <3> HIDE DEF rows
    <3> QED
      BY <1>5, <3>1, EmptySeq DEF Segment
  <2> HIDE DEF rows
  <2>3. LastSeq(rows, n) = n + Len(rows)
    BY <1>1, <1>5, SegmentEnds
  <2>4. k = n + Len(rows) /\ k \in Nat
    BY <1>1, <2>2, <2>3 DEF LastSeq
  <2> HIDE DEF k
  <2>5. /\ q \in ReaderState /\ q.step = "page" /\ q.mode = r.mode /\ q.batch = rows /\ q.cursor = n + Len(rows)
        /\ q.got = r.got /\ q.status = r.status
    BY <1>1, <1>2, <2>2, <2>4 DEF ReaderState
  <2> HIDE DEF q
  <2>6. Reading(c, q)
    BY <1>1, <1>2, <1>5, <2>5 DEF Reading, Streaming, Draining
  <2> QED
    BY <2>1, <2>6
<1> QED
  BY <1>6, <1>7

\* A step of a reader leaves the tape and the other readers alone.
LEMMA ReaderSteps ==
  ASSUME Inv, JobInv, ReaderInv, NEW c \in Readers, Connect(c) \/ RequestFails(c) \/ ReaderWork(c)
  PROVE  /\ Reading(c, reader'[c]) /\ UNCHANGED tape
         /\ reader' = [reader EXCEPT ![c] = reader'[c]]
<1>1. Reading(c, reader'[c])
  BY ConnectReads, FailedReads, PollEventsReads, PollStatusReads, DeliverReads, ReadJobReads, ReadPageReads
     DEF ReaderWork
<1>2. tape' = tape /\ \E q : reader' = [reader EXCEPT ![c] = q]
  BY DEF Connect, RequestFails, ReaderWork, PollEvents, PollStatus, Deliver, ReadJob, ReadPage, OnlyReader, Set
<1>3. reader' = [reader EXCEPT ![c] = reader'[c]]
  BY <1>2 DEF ReaderInv
<1> QED
  BY <1>1, <1>2, <1>3

\* Every step keeps what the readers hold.
LEMMA NextReader == ASSUME Inv, JobInv, ReaderInv, [Next]_vars PROVE ReaderInv'
<1>1. tape \subseteq tape'
  BY TapeGrows
<1>2. CASE UNCHANGED reader
  <2>1. ASSUME NEW c \in Readers PROVE Reading(c, reader[c])'
    <3>1. PICK r : r = reader[c]
      OBVIOUS
    <3>2. Reading(c, r)'
      BY <1>1, <3>1, ReadingStays DEF ReaderInv
    <3>3. r = reader'[c]
      BY <1>2, <3>1
    <3> QED
      BY <3>2, <3>3
  <2> QED
    BY <1>2, <2>1 DEF ReaderInv
<1>3. ASSUME NEW c \in Readers, Connect(c) \/ RequestFails(c) \/ ReaderWork(c)
      PROVE  ReaderInv'
  <2>1. Reading(c, reader'[c]) /\ tape' = tape /\ reader' = [reader EXCEPT ![c] = reader'[c]]
    BY <1>3, ReaderSteps
  <2>2. ASSUME NEW b \in Readers PROVE Reading(b, reader'[b]) /\ reader'[b] \in ReaderState
    BY <2>1 DEF ReaderInv, Reading
  <2>3. ASSUME NEW b \in Readers PROVE Reading(b, reader[b])'
    <3>1. PICK r : r = reader'[b]
      OBVIOUS
    <3>2. Reading(b, r)'
      BY <1>1, <2>2, <3>1, ReadingStays
    <3> QED
      BY <3>1, <3>2
  <2>4. reader' \in [Readers -> ReaderState]
    BY <2>1, <2>2 DEF ReaderInv
  <2> QED
    BY <2>3, <2>4 DEF ReaderInv
<1>4. ASSUME NEW w \in Writers,
             \/ ReadMax(w) \/ Insert(w) \/ Retry(w) \/ Claim(w) \/ RunEvent(w)
             \/ Abandon(w) \/ End(w) \/ MarkTerminal(w) \/ Crash(w)
      PROVE  UNCHANGED reader
  BY <1>4 DEF ReadMax, Insert, Retry, Claim, RunEvent, Abandon, End, MarkTerminal, Crash
<1>5. ASSUME Recover \/ Resume \/ CancelQueued \/ UNCHANGED vars
      PROVE  UNCHANGED reader
  BY <1>5 DEF Recover, Resume, CancelQueued, vars
<1> QED
  BY <1>2, <1>3, <1>4, <1>5 DEF Next

\* Both hold at first.
LEMMA InitReader == Init => JobInv /\ ReaderInv
<1> SUFFICES ASSUME Init PROVE JobInv /\ ReaderInv
  OBVIOUS
<1>1. JobInv
  BY DEF Init, JobInv, IdleWriter, Terminal
<1>2. OffReader \in ReaderState
  BY Nothing DEF OffReader, ReaderState
<1>3. OffReader.mode = "sse" /\ OffReader.step = "off" /\ OffReader.cursor = 0 /\ OffReader.batch = <<>>
      /\ OffReader.got = <<>>
  BY DEF OffReader
<1>4. ASSUME NEW c PROVE Reading(c, OffReader)
  BY <1>2, <1>3, Nothing DEF Reading, Streaming, Draining
<1>5. reader = [c \in Readers |-> OffReader]
  BY DEF Init
<1>6. ReaderInv
  BY <1>2, <1>4, <1>5 DEF ReaderInv
<1> QED
  BY <1>1, <1>6

\* The three hold in every reachable state.
LEMMA Following == Spec => [](Inv /\ JobInv /\ ReaderInv)
<1>1. Init => Inv /\ JobInv /\ ReaderInv
  BY InitInv, InitReader
<1>2. Inv /\ JobInv /\ ReaderInv /\ [Next]_vars => (Inv /\ JobInv /\ ReaderInv)'
  BY NextInv, NextJob, NextReader
<1> QED
  BY <1>1, <1>2, PTL DEF Spec

\* The variables have their types: what the tape, the job row, the writers and
\* the readers hold (jobs.py, routes_jobs.py, useJobEvents.ts).
THEOREM EventsTyped == Spec => []EventsTypeOK
<1>1. ASSUME Inv, JobInv, ReaderInv PROVE EventsTypeOK
  <2>1. /\ status \in {"queued", "running"} \cup Terminal
        /\ owner \in Owners \cup {Nobody} /\ wlock \in Writers \cup {Nobody}
        /\ (\A x \in tape : x \in EventRow) /\ returned \in Nat
    BY <1>1 DEF Inv, Types, JobInv
  <2>2. ASSUME NEW w \in Writers
        PROVE  /\ writer[w].step \in {"idle", "work", "read", "insert", "retry", "mark"}
               /\ writer[w].type \in EventType /\ writer[w].seq \in Nat
               /\ writer[w].fate \in Terminal \cup {"none"}
    BY <1>1 DEF Inv, Types, Call, WriterStep
  <2>3. ASSUME NEW c \in Readers
        PROVE  /\ reader[c].step \in {"off", "events", "status", "deliver", "page", "closed"}
               /\ reader[c].mode \in {"history", "sse", "poll"} /\ reader[c].failures \in 0..2
               /\ \A i \in 1..Len(reader[c].got) : reader[c].got[i] \in EventRow
    <3>1. reader[c] \in ReaderState
      BY <1>1 DEF ReaderInv
    <3>2. reader[c].got \in Seq(EventRow)
      BY <3>1 DEF ReaderState
    <3>3. \A i \in 1..Len(reader[c].got) : reader[c].got[i] \in EventRow
      BY <3>2, ElementOfSeq
    <3> QED
      BY <3>1, <3>3 DEF ReaderState
  <2> QED
    BY <2>1, <2>2, <2>3 DEF EventsTypeOK
<1> QED
  BY <1>1, Following, PTL

\* What every stream and every page holds is the tape from its first event, in
\* order, without a gap or a repetition, whatever committed while it read, and
\* however often it lost its connection (events_since, the SSE route, ingest).
THEOREM ReadersHoldThePrefix == Spec => []NoGapNoRepeat
<1>1. ASSUME Inv, ReaderInv PROVE NoGapNoRepeat
  <2> SUFFICES ASSUME NEW c \in Readers
               PROVE  reader[c].got = InOrder({x \in tape : x.seq <= LastSeq(reader[c].got, 0)})
    BY DEF NoGapNoRepeat
  <2> DEFINE got == reader[c].got
  <2>1. Segment(got, 0) /\ Len(got) \in Nat /\ Len(got) <= returned /\ LastSeq(got, 0) = Len(got)
    BY <1>1, Reader
  <2>2. {x \in tape : x.seq <= Len(got)} = Slice(0, Len(got))
    BY <1>1, Numbered DEF Slice
  <2> HIDE DEF got
  <2>3. Segment(InOrder(Slice(0, Len(got))), 0) /\ Len(InOrder(Slice(0, Len(got)))) = Len(got) - 0
    BY <1>1, <2>1, SliceInOrder
  <2>4. Len(InOrder(Slice(0, Len(got)))) = Len(got)
    BY <2>1, <2>3
  <2>5. got = InOrder(Slice(0, Len(got)))
    BY <1>1, <2>1, <2>3, <2>4, SegmentsEqual
  <2>6. got = InOrder({x \in tape : x.seq <= LastSeq(got, 0)})
    BY <2>1, <2>2, <2>5
  <2> QED
    BY <2>6 DEF got
<1> QED
  BY <1>1, Following, PTL

\* A page that stopped because it read that the evaluation succeeded shows the
\* event that ended it: the owner appends before it commits the status, and the
\* page reads the status before the events (finish, drainJobEvents).
THEOREM PagesSeeTheEnd == Spec => []DrainSawTheEnd
<1>1. ReaderInv => DrainSawTheEnd
  BY DEF ReaderInv, Reading, Draining, DrainSawTheEnd, Readers
<1> QED
  BY <1>1, Following, PTL
=============================================================================
