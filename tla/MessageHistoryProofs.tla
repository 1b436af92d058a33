------------------------ MODULE MessageHistoryProofs ------------------------
(***************************************************************************)
(* The ring buffer keeps the latest messages, whatever its size.           *)
(*                                                                         *)
(* Represents ties a buffer to the sequence of all messages added to it.   *)
(* The empty buffer represents the empty sequence, Add keeps the relation  *)
(* (AddRepresents), and Recent of a buffer that represents a sequence is   *)
(* the sequence's end, newest first (RecentIsLatest).                      *)
(***************************************************************************)
EXTENDS MessageHistory, TLAPS

\* One wrap is all the arithmetic of head and start ever needs.
LEMMA Wrap ==
    ASSUME NEW x \in 0..(2 * HistorySize - 1)
    PROVE  x % HistorySize = IF x < HistorySize THEN x ELSE x - HistorySize
PROOF
  <1>. USE HistoryAssumption
  <1>1. CASE x < HistorySize
    BY <1>1
  <1>2. CASE x >= HistorySize
    BY <1>2
  <1>. QED
    BY <1>1, <1>2

\* The zero History holds nothing.
THEOREM EmptyRepresents ==
    ASSUME NEW unset
    PROVE  Represents(EmptyHistory(unset), <<>>)
PROOF
  <1>. USE HistoryAssumption
  <1>1. Kept(<<>>) = 0
    BY DEF Kept
  <1>. QED
    BY <1>1 DEF Represents, EmptyHistory, AHistory, Slots

\* History.Add: the new message takes the slot of the oldest one once the
\* buffer is full, and no other message moves.
THEOREM AddRepresents ==
    ASSUME NEW M, NEW log \in Seq(M), NEW m \in M, NEW h,
           Represents(h, log)
    PROVE  Represents(Add(h, m), Append(log, m))
PROOF
  <1>. USE HistoryAssumption
  <1>. DEFINE log2 == Append(log, m)
              h2 == Add(h, m)
              N == HistorySize
  <1>1. /\ h.head \in 0..(N - 1) /\ h.count = Kept(log) /\ DOMAIN h.buf = Slots
        /\ \A i \in 1..Kept(log) : h.buf[Back(h.head, i)] = log[Len(log) + 1 - i]
    BY DEF Represents, Slots
  <1>2. /\ Len(log) \in Nat /\ Len(log2) = Len(log) + 1 /\ log2[Len(log) + 1] = m
        /\ \A j \in 1..Len(log) : log2[j] = log[j]
    OBVIOUS
  <1>3. /\ h2.buf = [h.buf EXCEPT ![h.head] = m]
        /\ h2.head = (h.head + 1) % N
        /\ h2.count = IF h.count < N THEN h.count + 1 ELSE h.count
    BY DEF Add, AHistory
  <1>4. h2.head = IF h.head + 1 < N THEN h.head + 1 ELSE 0
    <2>1. h.head + 1 \in 0..(2 * N - 1)
      BY <1>1
    <2>. QED
      BY <2>1, <1>1, <1>3, Wrap
  <1>5. h2.head \in Slots /\ DOMAIN h2.buf = Slots
    BY <1>1, <1>3, <1>4 DEF Slots
  <1>6. h2.count = Kept(log2)
    BY <1>1, <1>2, <1>3 DEF Kept
  <1>7. ASSUME NEW i \in 1..Kept(log2)
        PROVE  h2.buf[Back(h2.head, i)] = log2[Len(log2) + 1 - i]
    <2>1. i \in Nat /\ 1 <= i /\ i <= N /\ i <= Len(log) + 1
      BY <1>2 DEF Kept
    <2>2. CASE i = 1
      <3>1. Back(h2.head, 1) = h.head
        BY <1>1, <1>4 DEF Back
      <3>. QED
        BY <3>1, <2>2, <1>1, <1>2, <1>3 DEF Slots
    <2>3. CASE i > 1
      <3>1. i - 1 \in 1..Kept(log)
        BY <2>1, <2>3, <1>2 DEF Kept
      <3>2. /\ Back(h2.head, i) = Back(h.head, i - 1)
            /\ Back(h.head, i - 1) # h.head
        BY <1>1, <1>4, <2>1, <2>3 DEF Back
      <3>3. Back(h.head, i - 1) \in Slots
        BY <1>1, <2>1, <2>3 DEF Back, Slots
      <3>4. h2.buf[Back(h2.head, i)] = h.buf[Back(h.head, i - 1)]
        BY <3>2, <3>3, <1>1, <1>3
      <3>5. h.buf[Back(h.head, i - 1)] = log[Len(log) + 1 - (i - 1)]
        BY <3>1, <1>1
      <3>6. Len(log) + 1 - (i - 1) = Len(log2) + 1 - i /\ Len(log2) + 1 - i \in 1..Len(log)
        BY <2>1, <2>3, <1>2
      <3>. QED
        BY <3>4, <3>5, <3>6, <1>2
    <2>. QED
      BY <2>1, <2>2, <2>3
  <1>. QED
    BY <1>5, <1>6, <1>7 DEF Represents

\* History.Recent: the status page gets the latest messages, newest first,
\* whether the buffer is partly filled, just full or wrapped.
THEOREM RecentIsLatest ==
    ASSUME NEW M, NEW log \in Seq(M), NEW h, Represents(h, log)
    PROVE  Recent(h) = Latest(log)
PROOF
  <1>. USE HistoryAssumption
  <1>. DEFINE N == HistorySize
  <1>1. /\ h.head \in 0..(N - 1) /\ h.count = Kept(log)
        /\ \A i \in 1..Kept(log) : h.buf[Back(h.head, i)] = log[Len(log) + 1 - i]
    BY DEF Represents, Slots
  <1>2. h.count \in 0..N
    BY <1>1 DEF Kept
  <1>3. Oldest(h) = IF h.head < h.count THEN h.head - h.count + N ELSE h.head - h.count
    <2>. DEFINE x == h.head - h.count + N
    <2>1. x \in 0..(2 * N - 1) /\ (x < N <=> h.head < h.count)
      BY <1>1, <1>2
    <2>2. Oldest(h) = x % N
      BY DEF Oldest
    <2>. HIDE DEF x
    <2>3. Oldest(h) = IF x < N THEN x ELSE x - N
      BY <2>1, <2>2, Wrap
    <2>. QED
      BY <2>1, <2>3, <1>1, <1>2 DEF x
  <1>4. ASSUME NEW k \in 1..h.count
        PROVE  (Oldest(h) + (h.count - k)) % N = Back(h.head, k)
    <2>. DEFINE x == Oldest(h) + (h.count - k)
    <2>1. x \in 0..(2 * N - 1)
      BY <1>1, <1>2, <1>3
    <2>. HIDE DEF x
    <2>2. x % N = IF x < N THEN x ELSE x - N
      BY <2>1, Wrap
    <2>3. (IF x < N THEN x ELSE x - N) = Back(h.head, k)
      BY <1>1, <1>2, <1>3 DEF Back, x
    <2>. QED
      BY <2>2, <2>3 DEF x
  <1>5. \A k \in 1..h.count :
          h.buf[(Oldest(h) + (h.count - k)) % N] = log[Len(log) + 1 - k]
    BY <1>1, <1>4
  <1>. QED
    BY <1>1, <1>5 DEF Recent, Latest
=============================================================================
