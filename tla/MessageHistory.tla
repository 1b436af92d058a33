--------------------------- MODULE MessageHistory ---------------------------
(***************************************************************************)
(* The ring buffer that keeps the latest messages of a poller for the      *)
(* status page: History.Add and History.Recent.                            *)
(***************************************************************************)
EXTENDS Integers, Sequences

CONSTANT HistorySize    \* slots of the buffer; 100 in the code

ASSUME HistoryAssumption == HistorySize \in Nat \ {0}

Slots == 0..(HistorySize - 1)

AHistory(buf, head, count) == [buf |-> buf, head |-> head, count |-> count]

\* The zero History: no slot is set.
EmptyHistory(unset) == AHistory([i \in Slots |-> unset], 0, 0)

Add(h, m) ==
    AHistory([h.buf EXCEPT ![h.head] = m],
             (h.head + 1) % HistorySize,
             IF h.count < HistorySize THEN h.count + 1 ELSE h.count)

\* The slot of the oldest message kept.
Oldest(h) == (h.head - h.count + HistorySize) % HistorySize

\* From the oldest on, filled in from the end.
Recent(h) ==
    [k \in 1..h.count |-> h.buf[(Oldest(h) + (h.count - k)) % HistorySize]]

----------------------------------------------------------------------------
(* What it should hold: the latest messages of all that were added.        *)

Kept(log) == IF Len(log) < HistorySize THEN Len(log) ELSE HistorySize

\* Newest first.
Latest(log) == [k \in 1..Kept(log) |-> log[Len(log) + 1 - k]]

\* The slot that was written i additions ago.
Back(head, i) == IF head >= i THEN head - i ELSE head - i + HistorySize

\* The buffer holds what is to be kept of log, each message in its slot.
Represents(h, log) ==
    /\ h.head \in Slots /\ h.count = Kept(log)
    /\ DOMAIN h.buf = Slots
    /\ \A i \in 1..Kept(log) : h.buf[Back(h.head, i)] = log[Len(log) + 1 - i]
=============================================================================
