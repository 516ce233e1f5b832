--------------------------- MODULE RunStreamProofs ---------------------------
(***************************************************************************)
(* Proofs about RunStream, for any number of browsers, any capacity of the *)
(* buffer, any length of the log and any number of lost connections.       *)
(***************************************************************************)
EXTENDS RunStream, SequenceTheorems, TLAPS

------------------------------------------------------------------------------
(* The inductive invariant. *)

\* Events before their bounds are known.
Numbered == [seq : Nat, item : Nat]

Follower ==
  [pc : {"gone", "poll", "wait", "send", "done"}, after : Nat, seen : Nat, held : Seq(Numbered)]

Shapes ==
  /\ events \in Seq(Numbered)
  /\ produced \in Nat /\ finished \in BOOLEAN /\ wakes \in Nat
  /\ follower \in [Clients -> Follower]
  /\ writing \in [Clients -> Seq(Numbered)]
  /\ link \in [Clients -> {"closed", "open", "done"}]
  /\ lastId \in [Clients -> Nat]
  /\ got \in [Clients -> Seq(Nat)]
  /\ drops \in Nat

\* The sequence number append gives to the n-th event: truncation keeps the buffer
\* full, so every later one gets the same.
SeqOf(n) == IF n <= MaxEvents THEN n ELSE MaxEvents + 1

Kept(n) == IF n <= MaxEvents THEN n ELSE MaxEvents

\* The buffer holds the newest events under their numbers.
Buffered ==
  /\ finished => produced >= 1
  /\ Len(events) = IF finished THEN Kept(produced - 1) + 1 ELSE Kept(produced)
  /\ \A k \in 1 .. Len(events) : /\ events[k].item = produced - Len(events) + k
                                 /\ events[k].seq = SeqOf(events[k].item)

\* Events that may follow the n-th one on a connection: later ones, in order, and
\* without a gap while nothing was cut off.
Chunk(s, n) ==
  /\ \A k \in 1 .. Len(s) : n < s[k].item /\ s[k].item <= produced /\ s[k].seq = SeqOf(s[k].item)
  /\ \A j, k \in 1 .. Len(s) : j < k => s[j].item < s[k].item
  /\ ~Overflowed => \A k \in 1 .. Len(s) : s[k].item = n + k

LastItem(s, n) == IF s = << >> THEN n ELSE s[Len(s)].item

LastGot(c) == IF got[c] = << >> THEN 0 ELSE got[c][Len(got[c])]

LastWritten(c) == LastItem(writing[c], LastGot(c))

LastTaken(c) == LastItem(follower[c].held, LastWritten(c))

\* What a browser has, what is being written to it and what its follower holds
\* are one ascending sequence, and both sides know where it ends.
Delivered(c) ==
  /\ \A k \in 1 .. Len(got[c]) : 0 < got[c][k] /\ got[c][k] <= produced
  /\ \A j, k \in 1 .. Len(got[c]) : j < k => got[c][j] < got[c][k]
  /\ ~Overflowed => \A k \in 1 .. Len(got[c]) : got[c][k] = k
  /\ lastId[c] = SeqOf(LastGot(c))

InFlight(c) ==
  /\ Chunk(writing[c], LastGot(c))
  /\ Chunk(follower[c].held, LastWritten(c))
  /\ follower[c].pc # "gone" => follower[c].after = SeqOf(LastTaken(c))
  /\ follower[c].pc # "send" => follower[c].held = << >>

LinkOK(c) ==
  /\ link[c] # "open" => /\ writing[c] = << >> /\ follower[c].held = << >>
                         /\ follower[c].pc = "gone"
  /\ link[c] = "done" => finished /\ LastGot(c) = produced

ClientInv(c) == Delivered(c) /\ InFlight(c) /\ LinkOK(c)

IInv == Shapes /\ Buffered /\ \A c \in Clients : ClientInv(c)

------------------------------------------------------------------------------
(* Sequences. *)

\* Numbers and lengths are natural numbers.
LEMMA SeqOfType == \A n \in Nat : SeqOf(n) \in Nat /\ Kept(n) \in Nat
BY RunStreamAssumption DEF SeqOf, Kept

\* What the steps of a follower make of its record.
Sending(f, a, s) == [f EXCEPT !.pc = "send", !.after = a, !.held = s]

\* The follower takes a batch.
LEMMA TakeBatch ==
  ASSUME NEW f \in Follower, NEW a \in Nat, NEW s \in Seq(Numbered)
  PROVE  LET g == Sending(f, a, s)
         IN  g \in Follower /\ g.pc = "send" /\ g.after = a /\ g.held = s
BY DEF Follower, Sending

\* The handler takes it over.
LEMMA GiveBatch ==
  ASSUME NEW f \in Follower, NEW s \in Seq(Numbered)
  PROVE  LET g == [f EXCEPT !.pc = "poll", !.held = s]
         IN  g \in Follower /\ g.pc = "poll" /\ g.after = f.after /\ g.held = s
BY DEF Follower

\* The follower goes on, or ends.
LEMMA MoveOn ==
  ASSUME NEW f \in Follower, NEW pc \in {"poll", "done"}
  PROVE  LET g == [f EXCEPT !.pc = pc]
         IN  g \in Follower /\ g.pc = pc /\ g.after = f.after /\ g.held = f.held
BY DEF Follower

\* The follower goes to sleep.
LEMMA StartWaiting ==
  ASSUME NEW f \in Follower, NEW a \in Nat
  PROVE  LET g == [f EXCEPT !.pc = "wait", !.seen = a]
         IN  g \in Follower /\ g.pc = "wait" /\ g.after = f.after /\ g.held = f.held
BY DEF Follower

\* A follower that starts, or wakes up, looks at the buffer.
LEMMA StartPolling ==
  ASSUME NEW f \in Follower, NEW a \in Nat
  PROVE  LET g == [f EXCEPT !.pc = "poll", !.after = a]
         IN  g \in Follower /\ g.pc = "poll" /\ g.after = a /\ g.held = f.held
BY DEF Follower

\* The follower of a connection that is gone.
LEMMA IdleType == Idle \in Follower /\ Idle.pc = "gone" /\ Idle.held = << >>
BY EmptySeq DEF Idle, Follower

\* Where a chunk ends.
LEMMA ChunkEnd ==
  ASSUME Shapes, NEW s \in Seq(Numbered), NEW n \in Nat, Chunk(s, n), n <= produced
  PROVE  /\ LastItem(s, n) \in Nat
         /\ n <= LastItem(s, n) /\ LastItem(s, n) <= produced
         /\ s # << >> => s[Len(s)].seq = SeqOf(LastItem(s, n))
         /\ ~Overflowed => LastItem(s, n) = n + Len(s)
<1>1. CASE s = << >>
  BY <1>1 DEF LastItem
<1>2. CASE s # << >>
  <2>1. Len(s) \in 1 .. Len(s) /\ s[Len(s)] \in Numbered
    BY <1>2
  <2>2. s[Len(s)].item \in Nat
    BY <2>1 DEF Numbered
  <2> QED BY <1>2, <2>1, <2>2 DEF Chunk, LastItem, Shapes
<1> QED BY <1>1, <1>2

\* Reading the first event of a chunk off it.
LEMMA ChunkTail ==
  ASSUME Shapes, NEW s \in Seq(Numbered), s # << >>, NEW n \in Nat, Chunk(s, n)
  PROVE  /\ Head(s) \in Numbered /\ Tail(s) \in Seq(Numbered)
         /\ n < Head(s).item /\ Head(s).item <= produced /\ Head(s).seq = SeqOf(Head(s).item)
         /\ ~Overflowed => Head(s).item = n + 1
         /\ Chunk(Tail(s), Head(s).item)
         /\ LastItem(Tail(s), Head(s).item) = LastItem(s, n)
<1>1. /\ Head(s) \in Numbered /\ Tail(s) \in Seq(Numbered)
      /\ Len(Tail(s)) = Len(s) - 1
      /\ \A k \in 1 .. Len(Tail(s)) : Tail(s)[k] = s[k + 1]
  BY HeadTailProperties
<1>2. Len(s) \in Nat \ {0} /\ Head(s) = s[1]
  OBVIOUS
<1>3. n < Head(s).item /\ Head(s).item <= produced /\ Head(s).seq = SeqOf(Head(s).item)
  BY <1>2 DEF Chunk
<1>4. ~Overflowed => Head(s).item = n + 1
  BY <1>2 DEF Chunk
<1>5. \A k \in 1 .. Len(Tail(s)) : k + 1 \in 1 .. Len(s) /\ 1 < k + 1
  BY <1>1, <1>2
<1>6. Chunk(Tail(s), Head(s).item)
  <2>1. \A k \in 1 .. Len(Tail(s)) :
          /\ Head(s).item < Tail(s)[k].item
          /\ Tail(s)[k].item <= produced
          /\ Tail(s)[k].seq = SeqOf(Tail(s)[k].item)
    BY <1>1, <1>2, <1>5 DEF Chunk
  <2>2. ASSUME NEW j \in 1 .. Len(Tail(s)), NEW k \in 1 .. Len(Tail(s)), j < k
        PROVE  Tail(s)[j].item < Tail(s)[k].item
    <3>1. j + 1 < k + 1
      BY <2>2
    <3> QED BY <1>1, <1>5, <3>1 DEF Chunk
  <2>3. ASSUME ~Overflowed, NEW k \in 1 .. Len(Tail(s))
        PROVE  Tail(s)[k].item = Head(s).item + k
    <3>1. s[k + 1].item = n + (k + 1)
      BY <1>5, <2>3 DEF Chunk
    <3> QED BY <1>1, <1>4, <2>3, <3>1
  <2> QED BY <2>1, <2>2, <2>3 DEF Chunk
<1>7. LastItem(Tail(s), Head(s).item) = LastItem(s, n)
  <2>1. CASE Len(s) = 1
    <3>1. Len(Tail(s)) = 0
      BY <1>1, <2>1
    <3>2. Tail(s) = << >>
      BY <1>1, <3>1, EmptySeq, Zenon
    <3> QED BY <1>2, <2>1, <3>2 DEF LastItem
  <2>2. CASE Len(s) # 1
    <3>1. Len(s) - 1 \in 1 .. Len(Tail(s)) /\ (Len(s) - 1) + 1 = Len(s)
      BY <1>1, <1>2, <2>2
    <3>2. Tail(s)[Len(Tail(s))] = s[Len(s)] /\ Tail(s) # << >>
      BY <1>1, <3>1
    <3> QED BY <3>2 DEF LastItem
  <2> QED BY <2>1, <2>2
<1> QED BY <1>1, <1>3, <1>4, <1>6, <1>7

\* Follow's arithmetic: what it takes from the buffer after the n-th event is a
\* chunk, and it is empty only when there is nothing left to take or the numbers
\* no longer tell the events apart.
LEMMA BatchFollows ==
  ASSUME Shapes, Buffered, NEW n \in Nat, n <= produced
  PROVE  EventsAfter(SeqOf(n)) \in Seq(Numbered) /\ Chunk(EventsAfter(SeqOf(n)), n)
<1> DEFINE size == Len(events)
           first == produced - size + 1
           start == SeqOf(n) - events[1].seq + 1
           lo == IF start < 0 THEN 1 ELSE start + 1
           batch == EventsAfter(SeqOf(n))
<1>1. size \in Nat /\ events \in Seq(Numbered) /\ produced \in Nat /\ MaxEvents \in Nat \ {0}
  BY RunStreamAssumption DEF Shapes
<1>2. CASE SeqOf(n) >= LastSeq
  <2>1. EventsAfter(SeqOf(n)) = << >>
    BY <1>2 DEF EventsAfter
  <2> QED BY <2>1, EmptySeq DEF Chunk
<1>3. CASE ~(SeqOf(n) >= LastSeq)
  <2>1. events # << >>
    BY <1>3, RunStreamAssumption DEF LastSeq, SeqOf
  <2>2. size >= 1
    BY <1>1, <2>1
  <2>3. LastSeq = SeqOf(produced)
    BY <1>1, <2>1, <2>2 DEF LastSeq, Buffered
  <2>4. n <= MaxEvents /\ SeqOf(n) = n /\ n < produced
    BY <1>1, <1>3, <2>3 DEF SeqOf
  <2>5. events[1].seq = SeqOf(first) /\ first \in Nat \ {0} /\ first + size = produced + 1
    <3>1. events[1].item = produced - size + 1 /\ events[1].seq = SeqOf(events[1].item)
      BY <1>1, <2>2 DEF Buffered
    <3>2. size <= produced
      BY <1>1, RunStreamAssumption DEF Buffered, Kept, Shapes
    <3> QED BY <1>1, <3>1, <3>2
  <2> HIDE DEF first, size
  <2>6. lo \in 1 .. size /\ first + lo - 1 > n
    <3>1. size \in Nat /\ first \in Nat /\ n \in Nat /\ MaxEvents \in Nat
      BY <1>1, <2>5 DEF size
    <3>2. CASE first <= MaxEvents
      <4>1. start = n - first + 1
        BY <2>4, <2>5, <3>2 DEF SeqOf
      <4> HIDE DEF start
      <4>2. lo = IF n - first + 1 < 0 THEN 1 ELSE n - first + 2
        BY <3>1, <4>1
      <4> HIDE DEF lo
      <4> QED BY <1>1, <2>2, <2>4, <2>5, <3>1, <4>2
    <3>3. CASE ~(first <= MaxEvents)
      <4>1. start = n - MaxEvents
        BY <2>4, <2>5, <3>1, <3>3 DEF SeqOf
      <4> HIDE DEF start
      <4>2. lo = 1
        BY <2>4, <3>1, <4>1
      <4> HIDE DEF lo
      <4> QED BY <2>2, <2>4, <2>5, <3>1, <3>3, <4>2
    <3> QED BY <3>2, <3>3
  <2>7. batch = SubSeq(events, lo, size)
    BY <1>3 DEF EventsAfter, size
  <2> HIDE DEF lo, batch
  <2>8. \A i \in lo .. size : events[i] \in Numbered
    BY <1>1, <2>6 DEF size
  <2>9. /\ batch \in Seq(Numbered)
        /\ Len(batch) = size - lo + 1
        /\ \A k \in 1 .. size - lo + 1 : batch[k] = events[lo + k - 1]
    BY <1>1, <2>6, <2>7, <2>8, SubSeqProperties
  <2>10. \A k \in 1 .. Len(batch) :
           /\ batch[k].item = (first + lo - 1) + k - 1
           /\ batch[k].seq = SeqOf(batch[k].item)
    <3>1. \A i \in 1 .. size : events[i].item = first + i - 1 /\ events[i].seq = SeqOf(events[i].item)
      BY <1>1 DEF Buffered, first, size
    <3>2. \A k \in 1 .. Len(batch) : lo + k - 1 \in 1 .. size
      BY <1>1, <2>6, <2>9
    <3>3. size \in Nat /\ first \in Nat /\ lo \in Nat
      BY <1>1, <2>5, <2>6 DEF size
    <3>4. \A k \in 1 .. Len(batch) : first + (lo + k - 1) - 1 = (first + lo - 1) + k - 1
      BY <2>9, <3>3
    <3>5. \A k \in 1 .. Len(batch) : batch[k] = events[lo + k - 1]
      BY <2>9, <3>3
    <3> QED BY <3>1, <3>2, <3>4, <3>5
  <2>11. \A k \in 1 .. Len(batch) : n < batch[k].item /\ batch[k].item <= produced
    BY <1>1, <2>5, <2>6, <2>9, <2>10 DEF size
  <2>12. \A j, k \in 1 .. Len(batch) : j < k => batch[j].item < batch[k].item
    BY <1>1, <2>5, <2>6, <2>9, <2>10 DEF size
  <2>13. ASSUME ~Overflowed
         PROVE  \A k \in 1 .. Len(batch) : batch[k].item = n + k
    <3>1. size = produced
      BY <1>1, <2>13 DEF Overflowed, Buffered, Kept, Shapes, size
    <3>2. first = 1
      BY <1>1, <3>1 DEF first
    <3>3. lo = n + 1
      BY <1>1, <2>4, <2>5, <3>2 DEF lo, SeqOf
    <3> QED BY <2>10, <3>2, <3>3
  <2> QED BY <2>9, <2>10, <2>11, <2>12, <2>13 DEF Chunk, batch
<1> QED BY <1>2, <1>3

------------------------------------------------------------------------------
(* Steps of the buffer. *)

\* The invariant holds of an empty buffer nobody reads.
LEMMA InitInv == Init => IInv
<1> SUFFICES ASSUME Init PROVE IInv
  OBVIOUS
<1>1. Shapes
  BY EmptySeq, IdleType DEF Init, Shapes
<1>2. Buffered
  BY RunStreamAssumption DEF Init, Buffered, Kept
<1>3. ASSUME NEW c \in Clients
      PROVE  ClientInv(c)
  <2>1. got[c] = << >> /\ writing[c] = << >> /\ follower[c].held = << >> /\ follower[c].pc = "gone"
    BY IdleType DEF Init
  <2>2. LastGot(c) = 0 /\ lastId[c] = 0 /\ link[c] = "closed"
    BY <2>1 DEF LastGot, Init
  <2> QED BY <2>1, <2>2, RunStreamAssumption
          DEF ClientInv, Delivered, InFlight, LinkOK, Chunk, SeqOf
<1> QED BY <1>1, <1>2, <1>3 DEF IInv

\* Appending keeps the newest MaxEvents events.
LEMMA AppendInv ==
  ASSUME Shapes, Buffered, AppendEvent
  PROVE  events' \in Seq(Numbered) /\ Buffered'
<1> DEFINE size == Len(events)
           grown == Append(events, NextEvent)
<1>1. size \in Nat /\ events \in Seq(Numbered) /\ produced \in Nat /\ MaxEvents \in Nat \ {0}
  BY RunStreamAssumption DEF Shapes
<1>2. NextEvent \in Numbered /\ NextEvent.seq = size + 1 /\ NextEvent.item = produced + 1
  BY <1>1 DEF NextEvent, Numbered
<1>3. ~finished /\ size = Kept(produced) /\ produced' = produced + 1 /\ finished' = finished
  BY DEF AppendEvent, Buffered
<1>4. /\ grown \in Seq(Numbered) /\ Len(grown) = size + 1
      /\ \A k \in 1 .. size : grown[k] = events[k]
      /\ grown[size + 1] = NextEvent
  BY <1>1, <1>2, AppendProperties
<1>5. size + 1 = SeqOf(produced + 1)
  BY <1>1, <1>3 DEF Kept, SeqOf
<1>6. events' = Truncate(grown)
  BY DEF AppendEvent
<1> HIDE DEF grown, size
<1>7. \A k \in 1 .. size + 1 : /\ grown[k].item = (produced + 1) - (size + 1) + k
                               /\ grown[k].seq = SeqOf(grown[k].item)
  <2>1. \A k \in 1 .. size : /\ events[k].item = produced - size + k
                             /\ events[k].seq = SeqOf(events[k].item)
    BY DEF Buffered, size
  <2>2. \A k \in 1 .. size + 1 : k \in 1 .. size \/ k = size + 1
    BY <1>1
  <2>3. \A k \in 1 .. size : (produced + 1) - (size + 1) + k = produced - size + k
    BY <1>1
  <2>4. (produced + 1) - (size + 1) + (size + 1) = produced + 1
    BY <1>1
  <2> QED BY <1>2, <1>4, <1>5, <2>1, <2>2, <2>3, <2>4
<1>8. CASE size + 1 <= MaxEvents
  <2>1. events' = grown
    BY <1>1, <1>4, <1>6, <1>8 DEF Truncate
  <2>2. size + 1 = Kept(produced + 1)
    BY <1>1, <1>3, <1>8 DEF Kept
  <2> QED BY <1>1, <1>3, <1>4, <1>7, <2>1, <2>2 DEF Buffered
<1>9. CASE ~(size + 1 <= MaxEvents)
  <2>1. size = MaxEvents /\ produced >= MaxEvents
    BY <1>1, <1>3, <1>9 DEF Kept
  <2>2. events' = SubSeq(grown, 2, size + 1)
    BY <1>1, <1>4, <1>6, <1>9, <2>1 DEF Truncate
  <2>3. \A k \in 2 .. size + 1 : grown[k] \in Numbered
    BY <1>1, <1>4, ElementOfSeq
  <2>4. /\ events' \in Seq(Numbered) /\ Len(events') = size
        /\ \A k \in 1 .. size : events'[k] = grown[k + 1]
    <3>1. 2 \in Int /\ size + 1 \in Int /\ 2 <= size + 1 /\ (size + 1) - 2 + 1 = size
      BY <1>1, <2>1
    <3>2. /\ SubSeq(grown, 2, size + 1) \in Seq(Numbered)
          /\ Len(SubSeq(grown, 2, size + 1)) = size
          /\ \A k \in 1 .. size : SubSeq(grown, 2, size + 1)[k] = grown[2 + k - 1]
      BY <2>3, <3>1, SubSeqProperties
    <3>3. \A k \in 1 .. size : 2 + k - 1 = k + 1
      BY <1>1
    <3> QED BY <2>2, <3>2, <3>3
  <2>5. size = Kept(produced + 1)
    BY <1>1, <2>1 DEF Kept
  <2>6. \A k \in 1 .. size : /\ events'[k].item = produced' - size + k
                             /\ events'[k].seq = SeqOf(events'[k].item)
    <3>1. \A k \in 1 .. size : k + 1 \in 1 .. size + 1
      BY <1>1
    <3>2. \A k \in 1 .. size : (produced + 1) - (size + 1) + (k + 1) = (produced + 1) - size + k
      BY <1>1
    <3> QED BY <1>3, <1>7, <2>4, <3>1, <3>2
  <2> QED BY <1>3, <2>4, <2>5, <2>6 DEF Buffered
<1> QED BY <1>8, <1>9

\* The verdict is appended whatever the size.
LEMMA FinishInv ==
  ASSUME Shapes, Buffered, Finish
  PROVE  events' \in Seq(Numbered) /\ Buffered'
<1> DEFINE size == Len(events)
<1>1. size \in Nat /\ events \in Seq(Numbered) /\ produced \in Nat /\ MaxEvents \in Nat \ {0}
  BY RunStreamAssumption DEF Shapes
<1>2. NextEvent \in Numbered /\ NextEvent.seq = size + 1 /\ NextEvent.item = produced + 1
  BY <1>1 DEF NextEvent, Numbered
<1>3. ~finished /\ size = Kept(produced) /\ produced' = produced + 1 /\ finished'
  BY DEF Finish, Buffered
<1>4. /\ events' \in Seq(Numbered) /\ Len(events') = size + 1
      /\ \A k \in 1 .. size : events'[k] = events[k]
      /\ events'[size + 1] = NextEvent
  BY <1>1, <1>2, AppendProperties DEF Finish
<1>5. size + 1 = SeqOf(produced + 1)
  BY <1>1, <1>3 DEF Kept, SeqOf
<1> HIDE DEF size
<1>6. \A k \in 1 .. size + 1 : /\ events'[k].item = (produced + 1) - (size + 1) + k
                               /\ events'[k].seq = SeqOf(events'[k].item)
  <2>1. \A k \in 1 .. size : /\ events[k].item = produced - size + k
                             /\ events[k].seq = SeqOf(events[k].item)
    BY DEF Buffered, size
  <2>2. \A k \in 1 .. size + 1 : k \in 1 .. size \/ k = size + 1
    BY <1>1
  <2>3. \A k \in 1 .. size : (produced + 1) - (size + 1) + k = produced - size + k
    BY <1>1
  <2>4. (produced + 1) - (size + 1) + (size + 1) = produced + 1
    BY <1>1
  <2> QED BY <1>2, <1>4, <1>5, <2>1, <2>2, <2>3, <2>4
<1>7. (produced + 1) - 1 = produced /\ produced + 1 >= 1
  BY <1>1
<1> QED BY <1>3, <1>4, <1>6, <1>7 DEF Buffered

\* A new event leaves the browsers as they are.
LEMMA ProduceStep ==
  ASSUME IInv, AppendEvent \/ Finish
  PROVE  IInv'
<1>1. Shapes /\ Buffered
  BY DEF IInv
<1>2. events' \in Seq(Numbered) /\ Buffered'
  BY <1>1, AppendInv, FinishInv
<1>3. /\ ~finished /\ produced' = produced + 1 /\ finished' \in BOOLEAN
      /\ UNCHANGED <<follower, writing, link, lastId, got, drops>>
      /\ wakes' = wakes + 1
  BY <1>1 DEF AppendEvent, Finish, Shapes
<1>4. Shapes'
  BY <1>1, <1>2, <1>3 DEF Shapes
<1>5. produced' \in Nat /\ produced <= produced' /\ produced \in Nat
  BY <1>1, <1>3 DEF Shapes
<1>6. Overflowed => Overflowed'
  BY <1>1, <1>3, RunStreamAssumption DEF Overflowed, Shapes, AppendEvent, Finish
<1>7. ASSUME NEW c \in Clients
      PROVE  ClientInv(c)'
  <2>1. ClientInv(c)
    BY DEF IInv
  <2>2. /\ LastGot(c)' = LastGot(c) /\ LastWritten(c)' = LastWritten(c)
        /\ LastTaken(c)' = LastTaken(c)
    BY <1>3 DEF LastGot, LastWritten, LastTaken, LastItem
  <2>3. /\ got[c] \in Seq(Nat) /\ writing[c] \in Seq(Numbered)
        /\ follower[c] \in Follower /\ follower[c].held \in Seq(Numbered)
    BY <1>1 DEF Shapes, Follower
  <2>4. LastGot(c) \in Nat /\ LastGot(c) <= produced
    <3>1. CASE got[c] = << >>
      BY <1>5, <3>1 DEF LastGot
    <3>2. CASE got[c] # << >>
      <4>1. Len(got[c]) \in 1 .. Len(got[c]) /\ got[c][Len(got[c])] \in Nat
        BY <2>3, <3>2
      <4> QED BY <2>1, <3>2, <4>1 DEF LastGot, ClientInv, Delivered
    <3> QED BY <3>1, <3>2
  <2>5. Chunk(writing[c], LastGot(c)) /\ Chunk(follower[c].held, LastWritten(c))
    BY <2>1 DEF ClientInv, InFlight
  <2>6. LastWritten(c) \in Nat
    BY <1>1, <2>3, <2>4, <2>5, ChunkEnd DEF LastWritten
  <2>7. Chunk(writing[c], LastGot(c))' /\ Chunk(follower[c].held, LastWritten(c))'
    <3> DEFINE w == writing[c]
               h == follower[c].held
               g == LastGot(c)
               l == LastWritten(c)
    <3> HIDE DEF w, h, g, l
    <3>1. w \in Seq(Numbered) /\ h \in Seq(Numbered) /\ g \in Nat /\ l \in Nat
      BY <2>3, <2>4, <2>6 DEF w, h, g, l
    <3>2. Chunk(w, g) /\ Chunk(h, l)
      BY <2>5 DEF w, h, g, l
    <3>3. \A s \in Seq(Numbered), n \in Nat :
            Chunk(s, n) => /\ \A k \in 1 .. Len(s) : n < s[k].item /\ s[k].item <= produced' /\ s[k].seq = SeqOf(s[k].item)
                           /\ \A j, k \in 1 .. Len(s) : j < k => s[j].item < s[k].item
                           /\ ~Overflowed' => \A k \in 1 .. Len(s) : s[k].item = n + k
      <4> SUFFICES ASSUME NEW s \in Seq(Numbered), NEW n \in Nat, Chunk(s, n)
                   PROVE  /\ \A k \in 1 .. Len(s) : n < s[k].item /\ s[k].item <= produced' /\ s[k].seq = SeqOf(s[k].item)
                          /\ \A j, k \in 1 .. Len(s) : j < k => s[j].item < s[k].item
                          /\ ~Overflowed' => \A k \in 1 .. Len(s) : s[k].item = n + k
        OBVIOUS
      <4>1. \A k \in 1 .. Len(s) : s[k] \in Numbered
        BY ElementOfSeq
      <4>2. \A k \in 1 .. Len(s) : s[k].item \in Nat
        BY <4>1 DEF Numbered
      <4> QED BY <1>5, <1>6, <4>2 DEF Chunk
    <3>4. writing'[c] = w /\ follower'[c].held = h
      BY <1>3 DEF w, h
    <3>5. LastGot(c)' = g /\ LastWritten(c)' = l
      BY <2>2 DEF g, l
    <3>6. /\ \A k \in 1 .. Len(w) : g < w[k].item /\ w[k].item <= produced' /\ w[k].seq = SeqOf(w[k].item)
          /\ \A j, k \in 1 .. Len(w) : j < k => w[j].item < w[k].item
          /\ ~Overflowed' => \A k \in 1 .. Len(w) : w[k].item = g + k
      BY <3>1, <3>2, <3>3
    <3>7. /\ \A k \in 1 .. Len(h) : l < h[k].item /\ h[k].item <= produced' /\ h[k].seq = SeqOf(h[k].item)
          /\ \A j, k \in 1 .. Len(h) : j < k => h[j].item < h[k].item
          /\ ~Overflowed' => \A k \in 1 .. Len(h) : h[k].item = l + k
      BY <3>1, <3>2, <3>3
    <3>8. Chunk(writing[c], LastGot(c))'
      BY <3>4, <3>5, <3>6 DEF Chunk
    <3>9. Chunk(follower[c].held, LastWritten(c))'
      BY <3>4, <3>5, <3>7 DEF Chunk
    <3> QED BY <3>8, <3>9
  <2>8. InFlight(c)'
    BY <1>3, <2>1, <2>2, <2>7 DEF InFlight, ClientInv
  <2>9. Delivered(c)'
    <3>1. \A k \in 1 .. Len(got[c]) : got[c][k] \in Nat
      BY <2>3, ElementOfSeq
    <3> QED BY <1>3, <1>5, <1>6, <2>1, <2>2, <3>1 DEF Delivered, ClientInv
  <2>10. LinkOK(c)'
    BY <1>3, <2>1 DEF LinkOK, ClientInv
  <2> QED BY <2>8, <2>9, <2>10 DEF ClientInv
<1> QED BY <1>2, <1>4, <1>7 DEF IInv

------------------------------------------------------------------------------
(* Steps of one connection. *)

\* What a step of c leaves alone.
Alone(d) ==
  /\ follower'[d] = follower[d] /\ writing'[d] = writing[d] /\ link'[d] = link[d]
  /\ lastId'[d] = lastId[d] /\ got'[d] = got[d]

\* A step of one connection keeps what holds of another.
LEMMA AloneInv ==
  ASSUME NEW d, ClientInv(d), UNCHANGED buffer, Alone(d)
  PROVE  ClientInv(d)'
<1> USE DEF Alone, buffer
<1>1. LastGot(d)' = LastGot(d) /\ LastWritten(d)' = LastWritten(d) /\ LastTaken(d)' = LastTaken(d)
  BY DEF LastGot, LastWritten, LastTaken, LastItem
<1>2. Delivered(d)'
  BY <1>1 DEF Delivered, ClientInv, Overflowed
<1>3. Chunk(writing[d], LastGot(d))' /\ Chunk(follower[d].held, LastWritten(d))'
  BY <1>1 DEF InFlight, ClientInv, Chunk, Overflowed
<1>4. InFlight(d)'
  BY <1>1, <1>3 DEF InFlight, ClientInv
<1>5. LinkOK(d)'
  BY <1>1 DEF LinkOK, ClientInv
<1> QED BY <1>2, <1>4, <1>5 DEF ClientInv

\* What is known of one connection.
LEMMA ClientFacts ==
  ASSUME IInv, NEW c \in Clients
  PROVE  /\ got[c] \in Seq(Nat) /\ writing[c] \in Seq(Numbered) /\ lastId[c] \in Nat
         /\ follower[c] \in Follower /\ follower[c].held \in Seq(Numbered) /\ follower[c].after \in Nat
         /\ LastGot(c) \in Nat /\ LastGot(c) <= produced
         /\ LastWritten(c) \in Nat /\ LastWritten(c) <= produced
         /\ \A k \in 1 .. Len(got[c]) : got[c][k] \in Nat /\ got[c][k] <= LastGot(c)
         /\ ~Overflowed => LastGot(c) = Len(got[c])
<1>1. ClientInv(c) /\ Shapes
  BY DEF IInv
<1>2. /\ got[c] \in Seq(Nat) /\ writing[c] \in Seq(Numbered) /\ lastId[c] \in Nat
      /\ follower[c] \in Follower /\ follower[c].held \in Seq(Numbered) /\ follower[c].after \in Nat
  BY <1>1 DEF Shapes, Follower
<1>3. \A k \in 1 .. Len(got[c]) : got[c][k] \in Nat
  BY <1>2, ElementOfSeq
<1>4. /\ LastGot(c) \in Nat /\ LastGot(c) <= produced
      /\ \A k \in 1 .. Len(got[c]) : got[c][k] <= LastGot(c)
      /\ ~Overflowed => LastGot(c) = Len(got[c])
  <2>1. CASE got[c] = << >>
    BY <1>1, <2>1 DEF LastGot, Shapes
  <2>2. CASE got[c] # << >>
    <3>1. Len(got[c]) \in 1 .. Len(got[c]) /\ LastGot(c) = got[c][Len(got[c])]
      BY <1>2, <2>2 DEF LastGot
    <3>2. \A k \in 1 .. Len(got[c]) : k = Len(got[c]) \/ k < Len(got[c])
      BY <1>2
    <3>3. \A k \in 1 .. Len(got[c]) : k < Len(got[c]) => got[c][k] < LastGot(c)
      BY <1>1, <3>1 DEF ClientInv, Delivered
    <3>4. \A k \in 1 .. Len(got[c]) : got[c][k] <= LastGot(c)
      BY <1>3, <3>1, <3>2, <3>3
    <3> QED BY <1>1, <1>3, <3>1, <3>4 DEF ClientInv, Delivered
  <2> QED BY <2>1, <2>2
<1>5. LastWritten(c) \in Nat /\ LastWritten(c) <= produced
  BY <1>1, <1>2, <1>4, ChunkEnd DEF ClientInv, InFlight, LastWritten
<1> QED BY <1>2, <1>3, <1>4, <1>5

\* Nothing may follow any event.
LEMMA EmptyChunk == \A n : Chunk(<< >>, n)
BY EmptySeq DEF Chunk

\* The follower takes the next batch, or finds nothing new.
LEMMA PollInv ==
  ASSUME IInv, NEW c \in Clients, Poll(c)
  PROVE  follower' \in [Clients -> Follower] /\ ClientInv(c)'
<1> DEFINE f == follower[c]
           n == LastWritten(c)
           batch == EventsAfter(f.after)
<1>1. Shapes /\ Buffered /\ ClientInv(c)
  BY DEF IInv
<1>2. f \in Follower /\ f.pc = "poll" /\ f.held = << >> /\ n \in Nat /\ n <= produced
  BY <1>1, ClientFacts DEF Poll, ClientInv, InFlight
<1>3. f.after = SeqOf(n)
  BY <1>1, <1>2 DEF ClientInv, InFlight, LastTaken, LastItem
<1>4. batch \in Seq(Numbered) /\ Chunk(batch, n)
  BY <1>1, <1>2, <1>3, BatchFollows
<1>5. link[c] = "open"
  BY <1>1, <1>2 DEF ClientInv, LinkOK
<1>6. PICK g \in Follower :
        /\ follower' = [follower EXCEPT ![c] = g]
        /\ \/ g.pc = "send" /\ g.held = batch /\ g.after = SeqOf(LastItem(batch, n))
           \/ g.pc \in {"done", "wait"} /\ g.held = << >> /\ g.after = f.after
  <2>1. CASE batch # << >>
    <3> DEFINE last == batch[Len(batch)].seq
               g == Sending(f, last, batch)
    <3>1. batch[Len(batch)].seq = SeqOf(LastItem(batch, n)) /\ LastItem(batch, n) \in Nat
      BY <1>1, <1>2, <1>4, <2>1, ChunkEnd
    <3>2. last \in Nat
      BY <3>1, SeqOfType
    <3>3. follower' = [follower EXCEPT ![c] = g]
      BY <2>1 DEF Poll, Sending
    <3>4. g \in Follower /\ g.pc = "send" /\ g.after = last /\ g.held = batch
      <4>1. f \in Follower /\ last \in Nat /\ batch \in Seq(Numbered)
        BY <1>2, <1>4, <3>2
      <4> HIDE DEF f, batch, last
      <4> QED BY <4>1, TakeBatch
    <3> HIDE DEF g
    <3> QED BY <3>1, <3>3, <3>4
  <2>2. CASE batch = << >> /\ finished
    <3> DEFINE g == [f EXCEPT !.pc = "done"]
    <3>1. follower' = [follower EXCEPT ![c] = g]
      BY <2>2 DEF Poll
    <3>2. g \in Follower /\ g.pc = "done" /\ g.after = f.after /\ g.held = f.held
      <4> HIDE DEF f
      <4> QED BY <1>2, MoveOn
    <3> HIDE DEF g
    <3> QED BY <1>2, <3>1, <3>2
  <2>3. CASE batch = << >> /\ ~finished
    <3> DEFINE g == [f EXCEPT !.pc = "wait", !.seen = wakes]
    <3>1. follower' = [follower EXCEPT ![c] = g]
      BY <2>3 DEF Poll
    <3>2. wakes \in Nat
      BY <1>1 DEF Shapes
    <3>3. g \in Follower /\ g.pc = "wait" /\ g.after = f.after /\ g.held = f.held
      <4> HIDE DEF f
      <4> QED BY <1>2, <3>2, StartWaiting
    <3> HIDE DEF g
    <3> QED BY <1>2, <3>1, <3>3
  <2> QED BY <2>1, <2>2, <2>3
<1>7. follower \in [Clients -> Follower]
  BY <1>1 DEF Shapes
<1>8. follower' \in [Clients -> Follower] /\ follower'[c] = g
  BY <1>6, <1>7
<1>9. UNCHANGED <<events, produced, finished, wakes, writing, link, lastId, got, drops>>
  BY DEF Poll
<1>10. LastGot(c)' = LastGot(c) /\ LastWritten(c)' = n
  BY <1>9 DEF LastGot, LastWritten, LastItem
<1>11. LastTaken(c)' = LastItem(g.held, n)
  BY <1>8, <1>10 DEF LastTaken, LastItem
<1> HIDE DEF n, batch, f
<1>12. Chunk(writing[c], LastGot(c))'
  BY <1>1, <1>9, <1>10 DEF ClientInv, InFlight, Chunk, Overflowed
<1>13. Chunk(g.held, n)
  BY <1>4, <1>6, EmptyChunk
<1>14. Chunk(follower[c].held, LastWritten(c))'
  BY <1>8, <1>9, <1>10, <1>13 DEF Chunk, Overflowed
<1>15. g.after = SeqOf(LastItem(g.held, n)) /\ (g.pc # "send" => g.held = << >>)
  BY <1>3, <1>6 DEF LastItem
<1>16. InFlight(c)'
  BY <1>8, <1>11, <1>12, <1>14, <1>15 DEF InFlight
<1>17. Delivered(c)' /\ LinkOK(c)'
  BY <1>1, <1>5, <1>9, <1>10 DEF ClientInv, Delivered, LinkOK, Overflowed
<1> QED BY <1>8, <1>16, <1>17 DEF ClientInv

\* A wake-up sends the follower back to the buffer.
LEMMA WakeInv ==
  ASSUME IInv, NEW c \in Clients, Wake(c)
  PROVE  follower' \in [Clients -> Follower] /\ ClientInv(c)'
<1> DEFINE f == follower[c]
           g == [f EXCEPT !.pc = "poll"]
<1>1. Shapes /\ ClientInv(c)
  BY DEF IInv
<1>2. f \in Follower /\ f.pc = "wait"
  BY <1>1, ClientFacts DEF Wake
<1>3. follower' = [follower EXCEPT ![c] = g] /\ follower \in [Clients -> Follower]
  BY <1>1 DEF Wake, Shapes
<1>4. g \in Follower /\ g.pc = "poll" /\ g.after = f.after /\ g.held = f.held
  <2> HIDE DEF f
  <2> QED BY <1>2, MoveOn
<1> HIDE DEF g
<1>5. follower' \in [Clients -> Follower] /\ follower'[c] = g
  BY <1>3, <1>4
<1>6. UNCHANGED <<events, produced, finished, wakes, writing, link, lastId, got, drops>>
  BY DEF Wake
<1>7. LastGot(c)' = LastGot(c) /\ LastWritten(c)' = LastWritten(c) /\ LastTaken(c)' = LastTaken(c)
  BY <1>4, <1>5, <1>6 DEF LastGot, LastWritten, LastTaken, LastItem
<1>8. Chunk(writing[c], LastGot(c))' /\ Chunk(follower[c].held, LastWritten(c))'
  BY <1>1, <1>4, <1>5, <1>6, <1>7 DEF ClientInv, InFlight, Chunk, Overflowed
<1>9. InFlight(c)'
  BY <1>1, <1>2, <1>4, <1>5, <1>7, <1>8 DEF ClientInv, InFlight
<1>10. Delivered(c)' /\ LinkOK(c)'
  BY <1>1, <1>2, <1>6, <1>7 DEF ClientInv, Delivered, LinkOK, Overflowed
<1> QED BY <1>5, <1>9, <1>10 DEF ClientInv

\* The handler takes over what the follower held.
LEMMA HandOverInv ==
  ASSUME IInv, NEW c \in Clients, HandOver(c)
  PROVE  /\ follower' \in [Clients -> Follower] /\ writing' \in [Clients -> Seq(Numbered)]
         /\ ClientInv(c)'
<1> DEFINE f == follower[c]
           g == [f EXCEPT !.pc = "poll", !.held = << >>]
<1>1. Shapes /\ ClientInv(c)
  BY DEF IInv
<1>2. f \in Follower /\ f.pc = "send" /\ f.held \in Seq(Numbered) /\ writing[c] = << >>
  BY <1>1, ClientFacts DEF HandOver
<1>3. follower' = [follower EXCEPT ![c] = g] /\ follower \in [Clients -> Follower]
  BY <1>1 DEF HandOver, Shapes
<1>4. g \in Follower /\ g.pc = "poll" /\ g.after = f.after /\ g.held = << >>
  <2>1. << >> \in Seq(Numbered)
    BY EmptySeq
  <2> HIDE DEF f
  <2> QED BY <1>2, <2>1, GiveBatch
<1> HIDE DEF g
<1>5. follower' \in [Clients -> Follower] /\ follower'[c] = g
  BY <1>3, <1>4
<1>6. writing' = [writing EXCEPT ![c] = f.held] /\ writing \in [Clients -> Seq(Numbered)]
  BY <1>1 DEF HandOver, Shapes
<1>7. writing' \in [Clients -> Seq(Numbered)] /\ writing'[c] = f.held
  BY <1>2, <1>6
<1>8. UNCHANGED <<events, produced, finished, wakes, link, lastId, got, drops>>
  BY DEF HandOver
<1>9. LastWritten(c) = LastGot(c) /\ LastGot(c)' = LastGot(c)
  BY <1>2, <1>8 DEF LastGot, LastWritten, LastItem
<1>10. LastWritten(c)' = LastTaken(c) /\ LastTaken(c)' = LastTaken(c)
  BY <1>4, <1>5, <1>7, <1>9 DEF LastWritten, LastTaken, LastItem
<1>11. Chunk(f.held, LastGot(c))
  BY <1>1, <1>9 DEF ClientInv, InFlight
<1>12. Chunk(writing[c], LastGot(c))'
  BY <1>7, <1>8, <1>9, <1>11 DEF Chunk, Overflowed
<1>13. Chunk(follower[c].held, LastWritten(c))'
  BY <1>4, <1>5, EmptySeq DEF Chunk
<1>14. InFlight(c)'
  BY <1>1, <1>2, <1>4, <1>5, <1>10, <1>12, <1>13 DEF ClientInv, InFlight
<1>15. Delivered(c)' /\ LinkOK(c)'
  BY <1>1, <1>2, <1>8, <1>9 DEF ClientInv, Delivered, LinkOK, Overflowed
<1> QED BY <1>5, <1>7, <1>14, <1>15 DEF ClientInv

\* A connection that is gone holds nothing.
LEMMA ClosedInv ==
  ASSUME NEW c \in Clients, Delivered(c)', follower'[c] = Idle, writing'[c] = << >>,
         link'[c] = "done" => finished' /\ LastGot(c)' = produced'
  PROVE  ClientInv(c)'
<1>1. Idle.pc = "gone" /\ Idle.held = << >>
  BY IdleType
<1>2. Chunk(writing[c], LastGot(c))' /\ Chunk(follower[c].held, LastWritten(c))'
  BY <1>1, EmptySeq DEF Chunk
<1> QED BY <1>1, <1>2 DEF ClientInv, InFlight, LinkOK

\* A connection that ends takes its follower and its handler with it.
LEMMA CloseShapes ==
  ASSUME Shapes, NEW c \in Clients, NEW state \in {"closed", "done"}, Close(c, state)
  PROVE  /\ follower' \in [Clients -> Follower] /\ writing' \in [Clients -> Seq(Numbered)]
         /\ link' \in [Clients -> {"closed", "open", "done"}]
         /\ follower'[c] = Idle /\ writing'[c] = << >> /\ link'[c] = state
BY IdleType, EmptySeq DEF Close, Shapes

\* One event reaches the browser.
LEMMA WriteInv ==
  ASSUME IInv, NEW c \in Clients, WriteEvent(c)
  PROVE  Shapes' /\ ClientInv(c)' /\ \A d \in Clients \ {c} : Alone(d)
<1> DEFINE e == Head(writing[c])
           rest == Tail(writing[c])
           last == LastGot(c)
           len == Len(got[c])
<1>1. Shapes /\ ClientInv(c)
  BY DEF IInv
<1>2. /\ got[c] \in Seq(Nat) /\ writing[c] \in Seq(Numbered) /\ writing[c] # << >>
      /\ last \in Nat /\ \A k \in 1 .. len : got[c][k] \in Nat /\ got[c][k] <= last
      /\ ~Overflowed => last = len
      /\ len \in Nat
  BY ClientFacts DEF WriteEvent
<1>3. /\ e \in Numbered /\ rest \in Seq(Numbered)
      /\ last < e.item /\ e.item <= produced /\ e.seq = SeqOf(e.item)
      /\ ~Overflowed => e.item = last + 1
      /\ Chunk(rest, e.item)
      /\ LastItem(rest, e.item) = LastWritten(c)
  BY <1>1, <1>2, ChunkTail DEF ClientInv, InFlight, LastWritten
<1>4. e.item \in Nat /\ e.seq \in Nat
  BY <1>3 DEF Numbered
<1>5. /\ UNCHANGED <<events, produced, finished, wakes, drops>>
      /\ got' = [got EXCEPT ![c] = Append(got[c], e.item)]
      /\ lastId' = [lastId EXCEPT ![c] = e.seq]
  BY DEF WriteEvent
<1> HIDE DEF e, rest, last, len
<1>6. /\ got' \in [Clients -> Seq(Nat)] /\ got'[c] = Append(got[c], e.item)
      /\ lastId' \in [Clients -> Nat] /\ lastId'[c] = e.seq
  <2>1. Append(got[c], e.item) \in Seq(Nat)
    BY <1>2, <1>4, AppendProperties
  <2>2. got \in [Clients -> Seq(Nat)] /\ lastId \in [Clients -> Nat]
    BY <1>1 DEF Shapes
  <2> QED BY <1>4, <1>5, <2>1, <2>2
<1>7. /\ got'[c] # << >> /\ Len(got'[c]) = len + 1
      /\ \A k \in 1 .. len : got'[c][k] = got[c][k]
      /\ got'[c][len + 1] = e.item
  <2>1. got'[c] = Append(got[c], e.item) /\ got[c] \in Seq(Nat) /\ e.item \in Nat
    BY <1>2, <1>4, <1>6
  <2>2. \A s \in Seq(Nat), x \in Nat :
          /\ Append(s, x) # << >> /\ Len(Append(s, x)) = Len(s) + 1
          /\ \A k \in 1 .. Len(s) : Append(s, x)[k] = s[k]
          /\ Append(s, x)[Len(s) + 1] = x
    BY AppendProperties
  <2>3. /\ Append(got[c], e.item) # << >> /\ Len(Append(got[c], e.item)) = Len(got[c]) + 1
        /\ \A k \in 1 .. Len(got[c]) : Append(got[c], e.item)[k] = got[c][k]
        /\ Append(got[c], e.item)[Len(got[c]) + 1] = e.item
    BY <2>1, <2>2
  <2> QED BY <2>1, <2>3 DEF len
<1>8. LastGot(c)' = e.item
  BY <1>7 DEF LastGot
<1>9. Delivered(c)'
  <2>1. \A k \in 1 .. len + 1 : k \in 1 .. len \/ k = len + 1
    BY <1>2
  <2>2. \A k \in 1 .. len + 1 : 0 < got'[c][k] /\ got'[c][k] <= produced
    <3>1. \A k \in 1 .. len : 0 < got[c][k] /\ got[c][k] <= produced
      BY <1>1 DEF ClientInv, Delivered, len
    <3>2. 0 < e.item /\ e.item <= produced
      BY <1>2, <1>3, <1>4
    <3> QED BY <1>7, <2>1, <3>1, <3>2
  <2>3. ASSUME NEW j \in 1 .. len + 1, NEW k \in 1 .. len + 1, j < k
        PROVE  got'[c][j] < got'[c][k]
    <3>1. CASE k \in 1 .. len
      <4>1. j \in 1 .. len
        BY <1>2, <2>3, <3>1
      <4>2. got[c][j] < got[c][k]
        BY <1>1, <2>3, <3>1, <4>1 DEF ClientInv, Delivered, len
      <4> QED BY <1>7, <3>1, <4>1, <4>2
    <3>2. CASE k = len + 1
      <4>1. j \in 1 .. len
        BY <1>2, <2>3, <3>2
      <4>2. got[c][j] \in Nat /\ got[c][j] <= last
        BY <1>2, <4>1
      <4>3. got[c][j] < e.item
        BY <1>2, <1>3, <1>4, <4>2
      <4> QED BY <1>7, <3>2, <4>1, <4>3
    <3> QED BY <2>1, <3>1, <3>2
  <2>4. ASSUME ~Overflowed, NEW k \in 1 .. len + 1
        PROVE  got'[c][k] = k
    <3>1. CASE k \in 1 .. len
      BY <1>1, <1>7, <2>4, <3>1 DEF ClientInv, Delivered, len
    <3>2. CASE k = len + 1
      BY <1>2, <1>3, <1>7, <2>4, <3>2
    <3> QED BY <2>1, <3>1, <3>2
  <2>5. lastId'[c] = SeqOf(LastGot(c)')
    BY <1>3, <1>6, <1>8
  <2>6. Overflowed' <=> Overflowed
    BY <1>5 DEF Overflowed
  <2> QED BY <1>5, <1>7, <2>2, <2>3, <2>4, <2>5, <2>6 DEF Delivered
<1>10. CASE finished /\ e.item = produced
  <2>1. Close(c, "done")
    BY <1>10 DEF WriteEvent, e
  <2>2. /\ follower' \in [Clients -> Follower] /\ writing' \in [Clients -> Seq(Numbered)]
        /\ link' \in [Clients -> {"closed", "open", "done"}]
        /\ follower'[c] = Idle /\ writing'[c] = << >> /\ link'[c] = "done"
    BY <1>1, <2>1, CloseShapes
  <2>3. ClientInv(c)'
    BY <1>5, <1>8, <1>9, <1>10, <2>2, ClosedInv
  <2>4. Shapes'
    BY <1>1, <1>5, <1>6, <2>2 DEF Shapes
  <2>5. \A d \in Clients \ {c} : Alone(d)
    BY <1>1, <1>5, <2>1 DEF Alone, Close, Shapes
  <2> QED BY <2>3, <2>4, <2>5
<1>11. CASE ~(finished /\ e.item = produced)
  <2>1. writing' = [writing EXCEPT ![c] = rest] /\ link' = link /\ follower' = follower
    BY <1>11 DEF WriteEvent, e, rest
  <2>2. writing \in [Clients -> Seq(Numbered)]
    BY <1>1 DEF Shapes
  <2>3. writing' \in [Clients -> Seq(Numbered)] /\ writing'[c] = rest
    BY <1>3, <2>1, <2>2
  <2>4. Shapes'
    BY <1>1, <1>5, <1>6, <2>1, <2>3 DEF Shapes
  <2>5. \A d \in Clients \ {c} : Alone(d)
    BY <1>1, <1>5, <2>1 DEF Alone, Shapes
  <2>6. LastWritten(c)' = LastWritten(c)
    BY <1>3, <1>8, <2>3 DEF LastWritten, LastItem
  <2>7. LastTaken(c)' = LastTaken(c)
    BY <2>1, <2>6 DEF LastTaken, LastItem
  <2>8. Chunk(writing[c], LastGot(c))'
    BY <1>3, <1>5, <1>8, <2>3 DEF Chunk, Overflowed
  <2>9. Chunk(follower[c].held, LastWritten(c))'
    BY <1>1, <1>5, <2>1, <2>6 DEF ClientInv, InFlight, Chunk, Overflowed
  <2>10. InFlight(c)'
    BY <1>1, <2>1, <2>7, <2>8, <2>9 DEF ClientInv, InFlight
  <2>11. LinkOK(c)'
    BY <1>1, <1>2, <2>1 DEF ClientInv, LinkOK
  <2> QED BY <1>9, <2>4, <2>5, <2>10, <2>11 DEF ClientInv
<1> QED BY <1>10, <1>11

\* The browser connects with the id of the last event it has.
LEMMA ConnectInv ==
  ASSUME IInv, NEW c \in Clients, Connect(c)
  PROVE  Shapes' /\ ClientInv(c)' /\ \A d \in Clients \ {c} : Alone(d)
<1> DEFINE a == lastId[c]
           g == [Idle EXCEPT !.pc = "poll", !.after = a]
<1>1. Shapes /\ ClientInv(c)
  BY DEF IInv
<1>2. a \in Nat /\ Idle \in Follower
  BY ClientFacts, IdleType
<1>3. /\ follower' = [follower EXCEPT ![c] = g]
      /\ link' = [link EXCEPT ![c] = "open"]
      /\ link[c] = "closed"
      /\ UNCHANGED <<events, produced, finished, wakes, writing, lastId, got, drops>>
  BY DEF Connect
<1>4. g \in Follower /\ g.pc = "poll" /\ g.after = a /\ g.held = << >>
  <2>1. g \in Follower /\ g.pc = "poll" /\ g.after = a /\ g.held = Idle.held
    <3> HIDE DEF a
    <3> QED BY <1>2, StartPolling
  <2> QED BY <2>1, IdleType
<1> HIDE DEF g
<1>5. /\ follower' \in [Clients -> Follower] /\ follower'[c] = g
      /\ link' \in [Clients -> {"closed", "open", "done"}] /\ link'[c] = "open"
  BY <1>1, <1>3, <1>4 DEF Shapes
<1>6. Shapes'
  BY <1>1, <1>3, <1>5 DEF Shapes
<1>7. writing'[c] = << >> /\ LastGot(c)' = LastGot(c)
  BY <1>1, <1>3 DEF ClientInv, LinkOK, LastGot
<1>8. LastTaken(c)' = LastGot(c)
  BY <1>4, <1>5, <1>7 DEF LastTaken, LastWritten, LastItem
<1>9. a = SeqOf(LastGot(c))
  BY <1>1 DEF ClientInv, Delivered
<1>10. Chunk(writing[c], LastGot(c))' /\ Chunk(follower[c].held, LastWritten(c))'
  BY <1>4, <1>5, <1>7, EmptySeq DEF Chunk
<1>11. InFlight(c)'
  BY <1>4, <1>5, <1>8, <1>9, <1>10 DEF InFlight
<1>12. Delivered(c)' /\ LinkOK(c)'
  BY <1>1, <1>3, <1>5, <1>7 DEF ClientInv, Delivered, LinkOK, Overflowed
<1>13. \A d \in Clients \ {c} : Alone(d)
  BY <1>1, <1>3 DEF Alone, Shapes
<1> QED BY <1>6, <1>11, <1>12, <1>13 DEF ClientInv

\* The handler returns: the browser keeps what it has.
LEMMA EndInv ==
  ASSUME IInv, NEW c \in Clients, EndStream(c) \/ Drop(c)
  PROVE  Shapes' /\ ClientInv(c)' /\ \A d \in Clients \ {c} : Alone(d)
<1>1. Shapes /\ ClientInv(c)
  BY DEF IInv
<1>2. /\ Close(c, "closed") /\ UNCHANGED <<events, produced, finished, wakes, lastId, got>>
      /\ drops' = drops \/ drops' = drops + 1
  BY DEF EndStream, Drop
<1>3. /\ follower' \in [Clients -> Follower] /\ writing' \in [Clients -> Seq(Numbered)]
      /\ link' \in [Clients -> {"closed", "open", "done"}]
      /\ follower'[c] = Idle /\ writing'[c] = << >> /\ link'[c] = "closed"
  BY <1>1, <1>2, CloseShapes
<1>4. LastGot(c)' = LastGot(c)
  BY <1>2 DEF LastGot
<1>5. Delivered(c)'
  BY <1>1, <1>2, <1>4 DEF ClientInv, Delivered, Overflowed
<1>6. ClientInv(c)'
  BY <1>3, <1>5, ClosedInv
<1>7. Shapes'
  BY <1>1, <1>2, <1>3 DEF Shapes
<1>8. \A d \in Clients \ {c} : Alone(d)
  BY <1>1, <1>2 DEF Alone, Close, Shapes
<1> QED BY <1>6, <1>7, <1>8

------------------------------------------------------------------------------
(* Every step. *)

\* Every step of a connection keeps what holds of it and touches nothing else.
LEMMA ClientStep ==
  ASSUME IInv, NEW c \in Clients,
         FollowerStep(c) \/ HandlerStep(c) \/ Connect(c) \/ Drop(c)
  PROVE  /\ Shapes' /\ ClientInv(c)' /\ UNCHANGED buffer
         /\ \A d \in Clients \ {c} : Alone(d)
<1>1. Shapes
  BY DEF IInv
<1>2. CASE Poll(c)
  <2>1. follower' \in [Clients -> Follower] /\ ClientInv(c)'
    BY <1>2, PollInv
  <2>2. UNCHANGED <<events, produced, finished, wakes, writing, link, lastId, got, drops>>
    BY <1>2 DEF Poll
  <2>3. \A d \in Clients \ {c} : follower'[d] = follower[d]
    BY <1>1, <1>2 DEF Poll, Shapes
  <2>4. Shapes'
    BY <1>1, <2>1, <2>2 DEF Shapes
  <2> QED BY <2>1, <2>2, <2>3, <2>4 DEF Alone, buffer
<1>3. CASE Wake(c)
  <2>1. follower' \in [Clients -> Follower] /\ ClientInv(c)'
    BY <1>3, WakeInv
  <2>2. UNCHANGED <<events, produced, finished, wakes, writing, link, lastId, got, drops>>
    BY <1>3 DEF Wake
  <2>3. \A d \in Clients \ {c} : follower'[d] = follower[d]
    BY <1>1, <1>3 DEF Wake, Shapes
  <2>4. Shapes'
    BY <1>1, <2>1, <2>2 DEF Shapes
  <2> QED BY <2>1, <2>2, <2>3, <2>4 DEF Alone, buffer
<1>4. CASE HandOver(c)
  <2>1. /\ follower' \in [Clients -> Follower] /\ writing' \in [Clients -> Seq(Numbered)]
        /\ ClientInv(c)'
    BY <1>4, HandOverInv
  <2>2. UNCHANGED <<events, produced, finished, wakes, link, lastId, got, drops>>
    BY <1>4 DEF HandOver
  <2>3. \A d \in Clients \ {c} : follower'[d] = follower[d] /\ writing'[d] = writing[d]
    BY <1>1, <1>4 DEF HandOver, Shapes
  <2>4. Shapes'
    BY <1>1, <2>1, <2>2 DEF Shapes
  <2> QED BY <2>1, <2>2, <2>3, <2>4 DEF Alone, buffer
<1>5. CASE WriteEvent(c)
  <2>1. UNCHANGED buffer
    BY <1>5 DEF WriteEvent, buffer
  <2> QED BY <1>5, <2>1, WriteInv
<1>6. CASE Connect(c)
  <2>1. UNCHANGED buffer
    BY <1>6 DEF Connect, buffer
  <2> QED BY <1>6, <2>1, ConnectInv
<1>7. CASE EndStream(c) \/ Drop(c)
  <2>1. UNCHANGED buffer
    BY <1>7 DEF EndStream, Drop, buffer
  <2> QED BY <1>7, <2>1, EndInv
<1> QED BY <1>2, <1>3, <1>4, <1>5, <1>6, <1>7 DEF FollowerStep, HandlerStep

\* Every step keeps the invariant.
LEMMA NextInv == IInv /\ [Next]_vars => IInv'
<1> SUFFICES ASSUME IInv, [Next]_vars PROVE IInv'
  OBVIOUS
<1>1. CASE AppendEvent \/ Finish
  BY <1>1, ProduceStep
<1>2. ASSUME NEW c \in Clients, FollowerStep(c) \/ HandlerStep(c) \/ Connect(c) \/ Drop(c)
      PROVE  IInv'
  <2>1. /\ Shapes' /\ ClientInv(c)' /\ UNCHANGED buffer
        /\ \A d \in Clients \ {c} : Alone(d)
    BY <1>2, ClientStep
  <2>2. Buffered'
    BY <2>1 DEF IInv, Buffered, buffer
  <2>3. \A d \in Clients \ {c} : ClientInv(d)'
    BY <2>1, AloneInv DEF IInv
  <2> QED BY <2>1, <2>2, <2>3 DEF IInv
<1>3. CASE UNCHANGED vars
  <2>1. UNCHANGED buffer /\ \A d \in Clients : Alone(d)
    BY <1>3 DEF vars, buffer, Alone
  <2>2. \A d \in Clients : ClientInv(d)'
    BY <2>1, AloneInv DEF IInv
  <2>3. Buffered' /\ Shapes'
    BY <1>3 DEF vars, IInv, Buffered, Shapes
  <2> QED BY <2>2, <2>3 DEF IInv
<1> QED BY <1>1, <1>2, <1>3 DEF Next

\* The buffer, the connections and the browsers stay consistent with each other
\* (append, Follow, the SSE handler and the reconnecting EventSource).
THEOREM Invariance == Spec => []IInv
BY InitInv, NextInv, PTL DEF Spec

------------------------------------------------------------------------------
(* What it means for the buffer and for the browser. *)

\* Truncation in append keeps the newest events, all of them, up to the capacity,
\* and the verdict comes on top.
THEOREM NewestKept == Spec => []KeepsTheTail
<1>1. IInv => KeepsTheTail
  <2> SUFFICES ASSUME IInv PROVE KeepsTheTail
    OBVIOUS
  <2>1. /\ Len(events) \in Nat /\ produced \in Nat /\ finished \in BOOLEAN
        /\ MaxEvents \in Nat \ {0}
    BY RunStreamAssumption DEF IInv, Shapes
  <2> QED BY <2>1 DEF IInv, Buffered, KeepsTheTail, Kept
<1> QED BY <1>1, Invariance, PTL

\* However often a browser connects, is cut off and reconnects with Last-Event-ID,
\* it gets no event twice and none out of order; below the cap it gets all of them.
THEOREM NothingTwice == Spec => []ReceivedExactly
<1>1. IInv => ReceivedExactly
  <2> SUFFICES ASSUME IInv, NEW c \in Clients
               PROVE  /\ \A j, k \in DOMAIN got[c] : j < k => got[c][j] < got[c][k]
                      /\ ~Overflowed => /\ \A k \in DOMAIN got[c] : got[c][k] = k
                                        /\ link[c] = "done" => Len(got[c]) = produced
    BY DEF ReceivedExactly
  <2>1. ClientInv(c)
    BY DEF IInv
  <2>2. DOMAIN got[c] = 1 .. Len(got[c])
    BY ClientFacts
  <2>3. ~Overflowed => LastGot(c) = Len(got[c])
    BY ClientFacts
  <2> QED BY <2>1, <2>2, <2>3 DEF ClientInv, Delivered, LinkOK
<1> QED BY <1>1, Invariance, PTL

------------------------------------------------------------------------------
(* Wake-ups and bounds. *)

\* A follower that sleeps, and that no close of the channel has woken yet, has
\* taken everything there is, and there is more to come.
SleepsInTime(c) ==
  LET f == follower[c]
  IN  f.pc = "wait" /\ f.seen = wakes => EventsAfter(f.after) = << >> /\ ~finished

NoLostWakeUp == \A c \in Clients : SleepsInTime(c)

\* Every event closes the channel once.
Counted ==
  /\ wakes = produced
  /\ produced <= IF finished THEN MaxLines + 1 ELSE MaxLines
  /\ drops <= MaxDrops
  /\ \A c \in Clients : /\ follower[c].seen <= wakes
                        /\ follower[c].pc = "gone" => follower[c] = Idle

\* A new event is counted, and finds nobody up to date.
LEMMA ProduceCounts ==
  ASSUME Shapes, Counted, NoLostWakeUp, AppendEvent \/ Finish
  PROVE  Counted' /\ NoLostWakeUp'
<1>1. /\ produced \in Nat /\ wakes \in Nat /\ finished \in BOOLEAN /\ MaxLines \in Nat
      /\ \A c \in Clients : follower[c].seen \in Nat
  BY RunStreamAssumption DEF Shapes, Follower
<1>2. /\ produced' = produced + 1 /\ wakes' = wakes + 1 /\ UNCHANGED <<follower, drops>>
      /\ ~finished /\ (finished' \/ produced < MaxLines)
  BY DEF AppendEvent, Finish
<1>3. \A c \in Clients : follower[c].seen <= wakes' /\ follower[c].seen # wakes'
  BY <1>1, <1>2 DEF Counted
<1> QED BY <1>1, <1>2, <1>3 DEF Counted, NoLostWakeUp, SleepsInTime

\* Following, writing and reconnecting: nobody goes to sleep before the buffer is
\* taken, under the lock that the wake-up needs.
LEMMA ClientCounts ==
  ASSUME Shapes, Counted, NoLostWakeUp, NEW c \in Clients,
         FollowerStep(c) \/ HandlerStep(c) \/ Connect(c) \/ Drop(c)
  PROVE  Counted' /\ NoLostWakeUp'
<1>1. /\ UNCHANGED <<events, produced, finished, wakes>>
      /\ \A d \in Clients \ {c} : follower'[d] = follower[d]
      /\ drops' \in {drops, drops + 1} /\ (drops' # drops => drops < MaxDrops)
  BY DEF FollowerStep, HandlerStep, Poll, Wake, HandOver, WriteEvent, EndStream, Close, Connect, Drop,
         Shapes
<1>2. follower \in [Clients -> Follower] /\ follower[c] \in Follower /\ drops \in Nat /\ MaxDrops \in Nat
  BY RunStreamAssumption DEF Shapes
<1>3. /\ follower'[c].seen <= wakes
      /\ follower'[c].pc = "gone" => follower'[c] = Idle
      /\ SleepsInTime(c)'
  <2> USE <1>2 DEF Counted, NoLostWakeUp, SleepsInTime, Shapes
  <2>1. CASE follower'[c] = Idle
    BY <2>1 DEF Idle
  <2>2. CASE UNCHANGED follower
    BY <1>1, <2>2 DEF EventsAfter, LastSeq
  <2>3. CASE Poll(c)
    <3> DEFINE f == follower[c]
               batch == EventsAfter(f.after)
    <3>1. CASE batch # << >>
      BY <2>3, <3>1 DEF Poll, Follower
    <3>2. CASE batch = << >> /\ finished
      BY <2>3, <3>2 DEF Poll, Follower
    <3>3. CASE batch = << >> /\ ~finished
      <4>1. follower'[c] = [f EXCEPT !.pc = "wait", !.seen = wakes]
        BY <2>3, <3>3 DEF Poll
      <4>2. follower'[c].pc = "wait" /\ follower'[c].seen = wakes /\ follower'[c].after = f.after
        BY <4>1 DEF Follower
      <4>3. EventsAfter(f.after)' = batch
        BY <1>1, <4>2 DEF EventsAfter, LastSeq
      <4> QED BY <1>1, <3>3, <4>2, <4>3
    <3> QED BY <3>1, <3>2, <3>3
  <2>4. CASE Wake(c) \/ HandOver(c)
    <3>1. CASE Wake(c)
      <4>1. follower'[c] = [follower[c] EXCEPT !.pc = "poll"]
        BY <3>1 DEF Wake
      <4>2. follower'[c].pc = "poll" /\ follower'[c].seen = follower[c].seen
        BY <4>1 DEF Follower
      <4> QED BY <1>1, <4>2
    <3>2. CASE HandOver(c)
      <4>1. follower'[c] = [follower[c] EXCEPT !.pc = "poll", !.held = << >>]
        BY <3>2 DEF HandOver
      <4>2. follower'[c].pc = "poll" /\ follower'[c].seen = follower[c].seen
        BY <4>1 DEF Follower
      <4> QED BY <1>1, <4>2
    <3> QED BY <2>4, <3>1, <3>2
  <2>5. CASE Connect(c)
    BY <2>5 DEF Connect, Idle
  <2>6. CASE WriteEvent(c) \/ EndStream(c) \/ Drop(c)
    <3>1. follower' = [follower EXCEPT ![c] = Idle] \/ UNCHANGED follower
      BY <2>6 DEF WriteEvent, EndStream, Drop, Close
    <3> QED BY <2>1, <2>2, <3>1
  <2> QED BY <2>3, <2>4, <2>5, <2>6 DEF FollowerStep, HandlerStep
<1>4. \A d \in Clients \ {c} : SleepsInTime(d)'
  BY <1>1 DEF NoLostWakeUp, SleepsInTime, EventsAfter, LastSeq
<1>5. \A d \in Clients : follower'[d].seen <= wakes' /\ (follower'[d].pc = "gone" => follower'[d] = Idle)
  BY <1>1, <1>3 DEF Counted
<1>6. drops' <= MaxDrops
  BY <1>1, <1>2 DEF Counted
<1> QED BY <1>1, <1>3, <1>4, <1>5, <1>6 DEF Counted, NoLostWakeUp

\* Every event wakes everybody who waits for it, and the counters keep their bounds.
LEMMA Counts == Spec => [](Counted /\ NoLostWakeUp)
<1>1. Init => Counted /\ NoLostWakeUp
  BY RunStreamAssumption DEF Init, Counted, NoLostWakeUp, SleepsInTime, Idle
<1>2. Shapes /\ Counted /\ NoLostWakeUp /\ [Next]_vars => (Counted /\ NoLostWakeUp)'
  <2> SUFFICES ASSUME Shapes, Counted, NoLostWakeUp, [Next]_vars PROVE (Counted /\ NoLostWakeUp)'
    OBVIOUS
  <2>1. CASE UNCHANGED vars
    BY <2>1 DEF vars, Counted, NoLostWakeUp, SleepsInTime, EventsAfter, LastSeq
  <2> QED BY <2>1, ProduceCounts, ClientCounts DEF Next
<1>3. IInv => Shapes
  BY DEF IInv
<1> QED BY <1>1, <1>2, <1>3, Invariance, PTL DEF Spec

\* No wake-up is lost between the look at the buffer and the wait (Follow takes the
\* channel under the lock under which append closes it), truncation included: the
\* safety half of VerdictArrives.
THEOREM NobodyOversleeps == Spec => []NoLostWakeUp
BY Counts, PTL

\* A sequence has the type of its elements.
LEMMA RetypedSeq ==
  ASSUME NEW S, NEW T, NEW s \in Seq(S), \A k \in 1 .. Len(s) : s[k] \in T
  PROVE  s \in Seq(T)
<1>1. s \in [1 .. Len(s) -> T]
  OBVIOUS
<1> QED BY <1>1

\* Numbers and items within their bounds make an event.
LEMMA EventBounds ==
  ASSUME NEW e \in Numbered, e.seq = SeqOf(e.item), 1 <= e.item, e.item <= MaxLines + 1
  PROVE  e \in Event
BY RunStreamAssumption DEF Numbered, Event, SeqOf

\* Every variable keeps its type, every number and counter its bound.
THEOREM TypeCorrect == Spec => []TypeOK
<1>1. IInv /\ Counted => TypeOK
  <2> SUFFICES ASSUME IInv, Counted PROVE TypeOK
    OBVIOUS
  <2>1. Shapes /\ Buffered
    BY DEF IInv
  <2>2. /\ produced \in 0 .. MaxLines + 1 /\ wakes \in 0 .. MaxLines + 1 /\ drops \in 0 .. MaxDrops
        /\ MaxEvents \in Nat \ {0} /\ MaxLines \in Nat
    BY <2>1, RunStreamAssumption DEF Shapes, Counted
  <2>3. \A n \in Nat : SeqOf(n) \in 0 .. MaxEvents + 1
    BY <2>2 DEF SeqOf
  <2>4. ASSUME NEW s \in Seq(Numbered), NEW n \in Nat, Chunk(s, n)
        PROVE  s \in Seq(Event)
    <3>1. ASSUME NEW k \in 1 .. Len(s) PROVE s[k] \in Event
      <4>1. s[k] \in Numbered /\ n < s[k].item /\ s[k].item <= produced /\ s[k].seq = SeqOf(s[k].item)
        BY <2>4, ElementOfSeq DEF Chunk
      <4>2. s[k].item \in Nat
        BY <4>1 DEF Numbered
      <4>3. 1 <= s[k].item /\ s[k].item <= MaxLines + 1
        BY <2>2, <4>1, <4>2
      <4> QED BY <4>1, <4>3, EventBounds
    <3> QED BY <3>1, RetypedSeq
  <2>5. events \in Seq(Event)
    <3>1. events \in Seq(Numbered) /\ Len(events) \in Nat /\ Len(events) <= produced
      <4>1. events \in Seq(Numbered) /\ finished \in BOOLEAN
        BY <2>1 DEF Shapes
      <4> QED BY <2>1, <2>2, <4>1 DEF Buffered, Kept
    <3>2. ASSUME NEW k \in 1 .. Len(events) PROVE events[k] \in Event
      <4>1. events[k] \in Numbered
        BY <3>1, ElementOfSeq
      <4>2. events[k].item = produced - Len(events) + k /\ events[k].seq = SeqOf(events[k].item)
        BY <2>1 DEF Buffered
      <4>3. 1 <= events[k].item /\ events[k].item <= MaxLines + 1
        BY <2>2, <3>1, <4>2
      <4> QED BY <4>1, <4>2, <4>3, EventBounds
    <3> QED BY <3>1, <3>2, RetypedSeq
  <2>6. ASSUME NEW c \in Clients
        PROVE  /\ writing[c] \in Seq(Event)
               /\ lastId[c] \in 0 .. MaxEvents + 1
               /\ got[c] \in Seq(1 .. MaxLines + 1)
               /\ follower[c] \in [pc : {"gone", "poll", "wait", "send", "done"},
                                   after : 0 .. MaxEvents + 1, seen : 0 .. MaxLines + 1, held : Seq(Event)]
    <3>1. ClientInv(c)
      BY DEF IInv
    <3>2. writing[c] \in Seq(Event) /\ follower[c].held \in Seq(Event)
      BY <2>4, <3>1, ClientFacts DEF ClientInv, InFlight
    <3>3. lastId[c] \in 0 .. MaxEvents + 1
      BY <2>3, <3>1, ClientFacts DEF ClientInv, Delivered
    <3>4. got[c] \in Seq(1 .. MaxLines + 1)
      <4>1. \A k \in 1 .. Len(got[c]) : got[c][k] \in 1 .. MaxLines + 1
        BY <2>2, <3>1, ClientFacts DEF ClientInv, Delivered
      <4> QED BY <4>1, RetypedSeq, ClientFacts
    <3>5. follower[c].after \in 0 .. MaxEvents + 1
      <4>1. CASE follower[c].pc = "gone"
        <5>1. follower[c].after = 0
          BY <4>1 DEF Counted, Idle
        <5> QED BY <2>2, <5>1
      <4>2. CASE follower[c].pc # "gone"
        <5>1. follower[c].after = SeqOf(LastTaken(c))
          BY <3>1, <4>2 DEF ClientInv, InFlight
        <5>2. LastTaken(c) \in Nat
          BY <2>1, <3>1, ClientFacts, ChunkEnd DEF LastTaken, ClientInv, InFlight
        <5> QED BY <2>3, <5>1, <5>2
      <4> QED BY <4>1, <4>2
    <3>6. follower[c].seen \in 0 .. MaxLines + 1
      <4>1. follower[c].seen \in Nat /\ follower[c].seen <= wakes
        BY ClientFacts DEF Follower, Counted
      <4> QED BY <2>2, <4>1
    <3>7. follower[c] \in Follower
      BY ClientFacts
    <3> QED BY <3>2, <3>3, <3>4, <3>5, <3>6, <3>7 DEF Follower
  <2>7. /\ follower \in [Clients -> Follower] /\ writing \in [Clients -> Seq(Numbered)]
        /\ lastId \in [Clients -> Nat] /\ got \in [Clients -> Seq(Nat)]
        /\ link \in [Clients -> {"closed", "open", "done"}] /\ finished \in BOOLEAN
    BY <2>1 DEF Shapes
  <2>8. /\ writing \in [Clients -> Seq(Event)]
        /\ lastId \in [Clients -> 0 .. MaxEvents + 1]
        /\ got \in [Clients -> Seq(1 .. MaxLines + 1)]
    BY <2>6, <2>7
  <2>9. follower \in [Clients -> [pc : {"gone", "poll", "wait", "send", "done"},
                                  after : 0 .. MaxEvents + 1, seen : 0 .. MaxLines + 1, held : Seq(Event)]]
    BY <2>6, <2>7
  <2> QED BY <2>2, <2>5, <2>7, <2>8, <2>9 DEF TypeOK
<1> QED BY <1>1, Invariance, Counts, PTL
==============================================================================
