------------------------------ MODULE RunStream ------------------------------
(***************************************************************************)
(* The event stream of one run: the buffer of internal/runner/run.go, the  *)
(* SSE handler of internal/httpapi/runs.go with its follower goroutine,    *)
(* and the browser's EventSource (task.js follow), which reconnects with   *)
(* the id of the last event it received.                                   *)
(*                                                                         *)
(* An event is the number of its production: the k-th event is k, and the  *)
(* verdict is the last one.  Its text is left out.                         *)
(***************************************************************************)
EXTENDS Integers, Sequences

CONSTANTS
  Clients,    \* browsers following the run
  MaxEvents,  \* capacity of the buffer (maxEvents)
  MaxLines,   \* bound on the log and test events the command produces
  MaxDrops    \* bound on the connections the network loses

ASSUME RunStreamAssumption ==
  /\ MaxEvents \in Nat \ {0}
  /\ MaxLines \in Nat
  /\ MaxDrops \in Nat

VARIABLES
  events,    \* the buffer: records [seq, item]
  produced,  \* how many events were produced, the verdict included
  finished,  \* the verdict is in
  wakes,     \* how many times r.updated was closed and replaced
  follower,  \* per connection: the goroutine that calls Follow
  writing,   \* per connection: events the handler still has to write
  link,      \* per browser: "closed" (will reconnect), "open", "done"
  lastId,    \* per browser: Last-Event-ID
  got,       \* per browser: the items received, in order
  drops      \* connections lost so far

buffer == <<events, produced, finished, wakes>>
browser == <<link, lastId, got>>
vars == <<events, produced, finished, wakes, follower, writing, link, lastId, got, drops>>

------------------------------------------------------------------------------
(* The buffer. *)

LastSeq == IF events = << >> THEN 0 ELSE events[Len(events)].seq

\* Mutant: an overfull buffer keeps its beginning.
Truncate_Head(s) == IF Len(s) > MaxEvents THEN SubSeq(s, 1, MaxEvents) ELSE s

\* Keep the tail of an overfull buffer.
Truncate(s) == IF Len(s) > MaxEvents THEN SubSeq(s, Len(s) - MaxEvents + 1, Len(s)) ELSE s

NextEvent == [seq |-> Len(events) + 1, item |-> produced + 1]

\* Run.append: a log line or a test result.
AppendEvent ==
  /\ ~finished
  /\ produced < MaxLines
  /\ events' = Truncate(Append(events, NextEvent))
  /\ produced' = produced + 1
  /\ wakes' = wakes + 1
  /\ UNCHANGED <<finished, follower, writing, link, lastId, got, drops>>

\* Mutant: the once-only guard is missing.
Finish_Twice ==
  /\ events' = Append(events, NextEvent)
  /\ produced' = produced + 1
  /\ finished' = TRUE
  /\ wakes' = wakes + 1
  /\ UNCHANGED <<follower, writing, link, lastId, got, drops>>

\* Mutant: the followers are not woken.
Finish_NoWake ==
  /\ ~finished
  /\ events' = Append(events, NextEvent)
  /\ produced' = produced + 1
  /\ finished' = TRUE
  /\ UNCHANGED <<wakes, follower, writing, link, lastId, got, drops>>

\* Mutant: a full buffer has no room for the verdict.
Finish_Capped ==
  /\ ~finished
  /\ events' = IF Len(events) < MaxEvents THEN Append(events, NextEvent) ELSE events
  /\ produced' = produced + 1
  /\ finished' = TRUE
  /\ wakes' = wakes + 1
  /\ UNCHANGED <<follower, writing, link, lastId, got, drops>>

\* Run.finish: the verdict is appended past the cap and seals the buffer.
Finish ==
  /\ ~finished
  /\ events' = Append(events, NextEvent)
  /\ produced' = produced + 1
  /\ finished' = TRUE
  /\ wakes' = wakes + 1
  /\ UNCHANGED <<follower, writing, link, lastId, got, drops>>

\* Mutant: off by one, the last event delivered is delivered again.
EventsAfter_Inclusive(after) ==
  IF after >= LastSeq THEN << >>
  ELSE LET start == after - events[1].seq
       IN  SubSeq(events, IF start < 0 THEN 1 ELSE start + 1, Len(events))

\* The events after a sequence number, found by arithmetic on the first one's.
EventsAfter(after) ==
  IF after >= LastSeq THEN << >>
  ELSE LET start == after - events[1].seq + 1
       IN  SubSeq(events, IF start < 0 THEN 1 ELSE start + 1, Len(events))

------------------------------------------------------------------------------
(* The follower goroutine: Follow in a loop, batches over a channel. *)

Idle == [pc |-> "gone", after |-> 0, seen |-> 0, held |-> << >>]

\* Under the lock: take a batch, or learn that the run is over, or remember the
\* channel that the next wake will close.
Poll(c) ==
  LET f == follower[c]
      batch == EventsAfter(f.after)
  IN  /\ f.pc = "poll"
      /\ follower' = [follower EXCEPT ![c] =
           IF batch # << >>
             THEN [f EXCEPT !.pc = "send", !.after = batch[Len(batch)].seq, !.held = batch]
           ELSE IF finished THEN [f EXCEPT !.pc = "done"]
           ELSE [f EXCEPT !.pc = "wait", !.seen = wakes]]
      /\ UNCHANGED <<events, produced, finished, wakes, writing, link, lastId, got, drops>>

Wake(c) ==
  /\ follower[c].pc = "wait"
  /\ follower[c].seen # wakes
  /\ follower' = [follower EXCEPT ![c].pc = "poll"]
  /\ UNCHANGED <<events, produced, finished, wakes, writing, link, lastId, got, drops>>

------------------------------------------------------------------------------
(* The handler: receives a batch when the previous one is written out. *)

HandOver(c) ==
  /\ follower[c].pc = "send"
  /\ writing[c] = << >>
  /\ writing' = [writing EXCEPT ![c] = follower[c].held]
  /\ follower' = [follower EXCEPT ![c].pc = "poll", ![c].held = << >>]
  /\ UNCHANGED <<events, produced, finished, wakes, link, lastId, got, drops>>

Close(c, state) ==
  /\ link' = [link EXCEPT ![c] = state]
  /\ follower' = [follower EXCEPT ![c] = Idle]
  /\ writing' = [writing EXCEPT ![c] = << >>]

\* One event reaches the browser, which closes the source on the verdict.
WriteEvent(c) ==
  /\ writing[c] # << >>
  /\ LET e == Head(writing[c])
     IN  /\ got' = [got EXCEPT ![c] = Append(@, e.item)]
         /\ lastId' = [lastId EXCEPT ![c] = e.seq]
         /\ IF finished /\ e.item = produced
              THEN Close(c, "done")
              ELSE /\ writing' = [writing EXCEPT ![c] = Tail(@)]
                   /\ UNCHANGED <<link, follower>>
  /\ UNCHANGED <<events, produced, finished, wakes, drops>>

\* Everything was delivered, as far as the follower can tell: the handler
\* returns and the browser, not having seen the verdict, reconnects.
EndStream(c) ==
  /\ follower[c].pc = "done"
  /\ writing[c] = << >>
  /\ Close(c, "closed")
  /\ UNCHANGED <<events, produced, finished, wakes, lastId, got, drops>>

------------------------------------------------------------------------------
(* The browser. *)

\* Mutant: Last-Event-ID is ignored.
Connect_FromStart(c) ==
  /\ link[c] = "closed"
  /\ link' = [link EXCEPT ![c] = "open"]
  /\ follower' = [follower EXCEPT ![c] = [Idle EXCEPT !.pc = "poll"]]
  /\ UNCHANGED <<events, produced, finished, wakes, writing, lastId, got, drops>>

Connect(c) ==
  /\ link[c] = "closed"
  /\ link' = [link EXCEPT ![c] = "open"]
  /\ follower' = [follower EXCEPT ![c] = [Idle EXCEPT !.pc = "poll", !.after = lastId[c]]]
  /\ UNCHANGED <<events, produced, finished, wakes, writing, lastId, got, drops>>

\* The network loses the connection: what is in flight never arrives.
Drop(c) ==
  /\ link[c] = "open"
  /\ drops < MaxDrops
  /\ drops' = drops + 1
  /\ Close(c, "closed")
  /\ UNCHANGED <<events, produced, finished, wakes, lastId, got>>

Init ==
  /\ events = << >> /\ produced = 0 /\ finished = FALSE /\ wakes = 0
  /\ follower = [c \in Clients |-> Idle]
  /\ writing = [c \in Clients |-> << >>]
  /\ link = [c \in Clients |-> "closed"]
  /\ lastId = [c \in Clients |-> 0]
  /\ got = [c \in Clients |-> << >>]
  /\ drops = 0

FollowerStep(c) == Poll(c) \/ Wake(c)
HandlerStep(c) == HandOver(c) \/ WriteEvent(c) \/ EndStream(c)

Next ==
  \/ AppendEvent
  \/ Finish
  \/ \E c \in Clients : FollowerStep(c) \/ HandlerStep(c) \/ Connect(c) \/ Drop(c)

Spec == Init /\ [][Next]_vars

\* A run always ends (the hard timeout), goroutines are scheduled, and an
\* EventSource keeps reconnecting.  Nothing makes the network lose a connection.
FairSpec ==
  /\ Spec
  /\ WF_vars(Finish)
  /\ \A c \in Clients : /\ WF_vars(FollowerStep(c))
                        /\ WF_vars(HandlerStep(c))
                        /\ WF_vars(Connect(c))

------------------------------------------------------------------------------
(* Properties. *)

Event == [seq : 1 .. MaxEvents + 1, item : 1 .. MaxLines + 1]

TypeOK ==
  /\ events \in Seq(Event)
  /\ produced \in 0 .. MaxLines + 1
  /\ finished \in BOOLEAN
  /\ wakes \in 0 .. MaxLines + 1
  /\ follower \in [Clients -> [pc : {"gone", "poll", "wait", "send", "done"},
                               after : 0 .. MaxEvents + 1, seen : 0 .. MaxLines + 1,
                               held : Seq(Event)]]
  /\ writing \in [Clients -> Seq(Event)]
  /\ link \in [Clients -> {"closed", "open", "done"}]
  /\ lastId \in [Clients -> 0 .. MaxEvents + 1]
  /\ got \in [Clients -> Seq(1 .. MaxLines + 1)]
  /\ drops \in 0 .. MaxDrops

\* The cap was reached and something was cut off.
Overflowed == (IF finished THEN produced - 1 ELSE produced) > MaxEvents

\* A browser that connects late, is dropped in the middle of a batch and
\* reconnects with Last-Event-ID never sees an event twice or out of order; while
\* the buffer has not overflowed it has exactly the first events, and all of them
\* once it has the verdict.
ReceivedExactly ==
  \A c \in Clients :
    /\ \A j, k \in DOMAIN got[c] : j < k => got[c][j] < got[c][k]
    /\ ~Overflowed => /\ \A k \in DOMAIN got[c] : got[c][k] = k
                      /\ link[c] = "done" => Len(got[c]) = produced

\* Truncation keeps the newest events, all of them, up to the capacity.
KeepsTheTail ==
  LET size == Len(events)
  IN  /\ size <= IF finished THEN MaxEvents + 1 ELSE MaxEvents
      /\ \A k \in 1 .. size : events[k].item = produced - size + k
      /\ produced >= MaxEvents => size >= MaxEvents

\* Every browser that keeps reconnecting gets the verdict of a run that stays
\* below the cap: no wake-up is lost between reading the buffer and waiting for it
\* to grow.
VerdictArrives == \A c \in Clients : <>(Overflowed \/ link[c] = "done")

\* ... and so it is promised of every run: log lines may be dropped, the verdict
\* never is.
VerdictDelivered == \A c \in Clients : <>(link[c] = "done")

\* A browser that opens the stream of a finished run, and whose connection is not
\* lost any more, gets the verdict however much of the log was cut off.
LateBrowserGetsVerdict ==
  \A c \in Clients :
    (finished /\ link[c] = "closed" /\ lastId[c] = 0 /\ drops = MaxDrops) ~> (link[c] = "done")
==============================================================================
