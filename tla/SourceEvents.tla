---------------------------- MODULE SourceEvents ----------------------------
(***************************************************************************)
(* The events of one "pi" run.  The Gateway's pump sends the worker's      *)
(* events in numbered batches and repeats a batch whose answer it missed;  *)
(* the backend stores each once, as a row of the run's event sequence or   *)
(* as a usage record, and publishes the rows after its commit; readers     *)
(* replay the rows and follow the broker of the process they are on.       *)
(***************************************************************************)
EXTENDS Integers, FiniteSets, SequencesExt

CONSTANTS
  Scripts,    \* what the worker of each attempt has to tell, in order, and
              \* (a bound) how many events internal tools add
  Processes,  \* backend processes, each with a broker of its own
  Readers,    \* SSE clients
  MaxBatch,   \* events of a batch
  MaxTries,   \* maxTransientRetries
  MaxHandlers \* bound: handlers at work at once

Attempts == 1..2
Kinds == {"text", "answer", "usage"}   \* message.delta, message.completed, usage

\* An attempt is answered once, when its last turn ends, after all its texts
\* (pi-gateway/src/event-projector.ts, completionEmitted).
AnswersOnce(said) ==
  \A i, j \in DOMAIN said :
    said[i] = "answer" /\ said[j] \in {"text", "answer"} => j <= i

ASSUME EventsAssumption ==
  /\ \A s \in Scripts : /\ s.says \in [Attempts -> Seq(Kinds)] /\ s.tools \in Nat
                         /\ \A a \in Attempts : AnswersOnce(s.says[a])
  /\ MaxBatch \in Nat \ {0} /\ MaxTries \in Nat /\ MaxHandlers \in Nat

VARIABLES
  script,   \* the member of Scripts this behaviour is about
  status,   \* of the run: "running", "queued" (after a lost attempt), "ended"
  attempt,  \* the newest AgentRunAttempt
  events,   \* AgentEvent rows, by their sequence in the run
  usage,    \* source identities of RuntimeUsageRecord rows
  message,  \* texts of the assistant message, or NoMessage
  pump,     \* EventDeliveryPump of the newest attempt
  wire,     \* requests that may still arrive
  jobs,     \* handlers between their commit and their answer
  reader    \* SSE clients

runVars == <<script, status, attempt>>
storeVars == <<events, usage, message>>
vars == <<script, status, attempt, events, usage, message, pump, wire, jobs, reader>>

NoMessage == <<[attempt |-> 0, number |-> 0]>>
NoRequest == [attempt |-> 0, first |-> 0, last |-> 0, try |-> 0]
NewPump == [acked |-> 0, last |-> 0, tries |-> 0, alive |-> TRUE]

Init ==
  /\ script \in Scripts
  /\ status = "running" /\ attempt = 1
  /\ events = <<>> /\ usage = {} /\ message = NoMessage
  /\ pump = NewPump /\ wire = {} /\ jobs = {}
  /\ reader = [c \in Readers |-> [at |-> "nowhere", phase |-> "off", seen |-> 0,
                                  queue |-> <<>>, got |-> <<>>]]

-----------------------------------------------------------------------------
(***************************************************************************)
(* The Gateway: one batch at a time; a batch is repeated, under the same   *)
(* source identities, until it is answered or the pump gives up.  The      *)
(* worker has its events ready when the pump takes them.                   *)
(***************************************************************************)
Sending == pump.last > pump.acked

Request(p) == [attempt |-> attempt, first |-> p.acked + 1, last |-> p.last, try |-> p.tries]

Send ==
  /\ pump.alive /\ ~Sending
  /\ \E k \in 1..MaxBatch :
       /\ pump.acked + k <= Len(script.says[attempt])
       /\ pump' = [pump EXCEPT !.last = pump.acked + k, !.tries = 0]
  /\ wire' = wire \cup {Request(pump')}
  /\ UNCHANGED <<runVars, storeVars, jobs, reader>>

MayResendMut == TRUE
MayResend == pump.tries < MaxTries

Resend ==   \* a timeout, a lost connection or a 5xx
  /\ pump.alive /\ Sending /\ MayResend
  /\ pump' = [pump EXCEPT !.tries = @ + 1]
  /\ wire' = wire \cup {Request(pump')}
  /\ UNCHANGED <<runVars, storeVars, jobs, reader>>

PumpFails ==   \* out of retries: the worker is aborted
  /\ pump.alive /\ Sending /\ ~MayResend
  /\ pump' = [pump EXCEPT !.alive = FALSE]
  /\ UNCHANGED <<runVars, storeVars, wire, jobs, reader>>

-----------------------------------------------------------------------------
(***************************************************************************)
(* The backend.  A handler holds the run's row from its lease check to its *)
(* commit, then publishes, then answers.                                   *)
(***************************************************************************)
LeasedMut(a) == attempt = a   \* does not look at the status of the run
Leased(a) == status = "running" /\ attempt = a

StoredOf(a) ==
  {events[i].number : i \in {j \in DOMAIN events : events[j].attempt = a}}
    \cup {u.number : u \in {v \in usage : v.attempt = a}}

HighWater(a) == CHOOSE n \in 0..Len(script.says[a]) :
  /\ n = 0 \/ n \in StoredOf(a)
  /\ \A m \in StoredOf(a) : m <= n

Refused == {0}

WindowMut(q) == q.first..q.last   \* takes a repeated batch for a new one

Window(q) ==   \* what is new in a batch: all that follows the high water, or nothing
  LET new == (q.first..q.last) \ StoredOf(q.attempt) IN
  IF new = {} \/ new = (HighWater(q.attempt) + 1)..q.last THEN new ELSE Refused

\* The members of a finite set of numbers, in their order.
InOrder(S) == CHOOSE s \in [1..Cardinality(S) -> S] :
  /\ \A i, j \in 1..Cardinality(S) : i < j => s[i] < s[j]
  /\ \A n \in S : \E i \in 1..Cardinality(S) : s[i] = n

Visible(q) == {n \in Window(q) : script.says[q.attempt][n] # "usage"}

Rows(q) ==   \* what is new in a batch and to be seen
  [i \in 1..Cardinality(Visible(q)) |->
     LET n == InOrder(Visible(q))[i] IN
     [kind |-> script.says[q.attempt][n], attempt |-> q.attempt, number |-> n]]

Source(e) == [attempt |-> e.attempt, number |-> e.number]

TextRows(rows) == {i \in DOMAIN rows : rows[i].kind = "text"}
TextsOf(rows) ==
  [i \in 1..Cardinality(TextRows(rows)) |-> Source(rows[InOrder(TextRows(rows))[i]])]

TextsSaid(a) == {n \in DOMAIN script.says[a] : script.says[a][n] = "text"}

FinalText(a) ==   \* of the answer: the texts streamed before it, or one of its own
  IF TextsSaid(a) = {} THEN <<[attempt |-> a, number |-> 0]>>
  ELSE [i \in 1..Cardinality(TextsSaid(a)) |->
          [attempt |-> a, number |-> InOrder(TextsSaid(a))[i]]]

Within(s, t) == \E i, j \in 1..Len(t) : SubSeq(t, i, j) = s

(***************************************************************************)
(* _append_gateway_assistant_message: the deltas of the run, those of a    *)
(* lost attempt too, completed by the final text.                          *)
(***************************************************************************)
MergedMut(merged, final) == merged \o final

Merged(merged, final) ==
  IF merged = <<>> \/ IsPrefix(merged, final) THEN final
  ELSE IF Within(final, merged) THEN merged ELSE merged \o final

Admitted(q) ==   \* the whole window is checked before any row is written
  /\ Leased(q.attempt)
  /\ Window(q) # Refused
  /\ \A i \in Window(q) : script.says[q.attempt][i] = "answer" => message = NoMessage

Handled(p, n, q, ok) ==   \* the last n events are to be published, then q is answered
  jobs' = jobs \cup {[at |-> p, list |-> [i \in 1..n |-> Len(events) + i], to |-> q, ok |-> ok]}

Store(q, p) ==
  /\ events' = events \o Rows(q)
  /\ usage' = usage \cup {[attempt |-> q.attempt, number |-> n] : n \in Window(q) \ Visible(q)}
  /\ message' = IF \E n \in Window(q) : script.says[q.attempt][n] = "answer"
                THEN Merged(TextsOf(events'), FinalText(q.attempt)) ELSE message
  /\ Handled(p, Cardinality(Visible(q)), q, TRUE)

Ingest(q, p) ==
  /\ q \in wire /\ wire' = wire \ {q}
  /\ \/ Admitted(q) /\ Store(q, p)
     \/ ~Admitted(q) /\ Handled(p, 0, q, FALSE) /\ UNCHANGED storeVars
  /\ UNCHANGED <<runVars, pump, reader>>

NoSource(kind) == [kind |-> kind, attempt |-> 0, number |-> 0]

AppendLocked(kind, p) ==
  /\ events' = Append(events, NoSource(kind))
  /\ Handled(p, 1, NoRequest, TRUE)
  /\ UNCHANGED <<usage, message>>

InternalTool(p) ==   \* append_artifact_tool_events
  /\ Leased(attempt)
  /\ Cardinality({i \in DOMAIN events : events[i].kind = "artifact"}) < script.tools
  /\ AppendLocked("artifact", p)
  /\ UNCHANGED <<runVars, pump, wire, reader>>

(***************************************************************************)
(* settle_terminal, by the worker, which has drained its pump, or by       *)
(* recovery or the user at any moment.  Recovery gives a run without an    *)
(* answer another attempt, once, without any event.                        *)
(***************************************************************************)
EndRun(p) ==
  /\ status # "ended"
  /\ status' = "ended"
  /\ AppendLocked("terminal", p)
  /\ UNCHANGED <<script, attempt, pump, wire, reader>>

Requeue ==
  /\ status = "running" /\ attempt = 1 /\ message \in {NoMessage, <<>>}
  /\ status' = "queued"
  /\ UNCHANGED <<script, attempt, storeVars, pump, wire, jobs, reader>>

ClaimAgain ==
  /\ status = "queued"
  /\ status' = "running" /\ attempt' = attempt + 1
  /\ pump' = NewPump
  /\ UNCHANGED <<script, storeVars, wire, jobs, reader>>

-----------------------------------------------------------------------------
Publish(j) ==
  /\ j.list # <<>>
  /\ jobs' = (jobs \ {j}) \cup {[j EXCEPT !.list = Tail(@)]}
  /\ reader' = [c \in Readers |->
       IF reader[c].at = j.at THEN [reader[c] EXCEPT !.queue = Append(@, Head(j.list))]
       ELSE reader[c]]
  /\ UNCHANGED <<runVars, storeVars, pump, wire>>

Answer(j, arrives) ==   \* an answer to an earlier try finds its request aborted
  /\ j.list = <<>>
  /\ jobs' = jobs \ {j}
  /\ LET current == pump.alive /\ Sending /\ j.to = Request(pump) IN
       pump' = IF ~arrives \/ ~current THEN pump
               ELSE IF j.ok THEN [pump EXCEPT !.acked = pump.last, !.tries = 0]
               ELSE [pump EXCEPT !.alive = FALSE]
  /\ UNCHANGED <<runVars, storeVars, wire, reader>>

Nowhere(c) == [reader[c] EXCEPT !.at = "nowhere", !.phase = "off", !.queue = <<>>]

ProcessDies(p) ==
  /\ jobs' = {j \in jobs : j.at # p}
  /\ reader' = [c \in Readers |-> IF reader[c].at = p THEN Nowhere(c) ELSE reader[c]]
  /\ UNCHANGED <<runVars, storeVars, pump, wire>>

-----------------------------------------------------------------------------
(***************************************************************************)
(* AgentEventStream.stream: subscribe, then list the rows after the last   *)
(* one seen, wait for the broker or half a second, and so on.  The client  *)
(* comes back with the Last-Event-ID it has.                               *)
(***************************************************************************)
Connect(c, p) ==
  /\ reader[c].phase = "off"
  /\ reader' = [reader EXCEPT ![c] = [@ EXCEPT !.at = p, !.phase = "list"]]
  /\ UNCHANGED <<runVars, storeVars, pump, wire, jobs>>

IsTerminal(n) == events[n].kind = "terminal"

Deliver(c, list) ==   \* the stream ends with a terminal event
  [reader[c] EXCEPT !.got = @ \o list, !.seen = IF list = <<>> THEN @ ELSE Last(list)]

After(n) == [i \in 1..(Len(events) - n) |-> n + i]

ListAfter(c) ==
  /\ reader[c].phase = "list"
  /\ LET list == After(reader[c].seen) IN
       reader' = [reader EXCEPT ![c] =
         IF list # <<>> /\ IsTerminal(Last(list))
         THEN [Deliver(c, list) EXCEPT !.at = "nowhere", !.phase = "done", !.queue = <<>>]
         ELSE [Deliver(c, list) EXCEPT !.phase = "wait"]]
  /\ UNCHANGED <<runVars, storeVars, pump, wire, jobs>>

IsNewMut(c, n) == TRUE
IsNew(c, n) == n > reader[c].seen

FromBroker(c) ==
  /\ reader[c].phase = "wait" /\ reader[c].queue # <<>>
  /\ LET n    == Head(reader[c].queue)
         list == IF IsNew(c, n) THEN <<n>> ELSE <<>>
     IN
     reader' = [reader EXCEPT ![c] =
       IF list # <<>> /\ IsTerminal(n)
       THEN [Deliver(c, list) EXCEPT !.at = "nowhere", !.phase = "done", !.queue = <<>>]
       ELSE [Deliver(c, list) EXCEPT !.phase = "list", !.queue = Tail(@)]]
  /\ UNCHANGED <<runVars, storeVars, pump, wire, jobs>>

PollMut(c) ==   \* waits for the broker for ever
  /\ reader[c].phase = "wait" /\ reader[c].queue = <<>>
  /\ UNCHANGED vars

Poll(c) ==
  /\ reader[c].phase = "wait" /\ reader[c].queue = <<>>
  /\ reader' = [reader EXCEPT ![c].phase = "list"]
  /\ UNCHANGED <<runVars, storeVars, pump, wire, jobs>>

Disconnect(c) ==
  /\ reader[c].phase \in {"list", "wait"}
  /\ reader' = [reader EXCEPT ![c] = Nowhere(c)]
  /\ UNCHANGED <<runVars, storeVars, pump, wire, jobs>>

-----------------------------------------------------------------------------
GatewayStep == Send \/ Resend \/ PumpFails

HandlerStep(p) ==
  \/ /\ Cardinality(jobs) < MaxHandlers
     /\ (\E q \in wire : Ingest(q, p)) \/ InternalTool(p) \/ EndRun(p)
  \/ ProcessDies(p)

AnswerStep == \E j \in jobs : Publish(j) \/ \E arrives \in BOOLEAN : Answer(j, arrives)

StreamStep(c) == ListAfter(c) \/ FromBroker(c) \/ Poll(c)

Next ==
  \/ GatewayStep \/ Requeue \/ ClaimAgain \/ AnswerStep
  \/ \E p \in Processes : HandlerStep(p)
  \/ \E c \in Readers : StreamStep(c) \/ Disconnect(c) \/ \E p \in Processes : Connect(c, p)

Spec == Init /\ [][Next]_vars

(***************************************************************************)
(* Fairness: the generator of a connected client goes on; nothing is asked *)
(* of the Gateway, the handlers or the client.                             *)
(***************************************************************************)
LiveSpec == Spec /\ \A c \in Readers : WF_vars(StreamStep(c))

-----------------------------------------------------------------------------
TypeOK ==
  /\ status \in {"running", "queued", "ended"} /\ attempt \in Attempts
  /\ \A i \in DOMAIN events : events[i].kind \in {"text", "answer", "artifact", "terminal"}
  /\ usage \subseteq [attempt : Attempts, number : Nat \ {0}]
  /\ pump \in [acked : Nat, last : Nat, tries : 0..MaxTries, alive : BOOLEAN]
  /\ pump.acked <= pump.last /\ pump.last <= Len(script.says[attempt])
  /\ \A q \in wire : q.attempt \in Attempts /\ q.first <= q.last /\ q.try \in 0..MaxTries
  /\ \A c \in Readers : reader[c].phase \in {"off", "list", "wait", "done"}

(***************************************************************************)
(* Whatever is repeated, lost or late: of every attempt the first events   *)
(* are stored, each once, over both tables and in the worker's order, and  *)
(* nothing that the Gateway took as acknowledged is missing.               *)
(***************************************************************************)
RowsOf(a) == {i \in DOMAIN events : events[i].attempt = a}

SourceExactlyOnce ==
  \A a \in Attempts :
    /\ \A n \in StoredOf(a) : 1..n \subseteq StoredOf(a)
    /\ \A i, j \in RowsOf(a) : i < j => events[i].number < events[j].number
    /\ \A i \in RowsOf(a) : events[i].kind = script.says[a][events[i].number]
    /\ \A i \in RowsOf(a), u \in usage : Source(events[i]) # u
    /\ a = attempt => 1..pump.acked \subseteq StoredOf(a)

(***************************************************************************)
(* Plan B, line 734: the terminal event is the last one of the run.        *)
(***************************************************************************)
TerminalIsLast ==
  \A i \in DOMAIN events : events[i].kind = "terminal" => i = Len(events) /\ status = "ended"

(***************************************************************************)
(* A run has one answer, and its message ends with every text of the       *)
(* attempt that gave it, once and in order, after what lost attempts said. *)
(***************************************************************************)
AnswerHasItsText ==
  /\ \A i, j \in DOMAIN events : events[i].kind = "answer" /\ events[j].kind = "answer" => i = j
  /\ (message # NoMessage) = (\E i \in DOMAIN events : events[i].kind = "answer")
  /\ \A i \in DOMAIN events : events[i].kind = "answer" =>
       LET a == events[i].attempt IN
       \E n \in 0..Len(message) :
         /\ \A k \in 1..n : message[k].attempt # a
         /\ SubSeq(message, n + 1, Len(message)) = FinalText(a)

(***************************************************************************)
(* The stored story of the run: one answer with its text, and then the end.*)
(***************************************************************************)
StoryIsWhole == TerminalIsLast /\ AnswerHasItsText

(***************************************************************************)
(* A reader never gets an event twice or after a later one, however often  *)
(* it reconnects, and to whichever process.                                *)
(***************************************************************************)
ReadersInOrder ==
  \A c \in Readers : \A i \in 2..Len(reader[c].got) : reader[c].got[i - 1] < reader[c].got[i]

(***************************************************************************)
(* A reader that stays connected learns that the run has ended, wherever   *)
(* and by whomever it was ended, and even if the publisher died.           *)
(***************************************************************************)
EndReachesReaders ==
  \A c \in Readers :
    (status = "ended" /\ reader[c].phase # "off") ~> reader[c].phase \in {"done", "off"}

(***************************************************************************)
(* events.py, line 159, calls the broker a wake-up signal and not a store: *)
(* what a reader gets is what the rows say, without holes.                 *)
(***************************************************************************)
NothingMissed ==
  \A c \in Readers : Len(reader[c].got) = reader[c].seen
=============================================================================
