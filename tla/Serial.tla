------------------------------- MODULE Serial --------------------------------
(* How the host connects to a board (serialhdl.py): an attempt opens the port *)
(* and starts a greenlet that asks for the data dictionary piece by piece; a  *)
(* query is repeated when its answer does not come, and an attempt that takes *)
(* too long is given up and made again, whatever its greenlet is doing.  What *)
(* an earlier query or attempt asked for may still be answered later.         *)
(*                                                                            *)
(* The queue of serialqueue.c repeats queries until the board acknowledges    *)
(* them; answers are sent once and may be lost.                               *)
EXTENDS Naturals, Sequences

CONSTANTS
  Pieces,       \* the pieces of the dictionary, behind which there is an empty one
  Retries,      \* how often a query is repeated, 5 in the code
  MaxAttempts,  \* bound: attempts to connect
  MaxLost       \* bound: answers lost

VARIABLES
  port,         \* "closed", "open" while it is identified, "ready" or "failed"
  attempt,      \* attempts made; the greenlet of the last one is waited for
  greenlet,     \* where the greenlet of each attempt is, and what it has
  handlers,     \* the greenlet the handler of identify_response belongs to
  pending_notifications,  \* greenlets whose query is to be acknowledged
  queries, replies,       \* messages under way to the board, and to the host
  lost

serial_vars == <<port, attempt, greenlet, handlers, pending_notifications, queries, replies, lost>>

Greenlets == 1 .. MaxAttempts
NoAnswer == 0
New == [at |-> "none", data |-> <<>>, retries |-> 0, last_params |-> NoAnswer]
Answer(offset) == offset + 1         \* the piece at an offset, never NoAnswer

Set(g, at) == greenlet' = [greenlet EXCEPT ![g].at = at]

-----------------------------------------------------------------------------
(* connect and disconnect *)

\* The port opens: a thread takes the messages, and a greenlet identifies.
connect ==
  /\ port = "closed" /\ attempt < MaxAttempts
  /\ port' = "open" /\ attempt' = attempt + 1
  /\ greenlet' = [greenlet EXCEPT ![attempt + 1].at = "ask"]
  /\ UNCHANGED <<handlers, pending_notifications, queries, replies, lost>>

GiveUp ==
  /\ port = "closed" /\ attempt = MaxAttempts
  /\ port' = "failed"
  /\ UNCHANGED <<attempt, greenlet, handlers, pending_notifications, queries, replies, lost>>

Identified ==
  /\ port = "open" /\ greenlet[attempt].at = "done"
  /\ port' = "ready"
  /\ UNCHANGED <<attempt, greenlet, handlers, pending_notifications, queries, replies, lost>>

\* Mutant: those who wait for an acknowledgement are forgotten
CompleteNone == greenlet

\* Their queries raise, which ends them without data.
CompletePending ==
  [g \in Greenlets |-> IF g \in pending_notifications THEN [greenlet[g] EXCEPT !.at = "none"] ELSE greenlet[g]]

\* The queue of the next attempt knows of no query of this one: what the board
\* acknowledges of them is acknowledged to nobody.
Orphaned(messages) == [i \in DOMAIN messages |-> [messages[i] EXCEPT !.to = 0]]

\* The greenlet takes too long, or returns nothing.  What is under way to the
\* board is dropped; what the board has sent may be read by the next attempt.
disconnect ==
  /\ port = "open" /\ greenlet[attempt].at # "done"
  /\ port' = "closed"
  /\ greenlet' = CompletePending /\ pending_notifications' = {}
  /\ queries' = <<>>
  /\ \E keep \in BOOLEAN : replies' = IF keep THEN Orphaned(replies) ELSE <<>>
  /\ UNCHANGED <<attempt, handlers, lost>>

-----------------------------------------------------------------------------
(* _get_identify_data and SerialRetryCommand.get_response *)

\* A new SerialRetryCommand registers its handler.
Ask(g) ==
  /\ greenlet[g].at = "ask"
  /\ handlers' = g
  /\ greenlet' = [greenlet EXCEPT ![g].at = "send", ![g].retries = Retries, ![g].last_params = NoAnswer]
  /\ UNCHANGED <<port, attempt, pending_notifications, queries, replies, lost>>

\* raw_send_wait_ack
Send(g) ==
  /\ greenlet[g].at = "send" /\ port \in {"open", "ready"}
  /\ pending_notifications' = pending_notifications \cup {g}
  /\ queries' = Append(queries, [from |-> g, offset |-> Len(greenlet[g].data)])
  /\ Set(g, "ack")
  /\ UNCHANGED <<port, attempt, handlers, replies, lost>>

\* There is no queue to send to.
SendFails(g) ==
  /\ greenlet[g].at = "send" /\ port \notin {"open", "ready"}
  /\ Set(g, "dead")
  /\ UNCHANGED <<port, attempt, handlers, pending_notifications, queries, replies, lost>>

Answered(g) == greenlet[g].at = "look" /\ greenlet[g].last_params # NoAnswer

\* Mutant: whatever was answered is taken for the next piece
FitsAnyway(g) == TRUE
Fits(g) == greenlet[g].last_params = Answer(Len(greenlet[g].data))

\* The handler is deleted; the piece is taken if it is the one at the end, and
\* asked for again if not.  The empty piece ends the dictionary.
TakePiece(g) ==
  /\ Answered(g) /\ handlers # 0
  /\ handlers' = 0
  /\ greenlet' = [greenlet EXCEPT ![g] =
       IF ~Fits(g) THEN [@ EXCEPT !.at = "ask"]
       ELSE IF @.last_params = Answer(Pieces) THEN [@ EXCEPT !.at = "done"]
       ELSE [@ EXCEPT !.at = "ask", !.data = Append(greenlet[g].data, greenlet[g].last_params)]]
  /\ UNCHANGED <<port, attempt, pending_notifications, queries, replies, lost>>

\* Another greenlet has deleted the handler: KeyError
DeleteFails(g) ==
  /\ greenlet[g].at = "look" /\ handlers = 0
  /\ greenlet[g].last_params # NoAnswer \/ greenlet[g].retries = 0
  /\ Set(g, "dead")
  /\ UNCHANGED <<port, attempt, handlers, pending_notifications, queries, replies, lost>>

\* After the last retry it raises; the greenlet returns nothing.
NoResponse(g) ==
  /\ greenlet[g].at = "look" /\ ~Answered(g) /\ greenlet[g].retries = 0 /\ handlers # 0
  /\ handlers' = 0 /\ Set(g, "none")
  /\ UNCHANGED <<port, attempt, pending_notifications, queries, replies, lost>>

\* It pauses and sends the query again.
Retry(g) ==
  /\ greenlet[g].at = "look" /\ ~Answered(g) /\ greenlet[g].retries > 0
  /\ greenlet' = [greenlet EXCEPT ![g].at = "pause", ![g].retries = @ - 1]
  /\ UNCHANGED <<port, attempt, handlers, pending_notifications, queries, replies, lost>>

PauseEnds(g) ==
  /\ greenlet[g].at = "pause"
  /\ Set(g, "send")
  /\ UNCHANGED <<port, attempt, handlers, pending_notifications, queries, replies, lost>>

-----------------------------------------------------------------------------
(* The board, and the thread that takes its messages *)

\* The board answers and acknowledges; the answer may be lost.
BoardReplies ==
  /\ queries # <<>>
  /\ LET query == Head(queries)
         piece == [piece |-> Answer(query.offset), to |-> query.from]
         ack == [piece |-> NoAnswer, to |-> query.from]
     IN  \/ replies' = replies \o <<piece, ack>> /\ UNCHANGED lost
         \/ replies' = replies \o <<ack, piece>> /\ UNCHANGED lost
         \/ lost < MaxLost /\ lost' = lost + 1 /\ replies' = Append(replies, ack)
  /\ queries' = Tail(queries)
  /\ UNCHANGED <<port, attempt, greenlet, handlers, pending_notifications>>

_bg_thread ==
  /\ port \in {"open", "ready"} /\ replies # <<>>
  /\ replies' = Tail(replies)
  /\ LET message == Head(replies)
     IN  IF message.piece = NoAnswer
         THEN /\ pending_notifications' = pending_notifications \ {message.to}
              /\ greenlet' = IF message.to \in pending_notifications
                             THEN [greenlet EXCEPT ![message.to].at = "look"] ELSE greenlet
         ELSE /\ greenlet' = IF handlers = 0 THEN greenlet
                             ELSE [greenlet EXCEPT ![handlers].last_params = message.piece]
              /\ UNCHANGED pending_notifications
  /\ UNCHANGED <<port, attempt, handlers, queries, lost>>

-----------------------------------------------------------------------------
InitSerial ==
  /\ port = "closed" /\ attempt = 0 /\ lost = 0
  /\ greenlet = [g \in Greenlets |-> New]
  /\ handlers = 0 /\ pending_notifications = {} /\ queries = <<>> /\ replies = <<>>

Identify(g) ==
  Ask(g) \/ Send(g) \/ SendFails(g) \/ TakePiece(g) \/ DeleteFails(g) \/ NoResponse(g) \/ Retry(g) \/ PauseEnds(g)

NextSerial ==
  \/ connect \/ GiveUp \/ Identified \/ disconnect \/ BoardReplies \/ _bg_thread
  \/ \E g \in Greenlets : Identify(g)

-----------------------------------------------------------------------------
(* A connected host has the whole dictionary, each piece once and in order,  *)
(* although answers come late, twice, or for a query of an earlier attempt.  *)
IdentifyIsWhole == port = "ready" => greenlet[attempt].data = [i \in 1 .. Pieces |-> i]

(* Whoever waits for an acknowledgement will be told: its query or the       *)
(* acknowledgement is under way, also after the connection was given up.     *)
WaiterIsTold ==
  \A g \in Greenlets : greenlet[g].at = "ack" =>
    /\ g \in pending_notifications
    /\ \/ \E i \in DOMAIN queries : queries[i].from = g
       \/ \E i \in DOMAIN replies : replies[i].to = g /\ replies[i].piece = NoAnswer

=============================================================================
