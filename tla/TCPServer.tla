---------------------------- MODULE TCPServer ----------------------------
(***************************************************************************)
(* One server of the process: the select loop of TCPserver::runNonBlock,   *)
(* its vector of connections, and the queue of buffers each connection     *)
(* handler has to send.  A round of the loop accepts at most one client,   *)
(* then walks the vector and reads from, and writes to, the connections    *)
(* select reported; a connection that ends is erased from the vector while *)
(* the walk goes on.                                                       *)
(*                                                                         *)
(* The client sockets are blocking (setBlocking(s, false) clears           *)
(* O_NONBLOCK), so send() returns when it has placed everything or when    *)
(* the client is gone: while it waits, the whole server does.              *)
(***************************************************************************)
EXTENDS Integers, SequencesExt, FiniteSetsExt

CONSTANTS
  Clients,         \* those who may connect, once each
  MaxConnections,  \* TCPserver::maxConnections
  Packet,          \* connectionHandler::maxPacketSize
  Window,          \* how many bytes a client's socket holds before it reads
  MaxChunks,       \* bound: what a client sends at most
  Asks             \* Asks[c]: what client c may send, and how it may leave

Leavings == {"eof", "error"}
Chunks   == {"part", "page", "file", "wait", "bye"}

ASSUME ServerAssumption ==
  /\ IsFiniteSet(Clients)
  /\ MaxConnections \in Nat \ {0} /\ Packet \in Nat \ {0}
  /\ Window \in Nat \ {0} /\ MaxChunks \in Nat
  /\ Asks \in [Clients -> SUBSET (Chunks \cup Leavings)]

VARIABLES
  peer,       \* each client: is it "away", "here" or has it "left"
  inbox,      \* what a client sent and recv() has not returned yet
  count,      \* the number of chunks a client has sent
  room,       \* free space in the client's socket
  delivered,  \* the bytes a client has been sent
  backlog,    \* the clients that wait to be accepted
  conns,      \* the vector of connections
  handler,    \* the connection handlers: their queue and their flags
  loop        \* how far the server is in a round

outside == <<peer, inbox, count, room>>
vars    == <<outside, delivered, backlog, conns, handler, loop>>

Now(at) == [at |-> at, i |-> 1, reads |-> {}, writes |-> {}, todo |-> {}]
Buffer(kind, first, size) ==
  [kind |-> kind, first |-> first, size |-> size, pos |-> 0,
   ready |-> kind # "notify"]
NoHandler ==
  [queue |-> <<>>, written |-> 0, closing |-> FALSE, deaf |-> FALSE,
   end |-> "none", left |-> 0, from |-> 0]

-----------------------------------------------------------------------------
(* The clients, and the event a waiting page waits for.                    *)
Connect(c) ==
  /\ peer[c] = "away"
  /\ peer' = [peer EXCEPT ![c] = "here"]
  /\ backlog' = Append(backlog, c)
  /\ UNCHANGED <<inbox, count, room, delivered, conns, handler, loop>>

Send(c, what) ==
  /\ peer[c] = "here" /\ count[c] < MaxChunks
  /\ count' = [count EXCEPT ![c] = @ + 1]
  /\ inbox' = [inbox EXCEPT ![c] = Append(@, what)]
  /\ UNCHANGED <<peer, room, delivered, backlog, conns, handler, loop>>

(* A client that closes its end ("eof"), or that breaks off ("error").     *)
Leave(c, how) ==
  /\ peer[c] = "here"
  /\ peer' = [peer EXCEPT ![c] = "left"]
  /\ inbox' = [inbox EXCEPT ![c] = IF how = "eof" THEN Append(@, how) ELSE <<how>>]
  /\ UNCHANGED <<count, room, delivered, backlog, conns, handler, loop>>

Receive(c) ==
  /\ peer[c] = "here" /\ room[c] < Window
  /\ room' = [room EXCEPT ![c] = Window]
  /\ UNCHANGED <<peer, inbox, count, delivered, backlog, conns, handler, loop>>

Event(c) ==
  /\ handler[c].queue # <<>> /\ ~Head(handler[c].queue).ready
  /\ handler' = [handler EXCEPT ![c].queue[1].ready = TRUE]
  /\ UNCHANGED <<outside, delivered, backlog, conns, loop>>

-----------------------------------------------------------------------------
(* The handler's write queue.                                              *)
Bytes(b) == b.size - b.pos
Quantum(b) == IF b.kind = "file" THEN Min({Bytes(b), Packet}) ELSE Bytes(b)
Eof(b) == b.kind = "notify" \/ b.pos >= b.size
NeedsWrite(h) == h.queue # <<>> /\ Head(h.queue).ready
CanClose(h) == h.closing /\ h.queue = <<>>

Queued(h, kind, size) ==
  [h EXCEPT !.queue = Append(@, Buffer(kind, h.written + 1, size)),
            !.written = @ + size]
LastWrite(h) == [h EXCEPT !.closing = TRUE]
Answer(h, what) ==
  CASE what = "part" -> h
    [] what = "page" -> LastWrite(Queued(Queued(h, "mem", 1), "mem", 1))
    [] what = "file" -> LastWrite(Queued(Queued(h, "mem", 1), "file", Packet + 1))
    [] what = "wait" -> [LastWrite(Queued(h, "notify", Packet)) EXCEPT !.deaf = TRUE]

(* After send() returned k of the n bytes it was given.  A file was read,  *)
(* and its position moved, before the send.                                *)
SentOnce(h, n, k) ==                         \* mutant: one packet of a file only
  [h EXCEPT !.left = 0, !.from = 0, !.queue = Tail(@)]
SentAgain(h, n, k) ==                        \* mutant: a failed send is tried again
  LET moved == [Head(h.queue) EXCEPT !.pos = @ + Max({k, 0})]
  IN [h EXCEPT !.left = 0, !.from = 0,
               !.queue = IF k > 0 /\ Eof(moved) THEN Tail(@) ELSE <<moved>> \o Tail(@)]

Sent(h, n, k) ==
  LET b == Head(h.queue)
      moved == [b EXCEPT !.pos = IF b.kind = "file" THEN @ + n ELSE @ + Max({k, 0})]
  IN [h EXCEPT !.left = 0, !.from = 0,
               !.queue = IF (n > 0 /\ k <= 0) \/ Eof(moved) THEN Tail(@)
                         ELSE <<moved>> \o Tail(@)]

-----------------------------------------------------------------------------
(* The loop.                                                               *)
Readable(c) == inbox[c] # <<>> /\ ~handler[c].deaf
Writable(c) == NeedsWrite(handler[c]) /\ (room[c] > 0 \/ peer[c] = "left")
Reads  == {c \in ToSet(conns) : Readable(c)}
Writes == {c \in ToSet(conns) : Writable(c)}

Select ==
  /\ loop.at = "select"
  /\ Reads \cup Writes # {} \/ backlog # <<>>
  /\ loop' = [at |-> IF backlog # <<>> THEN "accept" ELSE "walk", i |-> 1,
              reads |-> Reads, writes |-> Writes, todo |-> Reads \cup Writes]
  /\ UNCHANGED <<outside, delivered, backlog, conns, handler>>

Accept ==
  /\ loop.at = "accept"
  /\ LET c == Head(backlog)
     IN /\ backlog' = Tail(backlog)
        /\ loop' = [loop EXCEPT !.at = "walk"]
        /\ IF Len(conns) < MaxConnections
           THEN /\ conns' = Append(conns, c)
                /\ handler' = [handler EXCEPT ![c].end = "open"]
           ELSE /\ handler' = [handler EXCEPT ![c].end = "cut"]
                /\ UNCHANGED conns
  /\ UNCHANGED <<outside, delivered>>

(* The walk goes over the vector from loop.i on, and passes the            *)
(* connections select did not report.                                      *)
Ahead == {i \in loop.i .. Len(conns) : conns[i] \in loop.reads \cup loop.writes}
Walking(at) == loop.at = at /\ Ahead # {}
Current == conns[Min(Ahead)]

Served(c, set) == [loop EXCEPT !.todo = @ \ {c}, ![set] = @ \ {c}]

(* Erase the current connection: the next one takes its place in the       *)
(* vector, so the walk's index stays.                                      *)
EraseSteps(c, how) ==                        \* mutant: no conn--
  /\ conns' = RemoveAt(conns, Min(Ahead))
  /\ handler' = [handler EXCEPT ![c] =
                  [NoHandler EXCEPT !.written = handler[c].written, !.end = how]]
  /\ loop' = [at |-> "walk", i |-> Min(Ahead) + 1, reads |-> loop.reads \ {c},
              writes |-> loop.writes \ {c}, todo |-> loop.todo \ {c}]

Erase(c, how) ==
  /\ conns' = RemoveAt(conns, Min(Ahead))
  /\ handler' = [handler EXCEPT ![c] =
                  [NoHandler EXCEPT !.written = handler[c].written, !.end = how]]
  /\ loop' = [at |-> "walk", i |-> Min(Ahead), reads |-> loop.reads \ {c},
              writes |-> loop.writes \ {c}, todo |-> loop.todo \ {c}]

Recv == Head(inbox[Current])

ReadChunk ==
  /\ Walking("walk") /\ Current \in loop.reads
  /\ Recv \in {"part", "page", "file", "wait"}
  /\ inbox' = [inbox EXCEPT ![Current] = Tail(@)]
  /\ handler' = [handler EXCEPT ![Current] = Answer(@, Recv)]
  /\ loop' = Served(Current, "reads")
  /\ UNCHANGED <<peer, count, room, delivered, backlog, conns>>

(* The client closed its end, or its handler wants no more.                *)
ReadEnds ==
  /\ Walking("walk") /\ Current \in loop.reads
  /\ Recv \in {"eof", "bye"}
  /\ inbox' = [inbox EXCEPT ![Current] = Tail(@)]
  /\ Erase(Current, IF Recv = "eof" THEN "closed" ELSE "cut")
  /\ UNCHANGED <<peer, count, room, delivered, backlog>>

(* recv() failed: the handler is deleted and the connection erased, but    *)
(* the descriptor is not closed.                                           *)
ReadFails ==
  /\ Walking("walk") /\ Current \in loop.reads
  /\ Recv = "error"
  /\ inbox' = [inbox EXCEPT ![Current] = Tail(@)]
  /\ Erase(Current, "closed")
  /\ UNCHANGED <<peer, count, room, delivered, backlog>>

WriteStarts ==
  /\ Walking("walk") /\ Current \notin loop.reads
  /\ Current \in loop.writes
  /\ LET b == Head(handler[Current].queue)
     IN handler' = [handler EXCEPT ![Current].left = Quantum(b),
                                   ![Current].from = b.first + b.pos]
  /\ loop' = [loop EXCEPT !.at = "send"]
  /\ UNCHANGED <<outside, delivered, backlog, conns>>

(* Inside send(): one more byte finds room at the client.                  *)
SendByte ==
  /\ Walking("send") /\ peer[Current] = "here"
  /\ LET c == Current
         h == handler[c]
     IN /\ h.left > 0 /\ room[c] > 0
        /\ room' = [room EXCEPT ![c] = @ - 1]
        /\ delivered' = [delivered EXCEPT ![c] = Append(@, h.from)]
        /\ handler' = [handler EXCEPT ![c].left = @ - 1, ![c].from = @ + 1]
  /\ UNCHANGED <<peer, inbox, count, backlog, conns, loop>>

(* send() returns: with everything, or, the client being gone, with what   *)
(* it had placed, or -1 when that is nothing.                              *)
WriteEnds ==
  /\ Walking("send")
  /\ LET c == Current
         h == handler[c]
         n == Quantum(Head(h.queue))
         k == n - h.left
         after == Sent(h, n, IF h.left > 0 /\ k = 0 THEN -1 ELSE k)
     IN /\ h.left = 0 \/ peer[c] = "left"
        /\ IF CanClose(after)
           THEN Erase(c, "closed")
           ELSE /\ handler' = [handler EXCEPT ![c] = after]
                /\ loop' = [Served(c, "writes") EXCEPT !.at = "walk"]
                /\ UNCHANGED conns
  /\ UNCHANGED <<outside, delivered, backlog>>

RoundEnds ==
  /\ loop.at = "walk" /\ Ahead = {}
  /\ loop' = Now("select")
  /\ UNCHANGED <<outside, delivered, backlog, conns, handler>>

Loop ==
  \/ Select \/ Accept \/ ReadChunk \/ ReadEnds \/ ReadFails
  \/ WriteStarts \/ SendByte \/ WriteEnds \/ RoundEnds

Init ==
  /\ peer = [c \in Clients |-> "away"]
  /\ inbox = [c \in Clients |-> <<>>]
  /\ count = [c \in Clients |-> 0]
  /\ room = [c \in Clients |-> Window]
  /\ delivered = [c \in Clients |-> <<>>]
  /\ backlog = <<>> /\ conns = <<>>
  /\ handler = [c \in Clients |-> NoHandler]
  /\ loop = Now("select")

World ==
  \E c \in Clients :
       \/ Connect(c) \/ Receive(c) \/ Event(c)
       \/ \E what \in Asks[c] \cap Chunks : Send(c, what)
       \/ \E how \in Asks[c] \cap Leavings : Leave(c, how)

Next == Loop \/ World

(* The server's thread runs; a client that stays reads what it is sent,    *)
(* and a player changes now and then.                                      *)
Fairness ==
  /\ WF_vars(Loop)
  /\ \A c \in Clients : WF_vars(Receive(c)) /\ WF_vars(Event(c))

Spec == Init /\ [][Next]_vars
FairSpec == Spec /\ Fairness

-----------------------------------------------------------------------------
(* Each variable in its range: the numbers and the queues.                 *)
Buffers ==
  [kind : {"mem", "file", "notify"}, first : Nat, size : Nat, pos : Int, ready : BOOLEAN]

Handlers ==
  [queue : Seq(Buffers), written : Nat, closing : BOOLEAN, deaf : BOOLEAN,
   end : {"none", "open", "closed", "cut"}, left : Int, from : Int]

TypeOK ==
  /\ peer \in [Clients -> {"away", "here", "left"}]
  /\ inbox \in [Clients -> Seq(Chunks \cup Leavings)]
  /\ count \in [Clients -> Nat]
  /\ room \in [Clients -> 0 .. Window]
  /\ delivered \in [Clients -> Seq(Nat)]
  /\ backlog \in Seq(Clients)
  /\ conns \in Seq(Clients) /\ Len(conns) <= MaxConnections
  /\ handler \in [Clients -> Handlers]
  /\ loop \in [at : {"select", "accept", "walk", "send"}, i : Nat \ {0},
               reads : SUBSET Clients, writes : SUBSET Clients, todo : SUBSET Clients]

(* The walk over the vector misses nobody: when a round is over, every     *)
(* connection select reported has been read from or written to, or is      *)
(* gone - connections being erased, and added, on the way.                 *)
RoundServesAll == [][RoundEnds => loop.todo \cap ToSet(conns) = {}]_vars

(* The server's clients as ByteStream sees them.                            *)
StateOf(c) ==
  CASE handler[c].end = "none" -> IF peer[c] = "left" THEN "left" ELSE "absent"
    [] handler[c].end = "open" -> IF peer[c] = "left" THEN "left" ELSE "open"
    [] OTHER -> handler[c].end
InOrder(c)  == delivered[c] = [k \in 1 .. Len(delivered[c]) |-> k]
Received(c) == IF InOrder(c) THEN Len(delivered[c]) ELSE -1

(* What a client has been sent are the bytes its handler wrote, in order   *)
(* and each once, through all the buffers; and a client that stays is not  *)
(* closed before it has all of them (ByteStream), however it reads.        *)
Stream == INSTANCE ByteStream WITH
  Sizes <- 1 .. Packet + 2,
  state <- [c \in Clients |-> StateOf(c)],
  written <- [c \in Clients |-> handler[c].written],
  received <- [c \in Clients |-> Received(c)]
StreamSpec == Stream!Spec

(* Whoever asked for something gets its slot back to the others: its       *)
(* connection ends, after its answer or because it left, provided that     *)
(* clients read what they are sent.                                        *)
SlotsComeBack ==
  \A c \in Clients : (handler[c].end = "open" /\ handler[c].closing)
                       ~> (handler[c].end # "open")
=============================================================================
