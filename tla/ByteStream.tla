---------------------------- MODULE ByteStream ----------------------------
(***************************************************************************)
(* What a server promises to each of its clients, whatever its loop does:  *)
(* the client receives the bytes its handler wrote, each once and in the   *)
(* order they were written, and a client that stays is not closed on       *)
(* before it has all of them, unless the server cuts it off.               *)
(* TCPServer implements this.                                              *)
(***************************************************************************)
EXTENDS Naturals

CONSTANT Clients

VARIABLES
  state,     \* "absent", "open", "left" (by the client), "cut", "closed"
  written,   \* the number of bytes the handler has written
  received   \* the number of bytes the client has got: the first ones

streams == <<state, written, received>>

TypeOK ==
  /\ state \in [Clients -> {"absent", "open", "left", "cut", "closed"}]
  /\ written \in [Clients -> Nat]
  /\ received \in [Clients -> Nat]

Init ==
  /\ state = [c \in Clients |-> "absent"]
  /\ written = [c \in Clients |-> 0]
  /\ received = [c \in Clients |-> 0]

Become(c, from, to) ==
  /\ state[c] \in from
  /\ state' = [state EXCEPT ![c] = to]
  /\ UNCHANGED <<written, received>>

Open(c)   == Become(c, {"absent"}, "open")
Leave(c)  == Become(c, {"absent", "open"}, "left")
Cut(c)    == Become(c, {"absent", "open", "left"}, "cut")

Finish(c) ==
  /\ state[c] = "open" => received[c] = written[c]
  /\ Become(c, {"open", "left"}, "closed")

Write(c, n) ==
  /\ state[c] \in {"open", "left"}
  /\ written' = [written EXCEPT ![c] = @ + n]
  /\ UNCHANGED <<state, received>>

Deliver(c, n) ==
  /\ state[c] = "open"
  /\ received[c] + n <= written[c]
  /\ received' = [received EXCEPT ![c] = @ + n]
  /\ UNCHANGED <<state, written>>

CONSTANT Sizes   \* how much is written or delivered at a time

Next ==
  \E c \in Clients :
     \/ Open(c) \/ Leave(c) \/ Cut(c) \/ Finish(c)
     \/ \E n \in Sizes : Write(c, n) \/ Deliver(c, n)

Spec == Init /\ [][Next]_streams
=============================================================================
