------------------------------ MODULE ByteStream ------------------------------
(***************************************************************************)
(* What a pipe promises to those at its ends: a bounded stream.  What is   *)
(* put in at one end comes out at the other, once and in the same order,   *)
(* for as long as the pipe is open.                                        *)
(***************************************************************************)
EXTENDS Naturals, Sequences

CONSTANTS
  Pipes,
  Values,
  Capacity,
  AtBoot      \* the pipes there are from the beginning

VARIABLES
  open,       \* the pipes there are
  unread      \* what has been put in and not been taken out

vars == <<open, unread>>

Init ==
  /\ open = AtBoot
  /\ unread \in [Pipes -> UNION {[1 .. n -> Values] : n \in 0 .. Capacity}]
  /\ \A p \in Pipes \ open : unread[p] = <<>>

Open(p) ==
  /\ p \notin open
  /\ open' = open \cup {p}
  /\ UNCHANGED unread

PutIn(p) ==
  /\ p \in open
  /\ \E n \in 1 .. Capacity - Len(unread[p]) : \E s \in [1 .. n -> Values] :
       unread' = [unread EXCEPT ![p] = @ \o s]
  /\ UNCHANGED open

TakeOut(p) ==
  /\ p \in open
  /\ \E n \in 1 .. Len(unread[p]) :
       unread' = [unread EXCEPT ![p] = SubSeq(@, n + 1, Len(@))]
  /\ UNCHANGED open

\* Both ends are done with it; what nobody has read is lost.
Close(p) ==
  /\ p \in open
  /\ open' = open \ {p}
  /\ unread' = [unread EXCEPT ![p] = <<>>]

Next == \E p \in Pipes : Open(p) \/ PutIn(p) \/ TakeOut(p) \/ Close(p)

Spec == Init /\ [][Next]_vars
===============================================================================
