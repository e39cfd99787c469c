-------------------------- MODULE AbstractChannel --------------------------
(* What a channel of mpsc promises: messages come out once each, in the      *)
(* order they went in; a receive reports disconnection only when every       *)
(* sender is gone and nothing is left; sends fail once the receiver is gone. *)
EXTENDS Naturals, Sequences

CONSTANTS Handles,      \* the sender handles
          Messages

VARIABLES buffer,   \* sent and not yet received
          open,     \* the handles that are alive
          closed,   \* the receiver is dropped
          asking,   \* the receiver is in a receive that has no deadline
          got       \* answers of the receiver, in order

vars == <<buffer, open, closed, asking, got>>

Init == /\ buffer = <<>> /\ open \in SUBSET Handles /\ closed = FALSE
        /\ asking = FALSE /\ got = <<>>

Send == /\ \E m \in Messages : buffer' = Append(buffer, m)
        /\ open # {} /\ ~closed
        /\ UNCHANGED <<open, closed, asking, got>>

Clone == /\ \E h \in Handles \ open : open' = open \cup {h}
         /\ open # {}
         /\ UNCHANGED <<buffer, closed, asking, got>>

DropSender == /\ \E h \in open : open' = open \ {h}
              /\ UNCHANGED <<buffer, closed, asking, got>>

DropReceiver == /\ closed' = TRUE /\ ~closed /\ ~asking
                /\ UNCHANGED <<buffer, open, asking, got>>

Ask == ~asking /\ asking' = TRUE /\ UNCHANGED <<buffer, open, closed, got>>

\* Empty, Timeout, or a dropped future: the receive ends without an answer.
GiveUp == asking' = FALSE /\ asking /\ UNCHANGED <<buffer, open, closed, got>>

Receive == /\ asking /\ buffer # <<>>
           /\ got' = Append(got, Head(buffer)) /\ buffer' = Tail(buffer)
           /\ asking' = FALSE
           /\ UNCHANGED <<open, closed>>

Disconnected == /\ asking /\ buffer = <<>> /\ open = {}
                /\ asking' = FALSE
                /\ UNCHANGED <<buffer, open, closed, got>>

Next == \/ Send \/ Clone \/ DropSender \/ DropReceiver
        \/ Ask \/ GiveUp \/ Receive \/ Disconnected

SafeSpec == Init /\ [][Next]_vars

\* A receive that can be answered is.
ChannelSpec == SafeSpec /\ WF_vars(Receive \/ Disconnected)
=============================================================================
