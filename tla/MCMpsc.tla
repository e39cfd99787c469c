------------------------------- MODULE MCMpsc -------------------------------
(* The channel's refinement of AbstractChannel and the instances TLC checks:  *)
(* actors that are threads, as the cfg says, or the same actors as tasks       *)
(* whose futures may be dropped; `part` names the instance.                    *)
EXTENDS Mpsc, TLC

CONSTANTS w1, w2
VARIABLE part

A == INSTANCE Mpsc WITH Threads <- {}, Tasks <- Threads, CanPark <- {},
                        Waits <- {w1, w2}, MaxSends <- 1

partVars == <<part, vars>>
PartInit == \/ part = "threads" /\ Init
            \/ part = "tasks" /\ A!Init
PartNext == /\ \/ part = "threads" /\ Next
               \/ part = "tasks" /\ A!Next
            /\ UNCHANGED part

\* The host runs every actor that can step, and the queue lock goes to
\* somebody.  Nothing is assumed of sends, receives, clones and drops.
FairSpec ==
    /\ PartInit /\ [][PartNext]_partVars
    /\ WF_vars(part = "threads" /\ Locking)
    /\ WF_vars(part = "threads" /\ Waiting)
    /\ WF_vars(part = "threads" /\ (Test \/ TimedOut))
    /\ \A a \in Actors : WF_vars(part = "threads" /\ (Notifies(a) \/ Notified(a)))
    /\ WF_vars(part = "tasks" /\ A!Locking)
    /\ WF_vars(part = "tasks" /\ A!Waiting)
    /\ WF_vars(part = "tasks" /\ (A!Test \/ A!TimedOut))
    /\ \A a \in Actors : WF_vars(part = "tasks" /\ (A!Notifies(a) \/ A!Notified(a)))

Asking == pc[Rx] \in {"try", "enter"} \cup WaitPCs
          \/ (pc[Rx] \in NotifyPCs /\ gaveUp[Rx])
Abstract == INSTANCE AbstractChannel WITH
    Handles <- Senders, buffer <- queue, open <- alive,
    closed <- ~receiver_active, asking <- Asking

\* The channel delivers as AbstractChannel does, in the order of the pushes, and
\* answers every receive that it can answer.
ImplementsChannel == Abstract!ChannelSpec
=============================================================================
