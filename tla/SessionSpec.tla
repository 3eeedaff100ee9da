----------------------------- MODULE SessionSpec -----------------------------
(***************************************************************************)
(* What the proxy promises to the two ends of a session, whatever          *)
(* descriptors, messages and queues it takes to keep it.                   *)
(*                                                                         *)
(* An end is "absent", then "dialing" (the server only, while it is being  *)
(* connected to), "inside" while the proxy holds a connection to it, and   *)
(* "gone" for good.  The proxy works for one end at a time: it takes what  *)
(* that end has sent, delivers what it took from the other end of the same *)
(* session, and may let the end go.                                        *)
(***************************************************************************)
EXTENDS Integers, Sequences

CONSTANT Sessions

VARIABLES
    stage,  \* of every end
    left,   \* the far end has shut its connection down
    sent,   \* how many units an end has sent
    taken,  \* how many of them the proxy has taken
    got     \* the units that were delivered to an end, with their senders

vars == <<stage, left, sent, taken, got>>

Client(k) == [side |-> "client", id |-> k]
Server(k) == [side |-> "server", id |-> k]
End == [side : {"client", "server"}, id : Sessions]
Opposite(e) == IF e.side = "client" THEN Server(e.id) ELSE Client(e.id)

Init ==
    /\ stage = [e \in End |-> "absent"]
    /\ left = [e \in End |-> FALSE]
    /\ sent = [e \in End |-> 0]
    /\ taken = [e \in End |-> 0]
    /\ got = [e \in End |-> <<>>]

-----------------------------------------------------------------------------
FarSends(e) ==
    /\ ~left[e]
    /\ sent' = [sent EXCEPT ![e] = @ + 1]
    /\ UNCHANGED <<stage, left, taken, got>>

FarLeaves(e) ==
    /\ left' = [left EXCEPT ![e] = TRUE]
    /\ UNCHANGED <<stage, sent, taken, got>>

\* A client is let in, once.
Admit(k) ==
    /\ stage[Client(k)] = "absent"
    /\ UNCHANGED <<left, sent, taken, got>>
    /\ stage' = [stage EXCEPT ![Client(k)] = "inside"]

\* The server is called once, for a client that was let in; the call may fail at once.
Dial(k) ==
    /\ stage[Client(k)] # "absent"
    /\ stage[Server(k)] = "absent"
    /\ UNCHANGED <<left, sent, taken, got>>
    /\ \E s \in {"dialing", "inside", "gone"} : stage' = [stage EXCEPT ![Server(k)] = s]

\* An end is let go when it has left itself, when the other end of its own session is gone,
\* or when the call to it does not get through: never for what happens to another session.
MayGo(e) == left[e] \/ stage[Opposite(e)] = "gone" \/ stage[e] = "dialing"

\* Nothing is taken from an end before the other one has been reached.
Takes(e) ==
    /\ taken[e] < taken'[e] /\ taken'[e] <= sent[e]
    /\ stage[Opposite(e)] \in {"inside", "gone"}
    /\ taken' = [taken EXCEPT ![e] = taken'[e]]

\* What is delivered was taken from the other end of the session, and comes in its order.
Delivers(e) ==
    LET n == Len(got[e])
        all == got'[e]
    IN
    /\ stage[e] = "inside"
    /\ n < Len(all) /\ SubSeq(all, 1, n) = got[e]
    /\ \A i \in n + 1 .. Len(all) :
         /\ all[i].from = Opposite(e)
         /\ all[i].n <= taken[Opposite(e)]
         /\ i > 1 => all[i - 1].n < all[i].n
    /\ got' = [got EXCEPT ![e] = all]

Serve(e) ==
    /\ stage[e] \in {"dialing", "inside"}
    /\ UNCHANGED <<left, sent>>
    /\ UNCHANGED taken \/ Takes(e)
    /\ UNCHANGED got \/ Delivers(e)
    /\ \E s \in {stage[e], "inside"} \cup (IF MayGo(e) THEN {"gone"} ELSE {}) :
         stage' = [stage EXCEPT ![e] = s]

\* A fatal error of a thread ends every session.
Fail ==
    /\ UNCHANGED <<left, sent, taken, got>>
    /\ stage' = [e \in End |-> IF stage[e] = "absent" THEN "absent" ELSE "gone"]

Next == \/ \E e \in End : FarSends(e) \/ FarLeaves(e) \/ Serve(e)
        \/ \E k \in Sessions : Admit(k) \/ Dial(k)
        \/ Fail

Spec == Init /\ [][Next]_vars

=============================================================================
