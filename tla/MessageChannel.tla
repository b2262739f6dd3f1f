--------------------------- MODULE MessageChannel ---------------------------
(***************************************************************************)
(* What a session promises its two applications: in each direction, every  *)
(* message that is submitted is received whole, exactly once and in order. *)
(***************************************************************************)
EXTENDS Naturals, Sequences

CONSTANTS
    Ends,        \* the two ends of the channel
    Far(_),      \* the end opposite to an end
    Messages,    \* what may be submitted
    Contents(_)  \* the payload of a message

VARIABLES
    submitted,   \* messages submitted at each end, in order
    received     \* payloads received at each end, in order

vars == <<submitted, received>>

Init ==
    /\ submitted = [e \in Ends |-> << >>]
    /\ received = [e \in Ends |-> << >>]

Submit(e, m) ==
    /\ submitted' = [submitted EXCEPT ![e] = Append(@, m)]
    /\ UNCHANGED received

Receive(e) ==
    /\ Len(received[e]) < Len(submitted[Far(e)])
    /\ received' = [received EXCEPT ![e] =
                      Append(@, Contents(submitted[Far(e)][Len(@) + 1]))]
    /\ UNCHANGED submitted

Next == \E e \in Ends : (\E m \in Messages : Submit(e, m)) \/ Receive(e)

Spec == Init /\ [][Next]_vars /\ \A e \in Ends : WF_vars(Receive(e))

=============================================================================
