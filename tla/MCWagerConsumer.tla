-------------------------- MODULE MCWagerConsumer --------------------------
(***************************************************************************)
(* Instances of WagerConsumer for TLC.  A run looks at several sets of     *)
(* messages: it chooses at the start which of them may be sent.            *)
(***************************************************************************)
EXTENDS WagerConsumer, TLC

CONSTANTS Traffics,   \* sets of messages
          p1, p2, p3, m1, m2, m3, m4, m5

VARIABLE traffic

MCInit == Init /\ traffic \in Traffics

MCNext == Next /\ Sent' \subseteq traffic /\ UNCHANGED traffic

MCFairSpec == MCInit /\ [][MCNext]_<<vars, traffic>> /\ Fairness

-----------------------------------------------------------------------------
\* A valid message of provider acme on wallet w, in the group of w.
Valid(id, w) ==
  [msg |-> id, body |-> id, provider |-> "acme", key |-> id, ext |-> id,
   group |-> w, wallet |-> w, sender |-> "AROA", valid |-> TRUE]

Senders == [s \in {"AROA", "mallory"} |-> IF s = "AROA" THEN "acme" ELSE Nil]

\* Two operations of a wallet, and a third that is sent to the group of another one;
\* another body under the identifier of the first, and a message from a sender nobody
\* knows, in the same group.
SentMessages ==
  m1 :> Valid("i1", "w1")
  @@ m2 :> Valid("i2", "w1")
  @@ m3 :> [Valid("i3", "w1") EXCEPT !.group = "w2"]
  @@ m4 :> [Valid("i1", "w1") EXCEPT !.body = "other", !.key = "i4", !.ext = "i4"]
  @@ m5 :> [Valid("i5", "w1") EXCEPT !.sender = "mallory"]

\* The first message and one of the others.
Pairs == {{m1, m} : m \in Messages \ {m1}}

Contents == [m \in Messages |-> Message[m].ext]

\* The third instance has a timeout beyond the visibility timeout, and does not start.
Timeouts == p1 :> 1 @@ p2 :> 1 @@ p3 :> 4

Delays == <<1, 2, 4>>
=============================================================================
