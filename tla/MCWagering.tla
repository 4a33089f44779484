----------------------------- MODULE MCWagering -----------------------------
(***************************************************************************)
(* Instances of Wagering for TLC.  A scenario is a set of executions,      *)
(* chosen so that they meet on the same keys, messages, wallets and        *)
(* references, and a number of faults.  A run looks at several: it chooses *)
(* one at the start, and the executions outside it do not take place.      *)
(***************************************************************************)
EXTENDS WagerHttp, TLC

CONSTANTS Scenarios,   \* the scenarios of a run: [who, faults]
          c1, c2, c3, c4, c5, c6, c7, c8, c9, c10, c11, c12, c13, c14, w1, w2, w3, w4, w5, r1, r2

VARIABLE scenario

MCInit == Init /\ scenario \in Scenarios

\* The scenario is over.
MCQuiescent ==
  /\ \A p \in scenario.who : stage[p] = Rest(p)
  /\ \A t \in Calls : wagers[t].status # "PENDING_REFERENCE"

MCNext ==
  /\ UNCHANGED scenario
  /\ \/ /\ Next
        /\ \A p \in Actors \ scenario.who : stage'[p] = stage[p]
        /\ faults' <= scenario.faults
     \/ MCQuiescent /\ UNCHANGED vars

MCSpec == MCInit /\ [][MCNext]_<<vars, scenario>>

MCFairSpec == MCSpec /\ Fairness

-----------------------------------------------------------------------------
\* A bet of 40 on wallet w1, over HTTP.
Bet == [sender |-> "acme", provider |-> "acme", ext |-> "bet", key |-> "k-bet",
        wallet |-> w1, player |-> "ann", currency |-> "BRL", round |-> "r", game |-> "g",
        kind |-> "BET", amount |-> 40, ref |-> Nil, wellFormed |-> TRUE,
        msg |-> Nil, body |-> Nil]

Over(q, msg, body) == [q EXCEPT !.msg = msg, !.body = body]

\* An operation that refers to the bet.
Follow(kind, name) == [Bet EXCEPT !.kind = kind, !.ext = name, !.key = name, !.ref = "bet"]

\* Another bet.
Other == [Bet EXCEPT !.ext = "bet2", !.key = "k-bet2"]

\* The same for the wallet that is opened meanwhile.
OnNew(q) == [q EXCEPT !.wallet = w3, !.player = "cid"]

Owner(player, balance) == [player |-> player, currency |-> "BRL", balance |-> balance]

\* Two wallets that exist, two openings of one player, of which one is empty, and one
\* that is not valid.
Wallets == w1 :> Owner("ann", 60) @@ w2 :> Owner("bob", 60)
           @@ w3 :> Owner("cid", 60) @@ w4 :> Owner("cid", 0) @@ w5 :> Owner("dan", -1)

\* The retry limits of the workers: equal, or lowered on one of two instances.
EqualLimits == r1 :> 2 @@ r2 :> 2
LoweredLimit == r1 :> 2 @@ r2 :> 1

-----------------------------------------------------------------------------
\* One operation through HTTP and twice through the queue, a rival that uses its key
\* on another wallet, and another operation under the same message identifier.
Duplicates == [who |-> {c1, c2, c3, c4, c5}, faults |-> 2]

\* The operation, a call with its key for somebody else's wallet, which is repeated, one of
\* somebody else's provider, and an invalid opening.
Strangers == [who |-> {c1, c6, c7, c14, w5}, faults |-> 1]

\* A bet sent twice over HTTP, its refund, which may come first, and a call with the key of
\* the one and the external id of the other, while two openings of one player create the
\* wallet.
Clients == [who |-> {c8, c9, c10, c11, w3, w4, r1}, faults |-> 1]

\* A bet, and another one sent twice, of which the balance covers one.
Bettors == [who |-> {c1, c12, c13}, faults |-> 1]

CallRequests ==
  c1 :> Bet
  @@ c2 :> Over(Bet, "m1", "b1")
  @@ c3 :> Over(Bet, "m1", "b1")
  @@ c4 :> [Bet EXCEPT !.wallet = w2, !.player = "bob"]
  @@ c5 :> Over([Other EXCEPT !.kind = "LOSS", !.amount = 0], "m1", "b2")
  @@ c6 :> [Bet EXCEPT !.player = "bob", !.ext = "foreign"]
  @@ c14 :> [Bet EXCEPT !.player = "bob", !.ext = "foreign"]
  @@ c7 :> [Bet EXCEPT !.sender = "mallory"]
  @@ c8 :> OnNew(Bet)
  @@ c9 :> OnNew(Bet)
  @@ c10 :> OnNew(Follow("REFUND", "refund"))
  @@ c11 :> OnNew([Bet EXCEPT !.ext = "refund"])
  @@ c12 :> Other
  @@ c13 :> Other

CallScenarios == {Duplicates, Strangers, Clients, Bettors}

\* Calls with equal requests.
Repeats == Permutations({c2, c3}) \cup Permutations({c8, c9}) \cup Permutations({c12, c13})
           \cup Permutations({c6, c14})

-----------------------------------------------------------------------------
\* A bet, the refund and the rollback that both want to undo it, and a rollback of the
\* refund, arriving in any order, with two workers.
Reversals == [who |-> {c1, c2, c3, c4, r1, r2}, faults |-> 0]

\* The same without the last of them, when a step may fail.
Interrupted == [who |-> {c1, c2, c3, r1, r2}, faults |-> 1]

\* Two bets of which the balance covers one, a win that may overflow, and its rollback,
\* which the balance may not cover any more.
Balances == [who |-> {c1, c5, c7, c8, r1}, faults |-> 0]

\* Two bets of which the balance covers one, a refund of the second, and an operation
\* that refers to itself.
References == [who |-> {c1, c5, c6, c9, r1}, faults |-> 0]

AccountRequests ==
  c1 :> Bet
  @@ c2 :> Follow("REFUND", "refund")
  @@ c3 :> Follow("ROLLBACK", "rollback")
  @@ c4 :> [Follow("ROLLBACK", "undo") EXCEPT !.ref = "refund"]
  @@ c5 :> Other
  @@ c6 :> [Follow("REFUND", "refund2") EXCEPT !.ref = "bet2"]
  @@ c7 :> [Follow("WIN", "win") EXCEPT !.ref = Nil, !.amount = 50]
  @@ c8 :> [Follow("ROLLBACK", "unwin") EXCEPT !.ref = "win", !.amount = 50]
  @@ c9 :> [Follow("ROLLBACK", "self") EXCEPT !.ref = "self"]

AccountScenarios == {Reversals, Interrupted, Balances, References}

-----------------------------------------------------------------------------
\* A bet that is sent through HTTP and through the queue, where it is delivered
\* twice, and a win that may come before it.
WaitingRequests ==
  c1 :> Bet
  @@ c2 :> Over(Bet, "m1", "b1")
  @@ c3 :> Follow("WIN", "win")
  @@ c4 :> Over(Bet, "m1", "b1")

WaitingScenarios == {[who |-> Actors, faults |-> 1]}

=============================================================================
