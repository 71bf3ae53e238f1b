---------------------------- MODULE AtomicWallet ----------------------------
(***************************************************************************)
(* What the wallet service promises its callers: every accepted operation  *)
(* takes effect on the account as it is at that moment, at once and in     *)
(* full, and nothing is spent or set aside that is not available.          *)
(***************************************************************************)
EXTENDS Integers

CONSTANTS Users, Amounts, OpeningBalance

VARIABLE acct   \* per user: whether the account is open, its balance and hold

Account == [open: BOOLEAN, balance: Int, held: Int]
Closed  == [open |-> FALSE, balance |-> 0, held |-> 0]

Init == acct \in [Users -> {Closed, [open |-> TRUE, balance |-> OpeningBalance,
                                     held |-> 0]}]

Free(u) == acct[u].balance - acct[u].held

Becomes(u, balance, held) ==
  acct' = [acct EXCEPT ![u] = [open |-> TRUE, balance |-> balance, held |-> held]]

Open(u) == ~acct[u].open /\ Becomes(u, acct[u].balance, acct[u].held)

Credit(u, a) == acct[u].open /\ Becomes(u, acct[u].balance + a, acct[u].held)

Debit(u, a) ==
  /\ acct[u].open
  /\ Free(u) >= a
  /\ Becomes(u, acct[u].balance - a, acct[u].held)

Reserve(u, a) ==
  /\ acct[u].open
  /\ Free(u) >= a
  /\ Becomes(u, acct[u].balance, acct[u].held + a)

Release(u, a) == acct[u].open /\ Becomes(u, acct[u].balance, acct[u].held - a)

Next == \E u \in Users :
  \/ Open(u)
  \/ \E a \in Amounts : Credit(u, a) \/ Debit(u, a) \/ Reserve(u, a)
                       \/ Release(u, a)

Spec == Init /\ [][Next]_acct

=============================================================================
