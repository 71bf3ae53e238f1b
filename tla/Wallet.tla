------------------------------- MODULE Wallet -------------------------------
(***************************************************************************)
(* The wallet service: one row per user (balance, reserved part, version)  *)
(* and an append-only ledger, changed by request handlers and Kafka        *)
(* consumers that run concurrently.  A handler is a `call' that moves      *)
(* through the awaits of its function: a read of the row inside a          *)
(* transaction, then a write that the optimistic lock accepts only if the  *)
(* version is still the one that was read.  Payouts (settleMarket) take    *)
(* the same two steps without the version check and without the bump.      *)
(*                                                                         *)
(* A call that stops for good (process crash, lost connection) is a call   *)
(* that takes no further step: its transaction rolls back, so nothing is   *)
(* written.  A Kafka message whose consumer crashed, or whose offset was   *)
(* not yet committed, is handled again from the start (Redeliver).         *)
(***************************************************************************)
EXTENDS Integers, Sequences, FiniteSets, Functions

CONSTANTS
  Users,           \* owners of wallets
  Calls,           \* handler invocations, each used for one request
  Ops,             \* the operations the environment issues
  Amounts,         \* amounts, in the smallest unit of the currency
  Refs,            \* referenceId values: settlement, payment and trade ids
  OpeningBalance,  \* balance of a wallet that was funded earlier
  MAX_OPTIMISTIC_LOCK_RETRIES,
  MaxDeliveries    \* bound: times one Kafka message is handled

Credits   == {"refund", "deposit"}
Spends    == {"debit", "reserve"}
Versioned == Credits \cup Spends \cup {"release"}
Consumed  == {"register", "deposit", "refund", "settle"}
AllOps    == Versioned \cup Consumed \cup {"view"}

ASSUME WalletAssumption ==
  /\ Users # {} /\ Amounts # {} /\ Refs # {}
  /\ Amounts \subseteq Nat
  /\ Ops \subseteq AllOps
  /\ OpeningBalance \in Nat
  /\ MAX_OPTIMISTIC_LOCK_RETRIES \in Nat \ {0}
  /\ MaxDeliveries \in Nat \ {0}

VARIABLES
  wallet,   \* the wallets table
  ledger,   \* the ledger_entries table, per user in commit order
  call      \* the handlers in flight

vars == <<wallet, ledger, call>>

Row   == [exists: BOOLEAN, balance: Int, reserved: Int, version: Nat]
NoRow == [exists |-> FALSE, balance |-> 0, reserved |-> 0, version |-> 0]
NewRow == [NoRow EXCEPT !.exists = TRUE]

Entry == [op: AllOps, amount: Amounts \cup {OpeningBalance}, ref: Refs,
          before: Int, after: Int]

Terminal == {"done", "rejected", "gaveup"}
Active   == {"dedup", "ensure", "create", "read", "write"}
Call == [pc: {"idle"} \cup Active \cup Terminal, op: AllOps, user: Users,
         amount: Amounts, ref: Refs, snap: Row, attempt: Nat,
         since: Nat,       \* history: the row's version at the first read
         deliveries: Nat]

TypeOK ==
  /\ wallet \in [Users -> Row]
  /\ ledger \in [Users -> Seq(Entry)]
  /\ call \in [Calls -> Call]

-----------------------------------------------------------------------------
RowOf(c) == wallet[call[c].user]
Available(w) == w.balance - w.reserved
SetRow(c, w) == wallet' = [wallet EXCEPT ![call[c].user] = w]

(* The first await of each handler. *)
Entrance(op) ==
  CASE op = "settle"                -> "dedup"
    [] op \in {"register", "deposit", "view"} -> "ensure"
    [] OTHER                        -> "read"

(* A wallet that was funded earlier: one deposit, which is in its ledger.  *)
FundedRow == [exists |-> TRUE, balance |-> OpeningBalance, reserved |-> 0,
              version |-> 1]
AnyRef == CHOOSE r \in Refs : TRUE
Funding == [op |-> "deposit", amount |-> OpeningBalance, ref |-> AnyRef,
            before |-> 0, after |-> OpeningBalance]

Unused == [pc |-> "idle", op |-> "release", user |-> CHOOSE u \in Users : TRUE,
           amount |-> CHOOSE a \in Amounts : TRUE, ref |-> AnyRef,
           snap |-> NoRow, attempt |-> 0, since |-> 0, deliveries |-> 0]

Init ==
  /\ \E funded \in SUBSET Users :
       /\ wallet = [u \in Users |-> IF u \in funded THEN FundedRow ELSE NoRow]
       /\ ledger = [u \in Users |-> IF u \in funded THEN <<Funding>> ELSE <<>>]
  /\ call = [c \in Calls |-> Unused]

(* One instance runs each consumer group, and it handles one message of    *)
(* the group at a time; HTTP handlers are not limited.  Only settleMarket  *)
(* reads a reference back, so only payouts are told apart by theirs.       *)
GroupIsFree(c, op) ==
  op \in Consumed =>
    \A d \in Calls \ {c} : call[d].op = op => call[d].pc \notin Active

SetCall(c, k) == call' = [call EXCEPT ![c] = k]

Goto(c, pc) == SetCall(c, [call[c] EXCEPT !.pc = pc])

Finish(c, outcome) ==
  SetCall(c, [call[c] EXCEPT !.pc = outcome, !.snap = NoRow, !.attempt = 0,
                             !.since = IF outcome = "gaveup" THEN @ ELSE 0])

Receive(c) ==
  /\ call[c].pc = "idle"
  /\ \E op \in Ops, u \in Users, a \in Amounts :
       /\ GroupIsFree(c, op)
       /\ \E ref \in IF op = "settle" THEN Refs ELSE {AnyRef} :
            SetCall(c, [pc |-> Entrance(op), op |-> op, user |-> u, amount |-> a,
                        ref |-> ref, snap |-> NoRow, attempt |-> 0,
                        since |-> 0, deliveries |-> 1])
  /\ UNCHANGED <<wallet, ledger>>

Redeliver(c) ==
  /\ call[c].pc # "idle"
  /\ call[c].op \in Consumed
  /\ call[c].deliveries < MaxDeliveries
  /\ GroupIsFree(c, call[c].op)
  /\ SetCall(c, [call[c] EXCEPT !.pc = Entrance(call[c].op), !.snap = NoRow,
                                !.attempt = 0, !.since = 0,
                                !.deliveries = @ + 1])
  /\ UNCHANGED <<wallet, ledger>>

(* Mutant: the lookup asks for another referenceType than is written. *)
NeverPaidOut(c) == FALSE

(* settleMarket's lookup of an earlier PAYOUT entry with the settlement id. *)
PaidOut(c) ==
  \E i \in 1..Len(ledger[call[c].user]) :
    LET e == ledger[call[c].user][i] IN e.op = "settle" /\ e.ref = call[c].ref

Dedup(c) ==
  /\ call[c].pc = "dedup"
  /\ \/ PaidOut(c) /\ Finish(c, "done")
     \/ ~PaidOut(c) /\ Goto(c, "ensure")
  /\ UNCHANGED <<wallet, ledger>>

(* createWallet and ensureWallet: find the row, create it if there is none. *)
(* The consumers of deposits and payouts go on to their transaction; a     *)
(* registration and a look at the ledger end here.                         *)
AfterEnsure(c) ==
  IF call[c].op \in {"register", "view"} THEN Finish(c, "done")
                                         ELSE Goto(c, "read")

EnsureFind(c) ==
  /\ call[c].pc = "ensure"
  /\ \/ RowOf(c).exists /\ AfterEnsure(c)
     \/ ~RowOf(c).exists /\ Goto(c, "create")
  /\ UNCHANGED <<wallet, ledger>>

(* Mutant: no unique index, the late creation writes a fresh row. *)
CreateOver(c) ==
  /\ call[c].pc = "create"
  /\ SetRow(c, NewRow)
  /\ AfterEnsure(c)
  /\ UNCHANGED ledger

(* The unique index on userId turns the second of two creations away. *)
EnsureCreate(c) ==
  /\ call[c].pc = "create"
  /\ \/ /\ RowOf(c).exists
        /\ Finish(c, "rejected")
        /\ UNCHANGED wallet
     \/ /\ ~RowOf(c).exists
        /\ SetRow(c, NewRow)
        /\ AfterEnsure(c)
  /\ UNCHANGED ledger

-----------------------------------------------------------------------------
(* Mutant: the availability check is dropped. *)
AlwaysAffords(c, w) == TRUE

(* The transactions: findUnique, the checks on what it returned, ... *)
Affords(c, w) == call[c].op \in Spends => Available(w) >= call[c].amount

TxRead(c) ==
  /\ call[c].pc = "read"
  /\ \/ /\ ~RowOf(c).exists
        /\ Finish(c, IF call[c].op = "release" THEN "done" ELSE "rejected")
     \/ /\ RowOf(c).exists
        /\ ~Affords(c, RowOf(c))
        /\ Finish(c, "rejected")
     \/ /\ RowOf(c).exists
        /\ Affords(c, RowOf(c))
        /\ SetCall(c, [call[c] EXCEPT
                         !.pc = "write", !.snap = RowOf(c),
                         !.since = IF call[c].attempt = 0 THEN RowOf(c).version
                                                          ELSE @])
  /\ UNCHANGED <<wallet, ledger>>

(* Mutant: the where clause names the user only. *)
IgnoresVersion(c) == TRUE

(* ... and an update whose where clause names the version that was read.   *)
VersionMatches(c) == RowOf(c).version = call[c].snap.version

AtWrite(c, ops) == call[c].pc = "write" /\ call[c].op \in ops

Post(c, before, after) ==
  ledger' = [ledger EXCEPT ![call[c].user] =
               Append(@, [op |-> call[c].op, amount |-> call[c].amount,
                          ref |-> call[c].ref, before |-> before,
                          after |-> after])]

CommitCredit(c) ==
  LET snap == call[c].snap
      after == snap.balance + call[c].amount
  IN  /\ AtWrite(c, Credits)
      /\ VersionMatches(c)
      /\ SetRow(c, [RowOf(c) EXCEPT !.balance = after, !.version = @ + 1])
      /\ Post(c, snap.balance, after)
      /\ Finish(c, "done")

CommitDebit(c) ==
  LET snap == call[c].snap
      after == snap.balance - call[c].amount
  IN  /\ AtWrite(c, {"debit"})
      /\ VersionMatches(c)
      /\ SetRow(c, [RowOf(c) EXCEPT !.balance = after, !.version = @ + 1])
      /\ Post(c, snap.balance, after)
      /\ Finish(c, "done")

CommitReserve(c) ==
  LET snap == call[c].snap
  IN  /\ AtWrite(c, {"reserve"})
      /\ VersionMatches(c)
      /\ SetRow(c, [RowOf(c) EXCEPT !.reserved = @ + call[c].amount,
                                    !.version = @ + 1])
      /\ Post(c, snap.balance, snap.balance)
      /\ Finish(c, "done")

(* Mutant: the version is decremented with the reserved part. *)
ReleaseTurnsVersionBack(c) ==
  LET snap == call[c].snap
  IN  /\ AtWrite(c, {"release"})
      /\ VersionMatches(c)
      /\ SetRow(c, [RowOf(c) EXCEPT !.reserved = @ - call[c].amount,
                                    !.version = @ - 1])
      /\ Post(c, snap.balance, snap.balance)
      /\ Finish(c, "done")

CommitRelease(c) ==
  LET snap == call[c].snap
  IN  /\ AtWrite(c, {"release"})
      /\ VersionMatches(c)
      /\ SetRow(c, [RowOf(c) EXCEPT !.reserved = @ - call[c].amount,
                                    !.version = @ + 1])
      /\ Post(c, snap.balance, snap.balance)
      /\ Finish(c, "done")

(* settleMarket increments in place; the ledger entry is computed from the *)
(* row it read.                                                            *)
CommitPayout(c) ==
  LET snap == call[c].snap
  IN  /\ AtWrite(c, {"settle"})
      /\ SetRow(c, [RowOf(c) EXCEPT !.balance = @ + call[c].amount])
      /\ Post(c, snap.balance, snap.balance + call[c].amount)
      /\ Finish(c, "done")

(* Mutant: the read is left outside the retried function. *)
RetryWithoutReading(c) ==
  /\ AtWrite(c, Versioned)
  /\ ~VersionMatches(c)
  /\ \/ /\ call[c].attempt >= MAX_OPTIMISTIC_LOCK_RETRIES - 1
        /\ Finish(c, "gaveup")
     \/ /\ call[c].attempt < MAX_OPTIMISTIC_LOCK_RETRIES - 1
        /\ SetCall(c, [call[c] EXCEPT !.attempt = @ + 1])
  /\ UNCHANGED <<wallet, ledger>>

(* P2025: the transaction rolls back; withOptimisticLockRetry runs it      *)
(* again from its read, or gives up.                                       *)
Retry(c) ==
  /\ AtWrite(c, Versioned)
  /\ ~VersionMatches(c)
  /\ \/ /\ call[c].attempt >= MAX_OPTIMISTIC_LOCK_RETRIES - 1
        /\ Finish(c, "gaveup")
     \/ /\ call[c].attempt < MAX_OPTIMISTIC_LOCK_RETRIES - 1
        /\ SetCall(c, [call[c] EXCEPT !.pc = "read", !.snap = NoRow,
                                      !.attempt = @ + 1])
  /\ UNCHANGED <<wallet, ledger>>

Step(c) ==
  \/ Receive(c) \/ Redeliver(c) \/ Dedup(c) \/ EnsureFind(c) \/ EnsureCreate(c)
  \/ TxRead(c) \/ CommitCredit(c) \/ CommitDebit(c) \/ CommitReserve(c)
  \/ CommitRelease(c) \/ CommitPayout(c) \/ Retry(c)

Next == \E c \in Calls : Step(c)

Spec == Init /\ [][Next]_vars

-----------------------------------------------------------------------------
(* What the user is shown. *)
getWallet(u) == [balance |-> wallet[u].balance, reservedBalance |-> wallet[u].reserved,
                 availableBalance |-> Available(wallet[u])]

(* Before it reads the entries, getLedger creates a missing row: op "view". *)
getLedger(u) == ledger[u]

-----------------------------------------------------------------------------
(* Nothing is ever spent or reserved that is not available: in no          *)
(* interleaving of debits, reservations, credits, releases and payouts     *)
(* does the reserved part exceed the balance (the Available checks of      *)
(* debit and reserve, made on a row that was read earlier).                *)
NeverOverspent == \A u \in Users : Available(wallet[u]) >= 0

(* The ledger is a faithful history of the balance: each entry starts at   *)
(* the balance where the previous one ended, and the last one ends at the  *)
(* balance of the row.  Two commits computed from one read break it.       *)
EndOf(l) == IF l = <<>> THEN 0 ELSE l[Len(l)].after
LedgerExplainsBalance ==
  \A u \in Users :
    /\ \A i \in 1..Len(ledger[u]) :
         ledger[u][i].before = IF i = 1 THEN 0 ELSE ledger[u][i - 1].after
    /\ wallet[u].balance = EndOf(ledger[u])

(* withOptimisticLockRetry gives up only under real contention: between    *)
(* the first read of a handler and its giving up, others have committed to *)
(* the row at least as often as the handler has tried, so that each failed *)
(* attempt is owed to a commit of its own.                                 *)
CommitsSinceFirstRead(c) == RowOf(c).version - call[c].since
GivesUpOnlyUnderContention ==
  \A c \in Calls : call[c].pc = "gaveup"
                     => CommitsSinceFirstRead(c) >= MAX_OPTIMISTIC_LOCK_RETRIES

(* A settlement id is paid at most once, also when its message is handled  *)
(* again or republished.                                                   *)
PaidOnce ==
  \A u \in Users : \A i, j \in 1..Len(ledger[u]) :
    /\ ledger[u][i].op = "settle" /\ ledger[u][j].op = "settle"
    /\ ledger[u][i].ref = ledger[u][j].ref
    => i = j

(* What the entries of a ledger add up to: money in or out of the balance, *)
(* and money put aside.                                                    *)
Signed(e) == CASE e.op \in Credits \cup {"settle"} -> e.amount
               [] e.op = "debit"                   -> -e.amount
               [] OTHER                            -> 0
Held(e)   == CASE e.op = "reserve" -> e.amount
               [] e.op = "release" -> -e.amount
               [] OTHER            -> 0
Earned(l) == SumFunctionOnSet([i \in DOMAIN l |-> Signed(l[i])], DOMAIN l)
Aside(l)  == SumFunctionOnSet([i \in DOMAIN l |-> Held(l[i])], DOMAIN l)

(* The reserved part of a wallet is what its ledger reserved less what it  *)
(* released: no release or reservation is lost to a concurrent one.        *)
ReservedMatchesLedger ==
  \A u \in Users : wallet[u].reserved = Aside(ledger[u])

(* What the user is shown as available is what the entries below it add up *)
(* to, and balance and reserved part are both what the ledger says.        *)
LedgerExplainsWallet ==
  /\ LedgerExplainsBalance /\ ReservedMatchesLedger
  /\ \A u \in Users :
       getWallet(u).availableBalance = Earned(getLedger(u)) - Aside(getLedger(u))

(* Payouts race with versioned writes and can be lost, but no race creates *)
(* money: the balance is at most what the ledger's entries add up to.      *)
NoMoneyCreated ==
  \A u \in Users : wallet[u].balance <= Earned(ledger[u])

(* No concurrent write is silently lost: the balance is exactly what the   *)
(* ledger's entries add up to, as the comment on the optimistic lock says  *)
(* of concurrent requests against one wallet.                              *)
NoUpdateLost ==
  \A u \in Users : wallet[u].balance = Earned(ledger[u])

(* The refinement: the rows, seen as accounts. *)
Accounts == [u \in Users |-> [open    |-> wallet[u].exists,
                              balance |-> wallet[u].balance,
                              held    |-> wallet[u].reserved]]
Atomic == INSTANCE AtomicWallet WITH acct <- Accounts

(* Every commit of a version-checked operation equals one atomic operation *)
(* on the account as it is at that moment: no update is lost.              *)
ImplementsAtomicWallet == Atomic!Spec

=============================================================================
