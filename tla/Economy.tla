------------------------------ MODULE Economy -------------------------------
(***************************************************************************)
(* Credits: CreditLedger, StakeManager, SlashingRules.slash_verifiers and  *)
(* BountyManager, which share one SQLite connection and one                *)
(* threading.Lock.                                                         *)
(*                                                                         *)
(* An operation that runs inside one "with self.lock" is one step.  What   *)
(* takes the lock several times, or reads without it, is several steps:    *)
(* slash_verifiers reads each stake outside the lock, and escrow_bounty    *)
(* calls ledger.escrow while it holds the lock.  An operation that raises  *)
(* (a check fails, or CHECK(... >= 0) rolls the transaction back) changes  *)
(* nothing.  The operations table is an audit trail that nothing reads.    *)
(***************************************************************************)
EXTENDS Integers, FiniteSets, Functions

CONSTANTS
    Accounts,
    Threads,
    EscrowIds,
    UnbondingIds,
    BountyIds,    \* a bounty's id is the escrow id it asks for
    Nobody,
    Accused, Accusers, Honest,   \* arguments of slash_verifiers
    Amounts,      \* amounts that callers pass
    MAX_SUPPLY

ASSUME EconomyAssumption ==
    /\ \A rows \in {Accounts, Threads, EscrowIds, UnbondingIds, BountyIds} : IsFiniteSet(rows)
    /\ Nobody \notin Accounts \cup Threads
    /\ BountyIds \cap EscrowIds = {}
    /\ Accused \subseteq (SUBSET Accounts) \ {{}}
    /\ Accusers \subseteq Accounts
    /\ Honest \subseteq SUBSET Accounts
    /\ Amounts \subseteq Nat \ {0}
    /\ MAX_SUPPLY \in Nat

(* The verifiers to slash, who challenged them and who was honest.         *)
Charges == [verifiers : Accused, challenger : Accusers, honest : Honest]

VARIABLES
    accounts,     \* rows of table accounts
    supply,       \* supply_tracking.total_supply
    escrows,      \* table escrows
    unbondings,   \* table unbonding
    bounties,     \* table bounties
    lock,         \* ledger.lock: the thread that holds it
    call,         \* what each thread is in
    raced         \* history: some slash took less than it had calculated

economyVars == <<accounts, supply, escrows, unbondings, bounties, lock, call, raced>>

NoAccount == [exists |-> FALSE, balance |-> 0, locked |-> 0, unbonding |-> 0]

AccountRow == [exists : BOOLEAN, balance : Nat, locked : Nat, unbonding : Nat]

Ids == EscrowIds \cup BountyIds

(* account = Nobody: no such row.                                          *)
EscrowRow == [account : Accounts \cup {Nobody}, amount : Nat, released : BOOLEAN]

NoEscrow == [account |-> Nobody, amount |-> 0, released |-> FALSE]

UnbondingRow == [account : Accounts \cup {Nobody}, amount : Nat,
                 status : {"none", "open", "ripe", "completed"}]

NoUnbonding == [account |-> Nobody, amount |-> 0, status |-> "none"]

BountyRow == [creator : Accounts \cup {Nobody}, amount : Nat,
              status : {"none", "CREATED", "ESCROWED", "CANCELLED"}]

NoBounty == [creator |-> Nobody, amount |-> 0, status |-> "none"]

(* A thread that waits for the lock inside ledger.escrow, or is in the     *)
(* loop of slash_verifiers: verifiers to go, the amount calculated for the *)
(* one at hand, and total_slashed.                                         *)
CallState ==
    [pc : {"idle", "escrow", "slash", "execute"}, id : Ids \cup {Nobody},
     charge : Charges \cup {Nobody}, todo : SUBSET Accounts,
     verifier : Accounts \cup {Nobody}, account : Accounts \cup {Nobody},
     amount : Nat, total : Nat]

IdleCall == [pc |-> "idle", id |-> Nobody, charge |-> Nobody, todo |-> {},
             verifier |-> Nobody, account |-> Nobody, amount |-> 0, total |-> 0]

EconomyInit ==
    /\ accounts = [a \in Accounts |-> NoAccount]
    /\ supply = 0
    /\ escrows = [i \in Ids |-> NoEscrow]
    /\ unbondings = [u \in UnbondingIds |-> NoUnbonding]
    /\ bounties = [b \in BountyIds |-> NoBounty]
    /\ lock = Nobody
    /\ call = [t \in Threads |-> IdleCall]
    /\ raced = FALSE

Free == lock = Nobody

-----------------------------------------------------------------------------
(* CreditLedger.                                                           *)

(* initial_balance 0 mints nothing; more is minted up to MAX_SUPPLY.       *)
create_account(a, n) ==
    /\ Free
    /\ ~accounts[a].exists
    /\ supply + n <= MAX_SUPPLY
    /\ accounts' = [accounts EXCEPT ![a] = [exists |-> TRUE, balance |-> n, locked |-> 0,
                                            unbonding |-> 0]]
    /\ supply' = supply + n
    /\ UNCHANGED <<escrows, unbondings, bounties, lock, call, raced>>

(* Faulty variant: both balances are read before either is written.        *)
transfer_StaleRead(a, b, n, allow_create_recipient) ==
    /\ Free
    /\ accounts[a].balance >= n
    /\ accounts[b].exists \/ allow_create_recipient
    /\ accounts' = [accounts EXCEPT ![a].balance = @ - n,
                                    ![b].balance = accounts[b].balance + n, ![b].exists = TRUE]
    /\ UNCHANGED <<supply, escrows, unbondings, bounties, lock, call, raced>>

(* With allow_create_recipient the recipient need not exist.               *)
transfer(a, b, n, allow_create_recipient) ==
    /\ Free
    /\ accounts[a].balance >= n
    /\ accounts[b].exists \/ allow_create_recipient
    /\ LET paid == [accounts EXCEPT ![a].balance = @ - n]
       IN  accounts' = [paid EXCEPT ![b].balance = @ + n, ![b].exists = TRUE]
    /\ UNCHANGED <<supply, escrows, unbondings, bounties, lock, call, raced>>

(* ledger.escrow is called: by anyone, or by escrow_bounty.                *)
EscrowCall(t, a, n, i) ==
    /\ call[t].pc = "idle"
    /\ call' = [call EXCEPT ![t] = [IdleCall EXCEPT !.pc = "escrow", !.id = i,
                                      !.account = a, !.amount = n]]
    /\ UNCHANGED <<accounts, supply, escrows, unbondings, bounties, lock, raced>>

(* It gets the lock.  Too little balance, or an id in use, raises.         *)
escrow(t) ==
    LET c == call[t] IN
    /\ c.pc = "escrow" /\ Free
    /\ IF accounts[c.account].balance >= c.amount /\ escrows[c.id] = NoEscrow
       THEN /\ accounts' = [accounts EXCEPT ![c.account].balance = @ - c.amount,
                                            ![c.account].locked = @ + c.amount]
            /\ escrows' = [escrows EXCEPT ![c.id] =
                             [account |-> c.account, amount |-> c.amount, released |-> FALSE]]
       ELSE UNCHANGED <<accounts, escrows>>
    /\ call' = [call EXCEPT ![t] = IdleCall]
    /\ UNCHANGED <<supply, unbondings, bounties, lock, raced>>

Open(i) == escrows[i] # NoEscrow /\ ~escrows[i].released

(* Faulty variant: the escrow is not marked released.                      *)
release_escrow_Unmarked(i, b) ==
    LET e == escrows[i] IN
    /\ Free /\ Open(i)
    /\ accounts[e.account].locked >= e.amount
    /\ LET unlocked == [accounts EXCEPT ![e.account].locked = @ - e.amount]
       IN  accounts' = [unlocked EXCEPT ![b].balance = @ + e.amount, ![b].exists = TRUE]
    /\ UNCHANGED <<escrows, supply, unbondings, bounties, lock, call, raced>>

(* CHECK(locked >= 0) rolls back if the account's locked credits are gone; *)
(* an unknown recipient is created.                                        *)
release_escrow(i, b) ==
    LET e == escrows[i] IN
    /\ Free /\ Open(i)
    /\ accounts[e.account].locked >= e.amount
    /\ LET unlocked == [accounts EXCEPT ![e.account].locked = @ - e.amount]
       IN  accounts' = [unlocked EXCEPT ![b].balance = @ + e.amount, ![b].exists = TRUE]
    /\ escrows' = [escrows EXCEPT ![i].released = TRUE]
    /\ UNCHANGED <<supply, unbondings, bounties, lock, call, raced>>

cancel_escrow(i) ==
    LET e == escrows[i] IN
    /\ Free /\ Open(i)
    /\ accounts[e.account].locked >= e.amount
    /\ accounts' = [accounts EXCEPT ![e.account].locked = @ - e.amount,
                                    ![e.account].balance = @ + e.amount]
    /\ escrows' = [escrows EXCEPT ![i].released = TRUE]
    /\ UNCHANGED <<supply, unbondings, bounties, lock, call, raced>>

-----------------------------------------------------------------------------
(* StakeManager: a stake is the whole of locked, escrows included.         *)
stake(a, n) ==
    /\ Free
    /\ accounts[a].balance >= n
    /\ accounts' = [accounts EXCEPT ![a].balance = @ - n, ![a].locked = @ + n]
    /\ UNCHANGED <<supply, escrows, unbondings, bounties, lock, call, raced>>

unstake(a, n, u) ==
    /\ Free
    /\ accounts[a].locked >= n
    /\ unbondings[u] = NoUnbonding
    /\ accounts' = [accounts EXCEPT ![a].locked = @ - n, ![a].unbonding = @ + n]
    /\ unbondings' = [unbondings EXCEPT ![u] =
                        [account |-> a, amount |-> n, status |-> "open"]]
    /\ UNCHANGED <<supply, escrows, bounties, lock, call, raced>>

(* The unbonding period passes.                                            *)
Ripen(u) ==
    /\ unbondings[u].status = "open"
    /\ unbondings' = [unbondings EXCEPT ![u].status = "ripe"]
    /\ UNCHANGED <<accounts, supply, escrows, bounties, lock, call, raced>>

UnbondingAmounts == [u \in UnbondingIds |-> unbondings[u].amount]

Ripe(a) == {u \in UnbondingIds : unbondings[u].account = a /\ unbondings[u].status = "ripe"}

(* Faulty variant: the records are not marked completed.                   *)
complete_unbonding_Unmarked(a) ==
    LET released == SumFunctionOnSet(UnbondingAmounts, Ripe(a)) IN
    /\ Free
    /\ Ripe(a) # {}
    /\ accounts[a].unbonding >= released
    /\ accounts' = [accounts EXCEPT ![a].unbonding = @ - released, ![a].balance = @ + released]
    /\ UNCHANGED <<unbondings, supply, escrows, bounties, lock, call, raced>>

complete_unbonding(a) ==
    LET released == SumFunctionOnSet(UnbondingAmounts, Ripe(a)) IN
    /\ Free
    /\ Ripe(a) # {}
    /\ accounts[a].unbonding >= released
    /\ accounts' = [accounts EXCEPT ![a].unbonding = @ - released, ![a].balance = @ + released]
    /\ unbondings' = [u \in UnbondingIds |->
                        IF u \in Ripe(a) THEN [unbondings[u] EXCEPT !.status = "completed"]
                        ELSE unbondings[u]]
    /\ UNCHANGED <<supply, escrows, bounties, lock, call, raced>>

-----------------------------------------------------------------------------
(* SlashingRules.slash_verifiers.                                          *)
slash_verifiers(t, c) ==
    /\ call[t].pc = "idle"
    /\ call' = [call EXCEPT ![t] = [IdleCall EXCEPT !.pc = "slash", !.charge = c,
                                      !.todo = c.verifiers]]
    /\ UNCHANGED <<accounts, supply, escrows, unbondings, bounties, lock, raced>>

(* FAILED_CHALLENGE: half of the stake, read without the lock.             *)
calculate_slash_amount(t, v) ==
    /\ call[t].pc = "slash" /\ v \in call[t].todo
    /\ call' = [call EXCEPT ![t].pc = "execute", ![t].verifier = v, ![t].todo = @ \ {v},
                            ![t].amount = accounts[v].locked \div 2]
    /\ UNCHANGED <<accounts, supply, escrows, unbondings, bounties, lock, raced>>

(* At most what is staked by now is taken; total_slashed grows by what was *)
(* calculated.                                                             *)
execute_slash(t) ==
    LET c == call[t]
        staked == accounts[c.verifier].locked
        actual_slash == IF staked < c.amount THEN staked ELSE c.amount
    IN
    /\ c.pc = "execute" /\ Free
    /\ accounts' = [accounts EXCEPT ![c.verifier].locked = @ - actual_slash]
    /\ call' = [call EXCEPT ![t].pc = "slash", ![t].total = @ + c.amount]
    /\ raced' = (raced \/ actual_slash < c.amount)
    /\ UNCHANGED <<supply, escrows, unbondings, bounties, lock>>

(* What account a receives: challenger_payout and its share of             *)
(* honest_total, whose remainder goes to the first of the list.            *)
Reward(c, total, first, a) ==
    LET challenger_payout == (total * 50) \div 100
        honest_total == (total * 40) \div 100
        n == Cardinality(c.honest)
    IN  (IF a = c.challenger THEN challenger_payout ELSE 0)
      + (IF a \in c.honest THEN honest_total \div n ELSE 0)
      + (IF a \in c.honest /\ a = first THEN honest_total % n ELSE 0)

(* All verifiers are slashed: the rewards.  An UPDATE of an account that   *)
(* does not exist changes no row.                                          *)
PayRewards(t, first) ==
    LET c == call[t] IN
    /\ c.pc = "slash" /\ c.todo = {} /\ Free
    /\ first \in c.charge.honest \/ c.charge.honest = {}
    /\ accounts' = [a \in Accounts |->
                      IF accounts[a].exists
                      THEN [accounts[a] EXCEPT !.balance = @ + Reward(c.charge, c.total, first, a)]
                      ELSE accounts[a]]
    /\ call' = [call EXCEPT ![t] = IdleCall]
    /\ UNCHANGED <<supply, escrows, unbondings, bounties, lock, raced>>

-----------------------------------------------------------------------------
(* BountyManager.  distribute_bounty needs a bounty that is ESCROWED.      *)
create_bounty(b, a, n) ==
    /\ Free
    /\ bounties[b] = NoBounty
    /\ bounties' = [bounties EXCEPT ![b] = [creator |-> a, amount |-> n, status |-> "CREATED"]]
    /\ UNCHANGED <<accounts, supply, escrows, unbondings, lock, call, raced>>

(* The lock is taken, and kept while ledger.escrow is called.              *)
escrow_bounty(t, b) ==
    /\ call[t].pc = "idle" /\ Free
    /\ bounties[b].status = "CREATED"
    /\ lock' = t
    /\ call' = [call EXCEPT ![t] = [IdleCall EXCEPT !.pc = "escrow", !.id = b,
                                      !.account = bounties[b].creator,
                                      !.amount = bounties[b].amount]]
    /\ UNCHANGED <<accounts, supply, escrows, unbondings, bounties, raced>>

(* A bounty that was never escrowed is only marked.                        *)
cancel_bounty(b) ==
    /\ Free
    /\ bounties[b] # NoBounty
    /\ bounties' = [bounties EXCEPT ![b].status = "CANCELLED"]
    /\ UNCHANGED <<accounts, supply, escrows, unbondings, lock, call, raced>>

-----------------------------------------------------------------------------
ThreadStep(t) ==
    \/ escrow(t)
    \/ \E v \in Accounts : calculate_slash_amount(t, v)
    \/ execute_slash(t)
    \/ \E first \in Accounts : PayRewards(t, first)

EconomyNext ==
    \/ \E a \in Accounts, n \in Amounts \cup {0} : create_account(a, n)
    \/ \E a, b \in Accounts, n \in Amounts, w \in BOOLEAN : transfer(a, b, n, w)
    \/ \E t \in Threads, a \in Accounts, n \in Amounts, i \in EscrowIds : EscrowCall(t, a, n, i)
    \/ \E i \in Ids, b \in Accounts : release_escrow(i, b)
    \/ \E i \in Ids : cancel_escrow(i)
    \/ \E a \in Accounts, n \in Amounts : stake(a, n)
    \/ \E a \in Accounts, n \in Amounts, u \in UnbondingIds : unstake(a, n, u)
    \/ \E u \in UnbondingIds : Ripen(u)
    \/ \E a \in Accounts : complete_unbonding(a)
    \/ \E t \in Threads, c \in Charges : slash_verifiers(t, c)
    \/ \E b \in BountyIds, a \in Accounts, n \in Amounts : create_bounty(b, a, n)
    \/ \E t \in Threads, b \in BountyIds : escrow_bounty(t, b)
    \/ \E b \in BountyIds : cancel_bounty(b)
    \/ \E t \in Threads : ThreadStep(t)

EconomySpec == EconomyInit /\ [][EconomyNext]_economyVars

-----------------------------------------------------------------------------
(* Types of the tables; no column is ever negative.                        *)
EconomyTypeOK ==
    /\ accounts \in [Accounts -> AccountRow]
    /\ supply \in 0..MAX_SUPPLY
    /\ escrows \in [Ids -> EscrowRow]
    /\ unbondings \in [UnbondingIds -> UnbondingRow]
    /\ bounties \in [BountyIds -> BountyRow]
    /\ lock \in Threads \cup {Nobody}
    /\ call \in [Threads -> CallState]
    /\ raced \in BOOLEAN

Credits == SumFunctionOnSet([a \in Accounts |-> accounts[a].balance + accounts[a].locked
                                                + accounts[a].unbonding], Accounts)

(* Transfers, escrows, stakes, unbonding and slashes in any order create   *)
(* no credits beyond those minted, as long as every slash takes what it    *)
(* calculated.                                                             *)
SupplyHolds == ~raced => Credits <= supply

(* The unbonding column is what the open unbonding records add up to, so   *)
(* that complete_unbonding always finds the credits it pays out.           *)
UnbondingBacked ==
    \A a \in Accounts :
      accounts[a].unbonding =
        SumFunctionOnSet(UnbondingAmounts,
          {u \in UnbondingIds : unbondings[u].account = a /\ unbondings[u].status # "completed"})

(* "locked: Escrowed credits": what an account has in open escrows is in   *)
(* its locked column.                                                      *)
EscrowsBacked ==
    \A a \in Accounts :
      accounts[a].locked >=
        SumFunctionOnSet([i \in Ids |-> escrows[i].amount],
          {i \in Ids : Open(i) /\ escrows[i].account = a})

(* Only the stake operations, which take the whole of locked for stake,    *)
(* can take the credits of an open escrow away: whatever releases, cancels,*)
(* transfers, new stakes and rewards come in between, an escrow that is    *)
(* backed stays payable.                                                   *)
EscrowStaysBacked ==
    [][EscrowsBacked =>
         \/ EscrowsBacked'
         \/ \E a \in Accounts, n \in Amounts, u \in UnbondingIds : unstake(a, n, u)
         \/ \E t \in Threads : execute_slash(t)]_economyVars

=============================================================================
